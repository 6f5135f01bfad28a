------------------------------- MODULE LiveView -------------------------------
(***************************************************************************)
(* LiveViewBoundary: leases of several consumers on one MediaSession over  *)
(* an in-process GStreamer runtime.  The runtime starts and stops its      *)
(* pipeline in threads, which go on when the call that waits for them is   *)
(* cancelled or runs out of time.                                          *)
(***************************************************************************)
EXTENDS Integers, FiniteSets

CONSTANTS Consumers, Sources, MaxConsumers,
          MaxThreads,   \* bound: native start and stop calls
          MaxCuts       \* bound: cancellations and timeouts

VARIABLES
  vpc,        \* where each consumer's call is
  vwhat,      \* its operation
  vsrc,       \* the source it asked for
  vstate,     \* boundary: _state
  leases,     \* boundary: _leases
  shared,     \* boundary: _active_source_fingerprint, 0 for None
  sess,       \* session: _state
  pipeline,   \* runtime: _pipeline, as <<maker, source>>
  playing,    \* the native pipelines that play
  threads,    \* the runtime's threads
  begun,      \* threads so far, the name of the last one
  cuts,       \* bound
  stray       \* history: a call was given up while its thread ran

viewvars == <<vpc, vwhat, vsrc, vstate, leases, shared, sess, pipeline, playing, threads, begun, cuts, stray>>

\* A thread in _start_sync or _stop_sync, and the call that waits for it.
Thread(k, s, c) == [id |-> begun + 1, kind |-> k, src |-> s, at |-> "begin", owner |-> c, ok |-> TRUE]
Quiet == \A c \in Consumers : vpc[c] \in {"out", "in"}
LockFree == Quiet

None == <<0, 0>>
ViewInit ==
  /\ vpc = [c \in Consumers |-> "out"] /\ vwhat = [c \in Consumers |-> "none"]
  /\ vsrc = [c \in Consumers |-> 0]
  /\ vstate = "idle" /\ leases = {} /\ shared = 0 /\ sess = "created" /\ pipeline = None
  /\ playing = {} /\ threads = {} /\ begun = 0 /\ cuts = 0 /\ stray = FALSE

-----------------------------------------------------------------------------
(* GStreamerUdpRuntime, in its threads.                                    *)

Spawn(k, s, c) == /\ begun < MaxThreads /\ begun' = begun + 1 /\ threads' = threads \cup {Thread(k, s, c)}
Now(t, at, ok) == [t EXCEPT !.at = at, !.ok = ok]
Moved(t, at) == threads' = (threads \ {t}) \cup {Now(t, at, t.ok)}
Ended(t, ok) == threads' = (threads \ {t}) \cup (IF t.owner = 0 THEN {} ELSE {Now(t, "end", ok)})

\* _start_sync: a pipeline that is there is taken as it is.
StartLooks(t) == /\ t.kind = "start" /\ t.at = "begin"
                 /\ IF pipeline # None THEN Ended(t, TRUE) ELSE Moved(t, "make")
                 /\ UNCHANGED <<vpc, vwhat, vsrc, vstate, leases, shared, sess, pipeline, playing, begun, cuts, stray>>
StartMakes(t) == /\ t.kind = "start" /\ t.at = "make"
                 /\ \/ pipeline' = <<t.id, t.src>> /\ playing' = playing \cup {pipeline'} /\ Ended(t, TRUE)
                    \/ pipeline' = None /\ Ended(t, FALSE) /\ UNCHANGED playing
                 /\ UNCHANGED <<vpc, vwhat, vsrc, vstate, leases, shared, sess, begun, cuts, stray>>
\* _stop_sync closes what it finds.
StopCloses(t) == /\ t.kind = "stop" /\ t.at = "begin" /\ pipeline' = None /\ playing' = playing \ {pipeline}
                 /\ Ended(t, TRUE)
                 /\ UNCHANGED <<vpc, vwhat, vsrc, vstate, leases, shared, sess, begun, cuts, stray>>

-----------------------------------------------------------------------------
(* The boundary's calls.  Each holds its lock until it returns.            *)

Goto(c, at) == vpc' = [vpc EXCEPT ![c] = at]
Call(c, op) == LockFree /\ vpc[c] = (IF op = "release" THEN "in" ELSE "out") /\ vwhat' = [vwhat EXCEPT ![c] = op]

\* A second source may not join.
SameSource(s) == shared = s
Granted(c) == leases' = leases \cup {c} /\ Goto(c, "in")
Acquire(c, s) ==
  /\ Call(c, "acquire") /\ vstate \notin {"closed", "failed"} /\ Cardinality(leases) < MaxConsumers
  /\ vsrc' = [vsrc EXCEPT ![c] = s]
  /\ \/ leases # {} /\ SameSource(s) /\ Granted(c) /\ UNCHANGED <<vstate, shared, sess, threads, begun>>
     \/ /\ leases = {} /\ sess \in {"created", "stopped"} /\ sess' = "opening" /\ Spawn("start", s, c)
        /\ Goto(c, "start") /\ UNCHANGED <<vstate, leases, shared>>
  /\ UNCHANGED <<pipeline, playing, cuts, stray>>
Finished(c) == {t \in threads : t.owner = c /\ t.at = "end"}
Started(c) ==
  /\ vpc[c] = "start"
  /\ \E t \in Finished(c) :
       /\ threads' = threads \ {t}
       /\ IF t.ok THEN /\ sess' = "running" /\ vstate' = "running" /\ shared' = vsrc[c] /\ Granted(c)
          ELSE /\ sess' = "failed" /\ vstate' = "failed" /\ Goto(c, "out") /\ UNCHANGED <<shared, leases>>
  /\ UNCHANGED <<vwhat, vsrc, pipeline, playing, begun, cuts, stray>>

LastLeaves == leases' = {} /\ shared' = 0
\* The final release stops the session.
Release(c) ==
  /\ Call(c, "release") /\ c \in leases
  /\ \/ /\ leases # {c} /\ leases' = leases \ {c} /\ Goto(c, "out")
        /\ UNCHANGED <<vstate, shared, sess, threads, begun>>
     \/ /\ leases = {c} /\ LastLeaves /\ sess = "running" /\ sess' = "stopping" /\ Spawn("stop", 0, c)
        /\ Goto(c, "stop") /\ UNCHANGED vstate
  /\ UNCHANGED <<vsrc, pipeline, playing, cuts, stray>>
\* recover cleans a failed session; the leases it clears are void.
Voided(c, at) == vpc' = [d \in Consumers |-> IF d = c THEN at ELSE "out"]
Recover(c) == /\ Call(c, "recover") /\ vstate = "failed" /\ LastLeaves
              /\ \/ sess = "failed" /\ Spawn("stop", 0, c) /\ Voided(c, "stop") /\ UNCHANGED vstate
                 \/ sess # "failed" /\ vstate' = "idle" /\ Voided(c, "out") /\ UNCHANGED <<threads, begun>>
              /\ UNCHANGED <<vsrc, sess, pipeline, playing, cuts, stray>>
\* close stops or recovers the session first, then closes it.
CloseView(c) == /\ Call(c, "close") /\ vstate # "closed" /\ LastLeaves /\ Spawn("stop", 0, c)
                /\ IF sess \in {"running", "failed"}
                   THEN Voided(c, "stop") /\ sess' = (IF sess = "running" THEN "stopping" ELSE sess)
                   ELSE Voided(c, "close") /\ UNCHANGED sess
                /\ UNCHANGED <<vsrc, vstate, pipeline, playing, cuts, stray>>
Stopped(c) ==
  /\ vpc[c] = "stop"
  /\ \E t \in Finished(c) :
       \/ /\ vwhat[c] # "close" /\ threads' = threads \ {t} /\ sess' = "stopped" /\ vstate' = "idle"
          /\ Goto(c, "out") /\ UNCHANGED begun
       \/ /\ vwhat[c] = "close" /\ begun < MaxThreads /\ begun' = begun + 1
          /\ threads' = (threads \ {t}) \cup {Thread("stop", 0, c)} /\ sess' = "stopped" /\ Goto(c, "close")
          /\ UNCHANGED vstate
  /\ UNCHANGED <<vwhat, vsrc, leases, shared, pipeline, playing, cuts, stray>>
Closed(c) == /\ vpc[c] = "close"
             /\ \E t \in Finished(c) : threads' = threads \ {t}
             /\ sess' = "closed" /\ vstate' = "closed" /\ Goto(c, "out")
             /\ UNCHANGED <<vwhat, vsrc, leases, shared, pipeline, playing, begun, cuts, stray>>

\* _bounded: cancelled or out of time, the thread is not.
CutFails == sess' = "failed" /\ vstate' = "failed"
Cut(c) == /\ vpc[c] \in {"start", "stop", "close"} /\ cuts < MaxCuts /\ cuts' = cuts + 1
          /\ threads' = {[t EXCEPT !.owner = IF @ = c THEN 0 ELSE @] : t \in threads \ Finished(c)}
          /\ CutFails /\ Goto(c, "out")
          /\ stray' = (stray \/ Finished(c) = {})
          /\ UNCHANGED <<vwhat, vsrc, leases, shared, pipeline, playing, begun>>

ViewNext ==
  \/ \E t \in threads : StartLooks(t) \/ StartMakes(t) \/ StopCloses(t)
  \/ \E c \in Consumers :
       \/ \E s \in Sources : Acquire(c, s)
       \/ Started(c) \/ Release(c) \/ Recover(c) \/ CloseView(c) \/ Stopped(c) \/ Closed(c) \/ Cut(c)
ViewSpec == ViewInit /\ [][ViewNext]_viewvars

-----------------------------------------------------------------------------
(* Properties.                                                             *)

\* Everyone who holds a lease asked for the source the boundary was started for,
\* and unless a call was given up half-way that is the source that plays; an idle
\* boundary then plays nothing.
LeasesSeeTheirSource ==
  /\ \A c \in leases : vsrc[c] = shared
  /\ ~stray /\ Quiet /\ leases # {} => pipeline[2] = shared
  /\ ~stray /\ Quiet /\ vstate \in {"idle", "closed"} => playing = {}

\* The boundary's and the session's state agree between calls, so that whatever
\* fails can be recovered and whatever is idle can be acquired.
BoundaryTracksSession ==
  Quiet => \/ vstate = "idle" /\ sess \in {"created", "stopped"}
           \/ vstate = sess /\ sess \in {"running", "failed", "closed"}

-----------------------------------------------------------------------------
(* What makes them inductive.                                              *)

Busy(c) == vpc[c] \in {"start", "stop", "close"}
ViewType ==
  /\ vpc \in [Consumers -> {"out", "in", "start", "stop", "close"}]
  /\ vwhat \in [Consumers -> {"none", "acquire", "release", "recover", "close"}]
  /\ vsrc \in [Consumers -> Sources \cup {0}]
  /\ vstate \in {"idle", "running", "failed", "closed"} /\ leases \subseteq Consumers
  /\ begun \in Nat /\ stray \in BOOLEAN
\* The lock: a call that waits is the only one, and nobody has a lease meanwhile.
OneCall ==
  \A c \in Consumers :
    /\ Busy(c) => leases = {} /\ \A d \in Consumers : Busy(d) => d = c
    /\ c \in leases <=> vpc[c] = "in"
Threads == [id : 1..begun, kind : {"start", "stop"}, src : Sources \cup {0},
            at : {"begin", "make", "end"}, owner : Consumers, ok : BOOLEAN]
\* What the one thread of a waiting call has done to the pipeline so far.
Serves(t, c) ==
  /\ t.owner = c
  /\ vpc[c] = "start" =>
       /\ t.kind = "start" /\ t.src = vsrc[c] /\ (t.at # "end" => pipeline = None)
       /\ t.at = "end" /\ t.ok => pipeline[2] = vsrc[c]
  /\ vpc[c] \in {"stop", "close"} => t.kind = "stop" /\ (t.at = "end" => pipeline = None)
\* Unless a call was given up, a thread runs for the call that waits and for no other,
\* and what plays is the pipeline that is kept.
ThreadsServe ==
  /\ playing = IF pipeline = None THEN {} ELSE {pipeline}
  /\ Quiet => threads = {}
  /\ \A c \in Consumers : Busy(c) => \E t \in Threads : threads = {t} /\ Serves(t, c)
ViewInv ==
  ViewType /\ OneCall /\ (~stray => ThreadsServe) /\ LeasesSeeTheirSource /\ BoundaryTracksSession
=============================================================================

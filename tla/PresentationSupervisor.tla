------------------------ MODULE PresentationSupervisor ------------------------
(***************************************************************************)
(* BoundedPresentationSupervisor over BoundedPresentationHost: calls       *)
(* serialised by the supervisor's lock, each of which may be cancelled or  *)
(* fail at every await, against runtimes that start, deliver, end, stop    *)
(* and close as they like.  A failure stands for an exception, a refusal   *)
(* or one of the time limits.                                              *)
(***************************************************************************)
EXTENDS Integers, FiniteSets

CONSTANTS Calls,            \* concurrent callers of the supervisor
          MaxReplacements, MaxGenerations,
          MaxFrames,        \* bound: frames of one runtime
          MaxCallsEach      \* bound

VARIABLES
  cpc,        \* where each call is
  what,       \* the operation of each call
  calls,      \* bound on the calls of each caller
  super,      \* supervisor: _state
  replaced,   \* supervisor: _replacements
  host,       \* host: _state
  gen,        \* host: _generation
  runtime,    \* host: _runtime, the generation it was assembled for, 0 for None
  accounted,  \* host: _accounted_generation
  totals,     \* host: _delivered_frames
  tally,      \* host: completed, stopped and failed generations
  rts,        \* state of the runtime of each generation
  shown       \* frames each runtime has delivered

callvars == <<cpc, what, calls>>
hostvars == <<host, gen, runtime, accounted, totals, tally>>
runvars == <<rts, shown>>
supvars == <<callvars, super, replaced, hostvars, runvars>>

Gens == 1 .. MaxGenerations
Ops == {"present", "replace", "wait", "stop", "close"}
Busy == {c \in Calls : cpc[c] \notin {"idle", "queued"}}

SupInit ==
  /\ cpc = [c \in Calls |-> "idle"] /\ what = [c \in Calls |-> "stop"] /\ calls = [c \in Calls |-> 0]
  /\ super = "ready" /\ replaced = 0
  /\ host = "ready" /\ gen = 0 /\ runtime = 0 /\ accounted = 0 /\ totals = 0
  /\ tally = [complete |-> 0, stopped |-> 0, failed |-> 0]
  /\ rts = [g \in Gens |-> "none"] /\ shown = [g \in Gens |-> 0]

-----------------------------------------------------------------------------
(* The runtime of a generation.                                            *)

Deliver(g) == /\ rts[g] = "running" /\ shown[g] < MaxFrames /\ shown' = [shown EXCEPT ![g] = @ + 1]
              /\ UNCHANGED <<callvars, super, replaced, hostvars, rts>>
Ends(g) == /\ rts[g] = "running" /\ \E s \in {"complete", "failed"} : rts' = [rts EXCEPT ![g] = s]
           /\ UNCHANGED <<callvars, super, replaced, hostvars, shown>>

-----------------------------------------------------------------------------
(* Host: accounting.  Snapshot is the frame count the host reports.        *)

Unaccounted == runtime # 0 /\ accounted # gen
Snapshot == totals + IF Unaccounted THEN shown[runtime] ELSE 0
Count(t, s) == IF s \in {"complete", "stopped"} THEN [t EXCEPT ![s] = @ + 1] ELSE t
\* _account_current once _state is s; f is 1 after _fail.
AccountCurrent(s, f) ==
  LET t == [tally EXCEPT !.failed = @ + f]
  IN IF Unaccounted THEN /\ totals' = totals + shown[runtime] /\ accounted' = gen /\ tally' = Count(t, s)
     ELSE tally' = t /\ UNCHANGED <<totals, accounted>>
\* _fail with nothing accounted.
FailHost == host' = "failed" /\ tally' = [tally EXCEPT !.failed = @ + 1] /\ UNCHANGED <<totals, accounted>>

Goto(c, at) == cpc' = [cpc EXCEPT ![c] = at]
Done(c) == Goto(c, "idle")
\* The supervisor fails the call.
FailCall(c) == super' = "failed" /\ Done(c)

-----------------------------------------------------------------------------
(* host.start, for present and for replace.                                *)

StartRefused == host \in {"running", "closed"} \/ gen >= MaxGenerations
\* The prior generation is accounted and released, then a runtime is assembled.
StartHost(c) ==
  \/ /\ StartRefused /\ FailCall(c) /\ UNCHANGED <<hostvars, rts>>
  \/ /\ ~StartRefused /\ runtime # 0 /\ Goto(c, "prior") /\ AccountCurrent(host, 0)
     /\ UNCHANGED <<host, gen, runtime, super, rts>>
  \/ /\ ~StartRefused /\ runtime = 0 /\ Goto(c, "start") /\ gen' = gen + 1 /\ runtime' = gen + 1
     /\ rts' = [rts EXCEPT ![gen + 1] = "ready"] /\ UNCHANGED <<host, accounted, totals, tally, super>>
  \/ /\ ~StartRefused /\ runtime = 0 /\ FailCall(c) /\ FailHost
     /\ UNCHANGED <<gen, runtime, rts>>

ForgetPrior(c) == /\ runtime' = gen + 1 /\ gen' = gen + 1 /\ Goto(c, "start")
                  /\ rts' = [rts EXCEPT ![gen + 1] = "ready"]
                  /\ UNCHANGED <<host, accounted, totals, tally, super>>
\* A prior generation that cannot be released stays the host's.
KeepPrior(c) == FailCall(c) /\ FailHost /\ UNCHANGED <<gen, runtime, rts>>
PriorClosed(c) ==
  /\ cpc[c] = "prior"
  /\ \/ /\ rts' = [rts EXCEPT ![runtime] = "closed", ![gen + 1] = "ready"]
        /\ Goto(c, "start") /\ gen' = gen + 1 /\ runtime' = gen + 1
        /\ UNCHANGED <<host, accounted, totals, tally, super>>
     \/ /\ rts' = [rts EXCEPT ![runtime] = "closed"] /\ runtime' = 0 /\ FailCall(c) /\ FailHost
        /\ UNCHANGED gen
  /\ UNCHANGED <<what, calls, replaced, shown>>
PriorFails(c) == /\ cpc[c] = "prior" /\ KeepPrior(c) /\ UNCHANGED <<what, calls, replaced, shown>>

Started(c) == /\ cpc[c] = "start" /\ rts' = [rts EXCEPT ![runtime] = "running"]
              /\ host' = "running" /\ super' = "running" /\ Done(c)
              /\ replaced' = IF what[c] = "replace" THEN replaced + 1 ELSE replaced
              /\ UNCHANGED <<what, calls, gen, runtime, accounted, totals, tally, shown>>
StartFails(c) == /\ cpc[c] = "start" /\ rts' = [rts EXCEPT ![runtime] = "failed"]
                 /\ FailHost /\ FailCall(c)
                 /\ UNCHANGED <<what, calls, replaced, gen, runtime, shown>>

-----------------------------------------------------------------------------
(* The supervisor's operations take its lock and look at the state.        *)

Request(c, op) == /\ cpc[c] = "idle" /\ calls[c] < MaxCallsEach
                  /\ Goto(c, "queued") /\ what' = [what EXCEPT ![c] = op]
                  /\ calls' = [calls EXCEPT ![c] = @ + 1]
                  /\ UNCHANGED <<super, replaced, hostvars, runvars>>
LockFree == Busy = {}
Enter(c, op) == cpc[c] = "queued" /\ what[c] = op /\ LockFree /\ UNCHANGED <<what, calls, replaced, shown>>
Refuse(c) == Done(c) /\ UNCHANGED <<super, hostvars, rts>>

Present(c) == /\ Enter(c, "present")
              /\ IF super # "ready" THEN Refuse(c) ELSE StartHost(c)
CanReplace == super \notin {"ready", "closed"} /\ replaced < MaxReplacements
Replace(c) == /\ Enter(c, "replace")
              /\ \/ ~CanReplace /\ Refuse(c)
                 \/ CanReplace /\ host = "running" /\ Goto(c, "stop") /\ UNCHANGED <<super, hostvars, rts>>
                 \/ CanReplace /\ host # "running" /\ StartHost(c)
\* wait holds the supervisor's lock for as long as the presentation runs.
Wait(c) == /\ Enter(c, "wait")
           /\ \/ super # "running" /\ Refuse(c)
              \/ super = "running" /\ host = "running" /\ Goto(c, "wait") /\ UNCHANGED <<super, hostvars, rts>>
              \/ super = "running" /\ host # "running" /\ FailCall(c) /\ UNCHANGED <<hostvars, rts>>
\* _sync_state with the host's state when that is a good end.
Synced(c, s) == /\ Done(c)
                /\ super' = IF s \in {"complete", "stopped"} THEN s ELSE "failed"
Stop(c) == /\ Enter(c, "stop")
           /\ \/ super # "running" /\ Refuse(c)
              \/ super = "running" /\ host = "running" /\ Goto(c, "stop") /\ UNCHANGED <<super, hostvars, rts>>
              \/ super = "running" /\ host # "running" /\ Synced(c, host) /\ UNCHANGED <<hostvars, rts>>
\* host.close stops a running generation and releases it.
Close(c) == /\ Enter(c, "close")
            /\ \/ super = "closed" /\ Refuse(c)
               \/ /\ super # "closed" /\ host # "closed" /\ runtime # 0
                  /\ \/ host = "running" /\ Goto(c, "closestop") /\ UNCHANGED <<totals, accounted, tally>>
                     \/ host # "running" /\ Goto(c, "close") /\ AccountCurrent(host, 0)
                  /\ UNCHANGED <<super, host, gen, runtime, rts>>
               \/ /\ super # "closed" /\ (host = "closed" \/ runtime = 0)
                  /\ host' = "closed" /\ super' = "closed" /\ Done(c)
                  /\ UNCHANGED <<gen, runtime, accounted, totals, tally, rts>>

-----------------------------------------------------------------------------
(* What the awaited runtime answers.                                       *)

Waited(c) ==
  /\ cpc[c] = "wait" /\ rts[runtime] # "running" /\ host' = rts[runtime]
  /\ AccountCurrent(host', IF host' = "failed" THEN 1 ELSE 0) /\ Synced(c, host')
  /\ UNCHANGED <<what, calls, replaced, gen, runtime, runvars>>
\* Stopping a runtime that has ended tells how it ended.
Halted(s) == IF s = "running" THEN "stopped" ELSE s
Stopped(c) ==
  /\ cpc[c] = "stop" /\ rts[runtime] \in {"running", "complete", "stopped"}
  /\ rts' = [rts EXCEPT ![runtime] = Halted(@)] /\ host' = Halted(rts[runtime])
  /\ AccountCurrent(host', 0)
  /\ IF what[c] = "stop" THEN Synced(c, host') ELSE Goto(c, "next") /\ UNCHANGED super
  /\ UNCHANGED <<what, calls, replaced, gen, runtime, shown>>
\* After a stop that fails the runtime may be in any state.
StopFails(c) ==
  /\ cpc[c] = "stop" /\ host' = "failed" /\ AccountCurrent("failed", 1) /\ FailCall(c)
  /\ UNCHANGED <<what, calls, replaced, gen, runtime, runvars>>
ReplaceStart(c) == /\ cpc[c] = "next" /\ StartHost(c) /\ UNCHANGED <<what, calls, replaced, shown>>

CloseStopped(c) ==
  /\ cpc[c] = "closestop" /\ rts' = [rts EXCEPT ![runtime] = Halted(@)]
  /\ host' = (IF rts[runtime] = "complete" THEN "complete" ELSE "stopped")
  /\ AccountCurrent(host', 0) /\ Goto(c, "close")
  /\ UNCHANGED <<what, calls, super, replaced, gen, runtime, shown>>
CloseStopFails(c) ==
  /\ cpc[c] = "closestop" /\ host' = "failed" /\ AccountCurrent("failed", 1) /\ FailCall(c)
  /\ UNCHANGED <<what, calls, replaced, gen, runtime, runvars>>
Closed(c) ==
  /\ cpc[c] = "close" /\ rts' = [rts EXCEPT ![runtime] = "closed"] /\ runtime' = 0
  /\ host' = "closed" /\ super' = "closed" /\ Done(c)
  /\ UNCHANGED <<what, calls, replaced, gen, accounted, totals, tally, shown>>
CloseFails(c) ==
  /\ cpc[c] = "close" /\ FailHost /\ FailCall(c)
  /\ UNCHANGED <<what, calls, replaced, gen, runtime, runvars>>

\* The caller is cancelled.  Only a start has to fail the host for it; the
\* supervisor's state stays as it was.
CancelStart(c) == /\ cpc[c] = "start" /\ rts' = [rts EXCEPT ![runtime] = "failed"] /\ FailHost /\ Done(c)
                  /\ UNCHANGED <<what, calls, super, replaced, gen, runtime, shown>>
CancelCall(c) == /\ cpc[c] \in {"queued", "prior", "wait", "stop", "closestop", "close"} /\ Done(c)
                 /\ UNCHANGED <<what, calls, super, replaced, hostvars, runvars>>

SupNext ==
  \/ \E g \in Gens : Deliver(g) \/ Ends(g)
  \/ \E c \in Calls :
       \/ \E op \in Ops : Request(c, op)
       \/ Present(c) \/ Replace(c) \/ Wait(c) \/ Stop(c) \/ Close(c)
       \/ PriorClosed(c) \/ PriorFails(c) \/ Started(c) \/ StartFails(c)
       \/ Waited(c) \/ Stopped(c) \/ StopFails(c) \/ ReplaceStart(c)
       \/ CloseStopped(c) \/ CloseStopFails(c) \/ Closed(c) \/ CloseFails(c)
       \/ CancelStart(c) \/ CancelCall(c)
SupSpec == SupInit /\ [][SupNext]_supvars

-----------------------------------------------------------------------------
(* Properties.                                                             *)

\* Whatever was cancelled, timed out or failed before, the only runtime that can
\* still deliver is the one the host holds, and a closed supervisor has released
\* every generation it ever started.
OneGenerationPresents ==
  /\ \A g \in Gens : rts[g] \notin {"none", "closed"} => g = runtime
  /\ super = "closed" => runtime = 0

\* Between calls a running host has a running supervisor, which is the only one
\* whose stop does anything.
StopReaches == Busy = {} /\ host = "running" => super = "running"

\* The reported frame count never goes down, across replacements, failed stops
\* and closing.
TotalsNeverDrop == Snapshot' >= Snapshot

-----------------------------------------------------------------------------
(* What makes them inductive.                                              *)

SupType ==
  /\ cpc \in [Calls -> {"idle", "queued", "prior", "start", "wait", "stop", "next", "closestop", "close"}]
  /\ super \in {"ready", "running", "complete", "stopped", "failed", "closed"}
  /\ gen \in 0..MaxGenerations /\ runtime \in {0, gen} /\ accounted \in 0..gen /\ totals \in Nat
  /\ rts \in [Gens -> {"none", "ready", "running", "complete", "stopped", "failed", "closed"}]
  /\ shown \in [Gens -> Nat]
\* The call that holds the lock, and what it has done to the host so far.
CallHolds(c) ==
  /\ \A d \in Busy : d = c
  /\ super # "closed"
  /\ cpc[c] \in {"wait", "stop", "closestop"} => host = "running"
  /\ cpc[c] \in {"prior", "start", "next", "close"} => host # "running"
  /\ cpc[c] \in {"prior", "start", "close"} => runtime # 0
  /\ cpc[c] \in {"prior", "close"} => accounted = gen
  /\ cpc[c] = "prior" => gen < MaxGenerations
\* A running host is the supervisor's, a closed one has nothing, and the generations to
\* come have shown nothing.
HostHolds ==
  /\ host = "running" => super = "running" /\ runtime # 0
  /\ super = "closed" <=> host = "closed"
  /\ runtime # 0 => rts[runtime] # "closed"
  /\ \A g \in Gens : g > gen => rts[g] = "none" /\ shown[g] = 0
SupInv == SupType /\ (\A c \in Busy : CallHolds(c)) /\ HostHolds /\ OneGenerationPresents
=============================================================================

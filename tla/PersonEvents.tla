----------------------------- MODULE PersonEvents -----------------------------
(***************************************************************************)
(* Person events from recorded frames: the service's sampling loop, the    *)
(* sampler that notices growing recorder files, the one native worker      *)
(* process that decodes them over a pipe, and the event store.  A frame is *)
(* [cam, file, size]: the newest frame of a recorder file of that size.    *)
(***************************************************************************)
EXTENDS Integers, Sequences, FiniteSets, FiniteSetsExt

CONSTANTS Cams,       \* cameras
          MaxFile,    \* bound: recorder files of a camera
          MaxSize,    \* bound: size of a file
          MaxBytes,   \* bound: growth of all files together
          MaxGen,     \* bound: reconfigurations and new addresses
          MaxProc     \* bound: worker processes started

VARIABLES
  disk,      \* [Cams -> [1..MaxFile -> size]], 0 for no file
  listed,    \* the storage's cached inventory of the same
  source,    \* [Cams -> [rec, uri]]: recording enabled, and the source's address
  conf,      \* [Cams -> [on, gen]]: enabled, and the generation of the settings
  observed,  \* _observations: {} before the cold scan, else {sizes}
  hints,     \* _active_files
  cold,      \* [Cams -> sizes the cold scan saw]
  spc,       \* the service: "idle", "cycle", "waiting" (for the thread), "closing", "closed"
  todo,      \* cameras this cycle has still to sample
  taken,     \* what the sample under way started from: [cam, on, gen, rec, uri]
  tpc,       \* the executor's one thread: "none", "scan", "ask", "asked", "done"
  tcam, want,\* its camera, and the frames it will ask for
  answer,    \* what capture returned: a set of at most one [want, frame]
  proc,      \* worker process: 0 for none, else its number
  alive, expired,
  pipe,      \* answers in the process's stdout: [kind, frame]
  asked,     \* the request the process has read, {} when none
  procs,     \* processes started
  wclosing,  \* the worker's _closing
  rows       \* person_events: [frame, cam, gen, now, cold]

camvars == <<disk, listed, source, conf>>
svcvars == <<spc, todo, taken>>
thrvars == <<tpc, tcam, want, answer, observed, hints, cold>>
procvars == <<proc, alive, expired, pipe, asked, procs, wclosing>>
evvars == <<camvars, svcvars, thrvars, procvars, rows>>

FileIds == 1..MaxFile
NoFiles == [f \in FileIds |-> 0]
Frame(c, f, s) == [cam |-> c, file |-> f, size |-> s]

EvInit ==
  /\ disk = [c \in Cams |-> NoFiles] /\ listed = disk
  /\ source = [c \in Cams |-> [rec |-> TRUE, uri |-> 0]]
  /\ conf = [c \in Cams |-> [on |-> TRUE, gen |-> 0]]
  /\ observed = [c \in Cams |-> {}] /\ hints = [c \in Cams |-> {}] /\ cold = disk
  /\ spc = "idle" /\ todo = {}
  /\ taken = [cam |-> CHOOSE c \in Cams : TRUE, on |-> FALSE, gen |-> 0, rec |-> FALSE, uri |-> 0]
  /\ tpc = "none" /\ tcam = taken.cam /\ want = <<>> /\ answer = {}
  /\ proc = 0 /\ alive = FALSE /\ expired = FALSE /\ pipe = <<>> /\ asked = {} /\ procs = 0
  /\ wclosing = FALSE /\ rows = {}

-----------------------------------------------------------------------------
(* The recorder, its storage, and the administrator.                       *)

Grow(c, f) == /\ source[c].rec /\ disk[c][f] < MaxSize
              /\ MapThenSumSet(LAMBDA d : MapThenSumSet(LAMBDA g : disk[d][g], FileIds), Cams) < MaxBytes
              /\ (f > 1 => disk[c][f - 1] > 0)
              /\ disk' = [disk EXCEPT ![c][f] = @ + 1]
              /\ UNCHANGED <<listed, source, conf, svcvars, thrvars, procvars, rows>>
RefreshInventory(c) == /\ listed[c] # disk[c] /\ listed' = [listed EXCEPT ![c] = disk[c]]
                       /\ UNCHANGED <<disk, source, conf, svcvars, thrvars, procvars, rows>>
\* OperatorEventService.configure.
Edits == Cardinality({c \in Cams : conf[c].gen > 0}) + Cardinality({c \in Cams : source[c].uri > 0})
Configure(c, on) == /\ spc # "closed" /\ conf[c].gen = 0 /\ Edits < MaxGen
                    /\ conf' = [conf EXCEPT ![c] = [on |-> on, gen |-> @.gen + 1]]
                    /\ UNCHANGED <<disk, listed, source, svcvars, thrvars, procvars, rows>>
Readdress(c) == /\ source[c].uri = 0 /\ Edits < MaxGen /\ source' = [source EXCEPT ![c].uri = 1]
                /\ UNCHANGED <<disk, listed, conf, svcvars, thrvars, procvars, rows>>

-----------------------------------------------------------------------------
(* The service's loop.                                                     *)

Cycle == /\ spc = "idle" /\ spc' = "cycle" /\ todo' = Cams
         /\ UNCHANGED <<camvars, taken, thrvars, procvars, rows>>
CycleEnds == /\ spc = "cycle" /\ todo = {} /\ spc' = "idle"
             /\ UNCHANGED <<camvars, todo, taken, thrvars, procvars, rows>>

\* _sample: skipped while disabled, not recording, or while the thread of a
\* timed-out sample still runs.
SampleSkipped(c) == /\ spc = "cycle" /\ c \in todo
                    /\ ~conf[c].on \/ ~source[c].rec \/ tpc \in {"scan", "ask", "asked"}
                    /\ todo' = todo \ {c}
                    /\ UNCHANGED <<camvars, spc, taken, thrvars, procvars, rows>>
SampleStarts(c) ==
  /\ spc = "cycle" /\ c \in todo /\ conf[c].on /\ source[c].rec /\ tpc \in {"none", "done"}
  /\ todo' = todo \ {c} /\ spc' = "waiting"
  /\ taken' = [cam |-> c, on |-> TRUE, gen |-> conf[c].gen, rec |-> TRUE, uri |-> source[c].uri]
  /\ tpc' = "scan" /\ tcam' = c /\ want' = <<>> /\ answer' = {}
  /\ UNCHANGED <<camvars, observed, hints, cold, procvars, rows>>

\* The settings, the generation and the source are what the sample began with.
StillCurrent == LET c == taken.cam IN
  conf[c] = [on |-> taken.on, gen |-> taken.gen] /\ source[c] = [rec |-> taken.rec, uri |-> taken.uri]

\* The thread returned: record the event; store.record itself refuses a
\* disabled camera and a frame already recorded.
SampleRecorded ==
  /\ spc = "waiting" /\ tpc = "done" /\ spc' = "cycle" /\ tpc' = "none" /\ answer' = {}
  /\ rows' = rows \cup
       {[frame |-> a.frame, cam |-> taken.cam, gen |-> taken.gen, now |-> conf[taken.cam].gen,
         uri |-> taken.uri, live |-> source[taken.cam].uri] :
          a \in {x \in answer : StillCurrent /\ conf[taken.cam].on
                                /\ \A r \in rows : r.frame # x.frame}}
  /\ UNCHANGED <<camvars, todo, taken, tcam, want, observed, hints, cold, procvars>>
\* wait_for(shield(...)): the thread goes on, its answer is not used.
SampleTimesOut == /\ spc = "waiting" /\ tpc # "done" /\ spc' = "cycle"
                  /\ UNCHANGED <<camvars, todo, taken, thrvars, procvars, rows>>

-----------------------------------------------------------------------------
(* RecordedFrameSampler.capture, in the thread.                            *)

\* What the inventory and the files of interest show.
Noticed(c, old) ==
  LET inv == [f \in FileIds |-> IF listed[c][f] = 0 THEN 0
                                ELSE IF old[f] > listed[c][f] THEN old[f] ELSE listed[c][f]]
      candidates == {f \in FileIds : inv[f] # old[f]} \cup hints[c]
  IN [f \in FileIds |-> IF f \in candidates THEN disk[c][f] ELSE inv[f]]

\* New files first, then larger ones.
Ordered(fs, old, new) ==
  LET Before(f, g) == IF (old[f] = 0) # (old[g] = 0) THEN old[f] = 0 ELSE new[f] >= new[g]
  IN {s \in [1..Cardinality(fs) -> fs] :
        /\ {s[i] : i \in 1..Cardinality(fs)} = fs
        /\ \A i, j \in 1..Cardinality(fs) : i < j => Before(s[i], s[j])}

ColdAsGrowth(c) == FALSE
\* The first scan of a camera establishes identities only.
Cold(c) == observed[c] = {}
Scan ==
  /\ tpc = "scan"
  /\ IF Cold(tcam)
     THEN /\ observed' = [observed EXCEPT ![tcam] = {listed[tcam]}]
          /\ hints' = [hints EXCEPT ![tcam] = {f \in FileIds : listed[tcam][f] > 0}]
          /\ tpc' = "done" /\ UNCHANGED want
     ELSE LET old == IF observed[tcam] = {} THEN NoFiles ELSE CHOOSE o \in observed[tcam] : TRUE
              new == Noticed(tcam, old)
              changed == {f \in FileIds : new[f] # old[f] /\ new[f] > 0}
          IN /\ observed' = [observed EXCEPT ![tcam] = {new}]
             /\ IF changed = {} THEN tpc' = "done" /\ UNCHANGED <<want, hints>>
                ELSE /\ hints' = [hints EXCEPT ![tcam] = changed]
                     /\ \E s \in Ordered(changed, old, new) :
                          want' = [i \in DOMAIN s |-> Frame(tcam, s[i], new[s[i]])]
                     /\ tpc' = "ask"
  /\ cold' = IF observed[tcam] = {} THEN [cold EXCEPT ![tcam] = listed[tcam]] ELSE cold
  /\ UNCHANGED <<camvars, svcvars, tcam, answer, procvars, rows>>

-----------------------------------------------------------------------------
(* _RecordedNativeWorker.request, in the thread, and the process.          *)

NoProcess == proc' = 0 /\ alive' = FALSE /\ pipe' = <<>> /\ asked' = {} /\ expired' = FALSE

\* A closing worker starts no process.
Refused == wclosing
\* A running process is used again, a dead one replaced.
Ask == /\ tpc = "ask" /\ ~Refused
       /\ IF alive THEN UNCHANGED <<proc, alive, pipe, procs>> /\ asked' = {want[1]}
          ELSE /\ procs < MaxProc /\ proc' = procs + 1 /\ procs' = procs + 1 /\ alive' = TRUE
               /\ pipe' = <<>> /\ asked' = {want[1]}
       /\ expired' = FALSE /\ tpc' = "asked"
       /\ UNCHANGED <<camvars, svcvars, tcam, want, answer, observed, hints, cold, wclosing, rows>>
\* Refused, or the process cannot be started: capture raises.
AskFails == /\ tpc = "ask" /\ (Refused \/ ~alive) /\ tpc' = "done"
            /\ UNCHANGED <<camvars, svcvars, tcam, want, answer, observed, hints, cold, procvars,
                           rows>>

\* The process answers: a frame, "empty", or a malformed header before it.
ProcAnswers == /\ alive /\ asked # {} /\ asked' = {}
               /\ \E f \in asked, k \in {"frame", "empty", "bad"} :
                    pipe' = pipe \o (IF k = "bad" THEN <<[kind |-> "bad", frame |-> f], [kind |-> "frame", frame |-> f]>>
                                     ELSE <<[kind |-> k, frame |-> f]>>)
               /\ UNCHANGED <<camvars, svcvars, thrvars, proc, alive, expired, procs, wclosing, rows>>
ProcDies == /\ alive /\ alive' = FALSE
            /\ UNCHANGED <<camvars, svcvars, thrvars, proc, expired, pipe, asked, procs, wclosing, rows>>
\* The deadline timer kills the process of the request under way.
Deadline == /\ tpc = "asked" /\ ~expired /\ expired' = TRUE /\ alive' = FALSE
            /\ UNCHANGED <<camvars, svcvars, thrvars, proc, pipe, asked, procs, wclosing, rows>>

KeepProcess == UNCHANGED <<proc, alive, asked, expired>> /\ pipe' = Tail(pipe)
\* A request that failed or expired closes its process and its pipe.
CloseFailed == NoProcess

\* The answer is read; a frame ends the scan, "empty" goes on to the next file.
ReadFrame == /\ tpc = "asked" /\ pipe # <<>> /\ Head(pipe).kind \in {"frame", "empty"}
             /\ IF expired THEN NoProcess ELSE KeepProcess
             /\ IF Head(pipe).kind = "frame"
                THEN answer' = {[want |-> want[1], frame |-> Head(pipe).frame]} /\ tpc' = "done"
                     /\ UNCHANGED want
                ELSE /\ want' = Tail(want) /\ UNCHANGED answer
                     /\ tpc' = IF Len(want) > 1 THEN "ask" ELSE "done"
             /\ UNCHANGED <<camvars, svcvars, tcam, observed, hints, cold, procs, wclosing, rows>>
ReadFails == /\ tpc = "asked"
             /\ \/ pipe # <<>> /\ Head(pipe).kind = "bad" /\ CloseFailed
                \/ pipe = <<>> /\ ~alive /\ NoProcess
             /\ tpc' = "done"
             /\ UNCHANGED <<camvars, svcvars, tcam, want, answer, observed, hints, cold, procs,
                            wclosing, rows>>

-----------------------------------------------------------------------------
(* aclose.                                                                 *)

\* _closing, begin_close of the sampler and the worker, the task is cancelled.
CloseBegins == /\ spc \in {"idle", "cycle", "waiting"} /\ spc' = "closing" /\ todo' = {}
               /\ wclosing' = TRUE /\ alive' = FALSE
               /\ UNCHANGED <<camvars, taken, thrvars, proc, expired, pipe, asked, procs, rows>>
\* The thread is awaited for ten seconds; then the worker is closed under the
\* lock its request holds, and the store.
CloseEnds == /\ spc = "closing" /\ tpc # "asked" /\ spc' = "closed" /\ NoProcess
             /\ UNCHANGED <<camvars, todo, taken, thrvars, procs, wclosing, rows>>

EvNext == \/ \E c \in Cams, f \in FileIds : Grow(c, f)
          \/ \E c \in Cams : RefreshInventory(c) \/ Readdress(c) \/ SampleSkipped(c) \/ SampleStarts(c)
          \/ \E c \in Cams, on \in BOOLEAN : Configure(c, on)
          \/ Cycle \/ CycleEnds \/ SampleRecorded \/ SampleTimesOut \/ Scan
          \/ Ask \/ AskFails \/ ProcAnswers \/ ProcDies \/ Deadline \/ ReadFrame \/ ReadFails
          \/ CloseBegins \/ CloseEnds
EvSpec == EvInit /\ [][EvNext]_evvars

-----------------------------------------------------------------------------
(* Properties.                                                             *)

\* The frame a request returns is the frame it asked for, whatever failed or
\* expired before on the same pipe, so an event is of the camera it names.
AnswersMatch == /\ \A a \in answer : a.frame = a.want
                /\ \A r \in rows : r.frame.cam = r.cam

\* An event is stored only under the settings and for the source its sample
\* began with, although both may change while the frame is decoded.
EventsCurrent == \A r \in rows : r.gen = r.now /\ r.uri = r.live

\* Footage that was already there when a camera was first scanned raises no
\* event; only bytes recorded after it do.
EventsFromGrowth == \A r \in rows : r.frame.size > cold[r.cam][r.frame.file]

\* Once the service has closed no worker process runs, although a thread of a
\* sample it gave up on may still be going.
ClosedForGood == spc = "closed" => ~alive

-----------------------------------------------------------------------------
(* What makes them inductive.                                              *)

Sizes == [FileIds -> Nat]
Frames == [cam : Cams, file : FileIds, size : Nat]
EvType ==
  /\ disk \in [Cams -> Sizes] /\ listed \in [Cams -> Sizes] /\ cold \in [Cams -> Sizes]
  /\ source \in [Cams -> [rec : BOOLEAN, uri : Nat]] /\ conf \in [Cams -> [on : BOOLEAN, gen : Nat]]
  /\ observed \in [Cams -> SUBSET Sizes]
  /\ tcam \in Cams /\ tcam = taken.cam /\ want \in Seq(Frames)
  /\ answer \subseteq [want : Frames, frame : Frames]
  /\ \A r \in rows : r.frame \in Frames /\ r.cam \in Cams
  /\ alive \in BOOLEAN /\ wclosing \in BOOLEAN
\* The sampler has seen at most what is on the disk and at least what the cold scan saw.
Below(a, b) == \A f \in FileIds : a[f] <= b[f]
SizesOrdered ==
  \A c \in Cams :
    /\ Below(listed[c], disk[c])
    /\ \A o \in observed[c] : observed[c] = {o} /\ Below(cold[c], o) /\ Below(o, disk[c])
\* Whatever was, is or will be asked for is of the sampled camera and newer than its cold scan.
Growth(f) == observed[f.cam] # {} /\ f.size > cold[f.cam][f.file]
WantsGrowth ==
  /\ \A i \in DOMAIN want : want[i].cam = tcam /\ Growth(want[i])
  /\ \A a \in answer : a.want.cam = tcam /\ Growth(a.want)
  /\ \A r \in rows : Growth(r.frame)
  /\ tpc \in {"ask", "asked"} => want # <<>>
\* The pipe is empty between requests; during one it holds nothing but its answer.
PipeFollows ==
  IF tpc # "asked" THEN pipe = <<>> /\ asked = {}
  ELSE \/ pipe = <<>> /\ asked \subseteq {want[1]}
       \/ asked = {} /\ \E k \in {"frame", "empty"} : pipe = <<[kind |-> k, frame |-> want[1]]>>
       \/ asked = {} /\ pipe = <<[kind |-> "bad", frame |-> want[1]], [kind |-> "frame", frame |-> want[1]]>>
Closing == spc \in {"closing", "closed"} => wclosing /\ ~alive
EvInv ==
  /\ EvType /\ SizesOrdered /\ WantsGrowth /\ PipeFollows /\ Closing
  /\ AnswersMatch /\ EventsCurrent
=============================================================================

----------------------------- MODULE MediaProvider ----------------------------
(***************************************************************************)
(* MediaMTXProvider: bounded reads of the private media worker.  A read    *)
(* runs in a thread that neither a timeout nor a cancellation stops; its   *)
(* slot is kept until the thread is done.  Callers of one selection share  *)
(* the snapshot that is being taken, and aclose joins every thread.        *)
(* What the worker answers, and how late, is not ours.                     *)
(***************************************************************************)
EXTENDS Integers, FiniteSets

CONSTANTS Readers, Selections,   \* callers, and what path_snapshot is asked for
          Closers,               \* callers of aclose
          MaxActive,             \* max_active_requests
          MaxThreads, MaxTasks   \* bounds: threads and snapshot tasks ever started

VARIABLES
  closed, admitted,  \* _closed, _version_admitted
  reads,             \* _requests: the threads with a slot
  thr,               \* thread -> "none", "running", "returned"
  snaps,             \* _snapshots: selection -> task, 0 for none
  task,              \* task -> "none", "new", "info", "states", "configs", "done", "completed"
  good,              \* task -> whether it has a snapshot to give
  sel,               \* task -> its selection
  on,                \* caller or task -> thread it waits for, 0 for none
  rpc, goal,         \* reader -> "idle", "info", "data", "shared"; what it was called for
  shares, over,      \* reader -> task shared; history: tasks over when it asked
  stale,             \* history: a caller was given what was over when it asked
  closing, joining,  \* _close_task: "none", "snapshots", "requests", "done"; threads it joins
  cpc                \* closer -> "idle", "waits", "interrupted", "returned", "raised"

Threads == 1..MaxThreads
Tasks == 1..MaxTasks
Actors == (Readers \X {"reader"}) \cup (Tasks \X {"task"})
R(r) == <<r, "reader">>
T(n) == <<n, "task">>
snapvars == <<snaps, task, good, sel>>
closevars == <<closing, joining, cpc>>
readervars == <<rpc, goal, shares, over, stale>>
provvars == <<closed, admitted, reads, thr, on, snapvars, readervars, closevars>>

ProvInit ==
  /\ closed = FALSE /\ admitted = FALSE /\ reads = {} /\ thr = [t \in Threads |-> "none"]
  /\ snaps = [s \in Selections |-> 0] /\ task = [n \in Tasks |-> "none"]
  /\ good = [n \in Tasks |-> FALSE] /\ sel = [n \in Tasks |-> 0]
  /\ on = [a \in Actors |-> 0]
  /\ rpc = [r \in Readers |-> "idle"] /\ goal = [r \in Readers |-> "none"]
  /\ shares = [r \in Readers |-> 0] /\ over = [r \in Readers |-> {}] /\ stale = FALSE
  /\ closing = "none" /\ joining = {} /\ cpc = [k \in Closers |-> "idle"]

-----------------------------------------------------------------------------
(* _get, up to its wait; and the thread.                                   *)

Fresh == {t \in Threads : thr[t] = "none"}
Admits == ~closed /\ Cardinality(reads) < MaxActive
Starts(t, a) == thr' = [thr EXCEPT ![t] = "running"] /\ reads' = reads \cup {t} /\ on' = [on EXCEPT ![a] = t]
Launched(a) == \E t \in Fresh : (\A u \in Fresh : t <= u) /\ Starts(t, a)
NotLaunched(a) == on' = [on EXCEPT ![a] = 0] /\ UNCHANGED <<thr, reads>>
\* _read returns whatever the worker does, sooner or later.
ThreadReturns(t) == /\ thr[t] = "running" /\ thr' = [thr EXCEPT ![t] = "returned"]
                    /\ UNCHANGED <<closed, admitted, reads, on, snapvars, readervars, closevars>>
\* _completed, when the loop learns of it.
Completed(t) == /\ thr[t] = "returned" /\ t \in reads /\ reads' = reads \ {t}
                /\ UNCHANGED <<closed, admitted, thr, on, snapvars, readervars, closevars>>

\* _completed was registered first, so the slot is free before the wait ends.
Arrived(a) == on[a] # 0 /\ on[a] \notin reads
\* What a wait may come to; a timeout leaves the thread alone.
KeepsSlot(a) == reads

-----------------------------------------------------------------------------
(* info, _admit and the reads of one path.                                 *)

Idle(r) == rpc' = [rpc EXCEPT ![r] = "idle"] /\ goal' = [goal EXCEPT ![r] = "none"]
Waits(r, where, g) == rpc' = [rpc EXCEPT ![r] = where] /\ goal' = [goal EXCEPT ![r] = g]
Call(r, g) ==
  LET needsInfo == g = "info" \/ ~admitted
  IN /\ rpc[r] = "idle"
     /\ IF g = "read" /\ closed THEN NotLaunched(R(r)) /\ Idle(r) /\ UNCHANGED admitted
        ELSE /\ admitted' = (admitted /\ ~needsInfo)
             /\ IF Admits THEN Launched(R(r)) /\ Waits(r, IF needsInfo THEN "info" ELSE "data", g)
                ELSE NotLaunched(R(r)) /\ Idle(r)
     /\ UNCHANGED <<closed, snapvars, shares, over, stale, closevars>>
\* The wait ends: the worker's version is the fixed one, the answer is valid, or neither.
Answered(r) ==
  /\ rpc[r] \in {"info", "data"} /\ Arrived(R(r))
  /\ \E ok \in BOOLEAN :
       /\ admitted' = IF rpc[r] = "info" /\ ok /\ ~closed THEN TRUE ELSE admitted
       /\ IF rpc[r] = "info" /\ goal[r] = "read" /\ ok /\ Admits
          THEN Launched(R(r)) /\ Waits(r, "data", "read")
          ELSE NotLaunched(R(r)) /\ Idle(r)
  /\ UNCHANGED <<closed, snapvars, shares, over, stale, closevars>>
\* TimeoutError, or the caller is cancelled.
GivesUp(r) == /\ rpc[r] \in {"info", "data"} /\ Idle(r)
              /\ reads' = KeepsSlot(R(r)) /\ on' = [on EXCEPT ![R(r)] = 0]
              /\ UNCHANGED <<closed, admitted, thr, snapvars, shares, over, stale, closevars>>

-----------------------------------------------------------------------------
(* path_snapshot and its tasks.                                            *)

Over(s) == {n \in Tasks : sel[n] = s /\ task[n] = "completed"}
NewTasks == {n \in Tasks : task[n] = "none"}
InFlight == {s \in Selections : snaps[s] # 0}
Snapshot(r, s) ==
  /\ rpc[r] = "idle" /\ ~closed
  /\ \/ /\ snaps[s] # 0 /\ shares' = [shares EXCEPT ![r] = snaps[s]] /\ UNCHANGED snapvars
     \/ /\ snaps[s] = 0 /\ Cardinality(InFlight) < MaxActive
        /\ \E n \in NewTasks : /\ \A m \in NewTasks : n <= m
                               /\ task' = [task EXCEPT ![n] = "new"] /\ sel' = [sel EXCEPT ![n] = s]
                               /\ snaps' = [snaps EXCEPT ![s] = n] /\ shares' = [shares EXCEPT ![r] = n]
        /\ UNCHANGED good
  /\ rpc' = [rpc EXCEPT ![r] = "shared"] /\ goal' = [goal EXCEPT ![r] = "snapshot"]
  /\ over' = [over EXCEPT ![r] = Over(s)]
  /\ UNCHANGED <<closed, admitted, reads, thr, on, stale, closevars>>
\* The task's wait ends, or it begins: the next of its requests, if there is one.
TaskMoves(n, to) == task' = [task EXCEPT ![n] = to]
TaskGets(n, where) == IF Admits THEN Launched(T(n)) /\ TaskMoves(n, where) /\ UNCHANGED good
                      ELSE NotLaunched(T(n)) /\ TaskMoves(n, "done") /\ UNCHANGED good
TaskFails(n) == NotLaunched(T(n)) /\ TaskMoves(n, "done") /\ UNCHANGED good
TaskStarts(n) == /\ task[n] = "new" /\ TaskGets(n, IF admitted THEN "states" ELSE "info")
                 /\ UNCHANGED <<closed, admitted, snaps, sel, readervars, closevars>>
TaskAnswered(n) ==
  /\ task[n] \in {"info", "states", "configs"} /\ Arrived(T(n))
  /\ \/ TaskFails(n) /\ UNCHANGED admitted
     \/ /\ ~closed /\ admitted' = (admitted \/ task[n] = "info")
        /\ \/ task[n] = "info" /\ TaskGets(n, "states")
           \/ task[n] = "states" /\ TaskGets(n, "configs")
           \/ task[n] = "configs" /\ NotLaunched(T(n)) /\ TaskMoves(n, "done") /\ good' = [good EXCEPT ![n] = TRUE]
  /\ UNCHANGED <<closed, snaps, sel, readervars, closevars>>
TaskTimesOut(n) == /\ task[n] \in {"info", "states", "configs"} /\ TaskMoves(n, "done")
                   /\ reads' = KeepsSlot(T(n)) /\ on' = [on EXCEPT ![T(n)] = 0]
                   /\ UNCHANGED <<closed, admitted, thr, snaps, good, sel, readervars, closevars>>
\* _snapshot_completed.
Forgotten(n) == [snaps EXCEPT ![sel[n]] = IF @ = n THEN 0 ELSE @]
SnapshotCompleted(n) == /\ task[n] = "done" /\ TaskMoves(n, "completed") /\ snaps' = Forgotten(n)
                        /\ UNCHANGED <<closed, admitted, reads, thr, on, good, sel, readervars, closevars>>
\* The reader has the task's snapshot, its error or its cancellation.
Shared(r) == /\ rpc[r] = "shared" /\ task[shares[r]] \in {"done", "completed"} /\ Idle(r)
             /\ stale' = (stale \/ (good[shares[r]] /\ shares[r] \in over[r]))
             /\ shares' = [shares EXCEPT ![r] = 0] /\ over' = [over EXCEPT ![r] = {}]
             /\ UNCHANGED <<closed, admitted, reads, thr, on, snapvars, closevars>>
\* A cancelled reader leaves the shielded task to the others.
LeavesShared(r) == /\ rpc[r] = "shared" /\ Idle(r)
                   /\ shares' = [shares EXCEPT ![r] = 0] /\ over' = [over EXCEPT ![r] = {}]
                   /\ UNCHANGED <<closed, admitted, reads, thr, on, stale, snapvars, closevars>>

-----------------------------------------------------------------------------
(* aclose and _close_requests.                                             *)

Close(k) == /\ cpc[k] = "idle" /\ closed' = TRUE /\ admitted' = FALSE
            /\ cpc' = [cpc EXCEPT ![k] = "waits"]
            /\ closing' = IF closing = "none" THEN "snapshots" ELSE closing
            /\ UNCHANGED <<reads, thr, on, snapvars, readervars, joining>>
\* A snapshot task is cancelled where it waits; its thread is not.
CancelTask(n) == /\ closing = "snapshots" /\ task[n] \in {"new", "info", "states", "configs"}
                 /\ TaskMoves(n, "done") /\ on' = [on EXCEPT ![T(n)] = 0]
                 /\ UNCHANGED <<closed, admitted, reads, thr, snaps, good, sel, readervars, closevars>>
TasksOver == \A n \in Tasks : task[n] \in {"none", "done", "completed"}
JoinsReads == /\ closing = "snapshots" /\ TasksOver /\ closing' = "requests" /\ joining' = reads
              /\ UNCHANGED <<closed, admitted, reads, thr, on, snapvars, readervars, cpc>>
Joined == /\ closing = "requests" /\ \A t \in joining : thr[t] = "returned"
          /\ closing' = "done" /\ joining' = {}
          /\ UNCHANGED <<closed, admitted, reads, thr, on, snapvars, readervars, cpc>>
\* A cancelled aclose goes on waiting, and raises in the end.
WaitsOn(k) == [cpc EXCEPT ![k] = "interrupted"]
Interrupt(k) == /\ cpc[k] = "waits" /\ closing # "done" /\ cpc' = WaitsOn(k)
                /\ UNCHANGED <<closed, admitted, reads, thr, on, snapvars, readervars, closing, joining>>
CloseReturns(k) == /\ cpc[k] \in {"waits", "interrupted"} /\ closing = "done"
                   /\ cpc' = [cpc EXCEPT ![k] = IF @ = "waits" THEN "returned" ELSE "raised"]
                   /\ UNCHANGED <<closed, admitted, reads, thr, on, snapvars, readervars, closing, joining>>

ProvNext ==
  \/ \E t \in Threads : ThreadReturns(t) \/ Completed(t)
  \/ \E r \in Readers : \/ \E g \in {"info", "read"} : Call(r, g)
                        \/ Answered(r) \/ GivesUp(r) \/ Shared(r) \/ LeavesShared(r)
                        \/ \E s \in Selections : Snapshot(r, s)
  \/ \E n \in Tasks : TaskStarts(n) \/ TaskAnswered(n) \/ TaskTimesOut(n) \/ SnapshotCompleted(n) \/ CancelTask(n)
  \/ \E k \in Closers : Close(k) \/ Interrupt(k) \/ CloseReturns(k)
  \/ JoinsReads \/ Joined
ProvSpec == ProvInit /\ [][ProvNext]_provvars

-----------------------------------------------------------------------------
(* Properties.                                                             *)

Running == {t \in Threads : thr[t] = "running"}
\* However many callers time out or are cancelled, no more threads read from the
\* worker than there are slots, and once aclose has ended, normally or not, no
\* thread reads any more, and the worker is not admitted again.
SlotsHeld == Running \subseteq reads /\ Cardinality(reads) <= MaxActive
ReadsOwned == /\ SlotsHeld
              /\ \A k \in Closers : cpc[k] \in {"returned", "raised"} => Running = {} /\ ~admitted

\* Callers share a snapshot only while it is being taken: nobody is given one
\* that was over before it asked.
SnapshotsFresh == ~stale

-----------------------------------------------------------------------------
(* What makes them inductive.                                              *)

ReadType == /\ reads \subseteq Threads /\ thr \in [Threads -> {"none", "running", "returned"}]
            /\ on \in [Actors -> Threads \cup {0}]
ProvType ==
  /\ closed \in BOOLEAN /\ admitted \in BOOLEAN /\ ReadType
  /\ snaps \in [Selections -> Tasks \cup {0}]
  /\ task \in [Tasks -> {"none", "new", "info", "states", "configs", "done", "completed"}]
  /\ good \in [Tasks -> BOOLEAN] /\ sel \in [Tasks -> Selections \cup {0}]
  /\ rpc \in [Readers -> {"idle", "info", "data", "shared"}]
  /\ shares \in [Readers -> Tasks \cup {0}] /\ over \in [Readers -> SUBSET Tasks]
  /\ closing \in {"none", "snapshots", "requests", "done"}
  /\ cpc \in [Closers -> {"idle", "waits", "interrupted", "returned", "raised"}]
\* While the join runs it holds every running thread, and none starts any more.
JoinHolds ==
  /\ closing = "requests" => Running \subseteq joining
  /\ closing = "done" => Running = {}
  /\ closed => ~admitted
  /\ closing # "none" => closed
  /\ \A k \in Closers : cpc[k] \in {"returned", "raised"} => closing = "done"
\* What is shared is being taken; what a reader waits for was not over when it asked.
SharesLive ==
  /\ \A s \in Selections : snaps[s] # 0 =>
       sel[snaps[s]] = s /\ task[snaps[s]] \notin {"none", "completed"}
  /\ \A n \in Tasks : task[n] # "none" => sel[n] \in Selections
  /\ \A r \in Readers : rpc[r] = "shared" => shares[r] \in Tasks /\ shares[r] \notin over[r]
  /\ \A r \in Readers : \A n \in over[r] : task[n] = "completed"
ProvInv == ProvType /\ ReadsOwned /\ JoinHolds /\ SharesLive /\ SnapshotsFresh
=============================================================================

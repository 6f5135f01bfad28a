----------------------------- MODULE NativeProcess ----------------------------
(***************************************************************************)
(* OwnedNativeProcess: one native service and its process tree.  On        *)
(* Windows a relay waits for a gate that opens once it is in a             *)
(* kill-on-close job; on Linux the service leads its own process group.    *)
(* The owning program may die at any moment, a killed process may take     *)
(* long to die, and the number of a reaped process is used again.          *)
(***************************************************************************)
EXTENDS Integers

CONSTANT Stoppers     \* threads that call stop

VARIABLES
  win,       \* _WINDOWS
  made,      \* __init__: "job", "spawn", "assign", "gate", "abort", "ready", "failed"
  owner,     \* the program that holds the object is alive
  job,       \* "none", "open", "closed"
  leader,    \* the relay, or the service itself: "none", "alive", "zombie", "reaped"
  inJob,     \* AssignProcessToJobObject was done
  gate,      \* the relay's stdin: "shut", "open", "eof"
  doomed,    \* it was killed and has yet to die
  child,     \* what the leader started: "none", "alive", "dead"
  number,    \* whose the leader's process number is: "ours", "free", "foreign"
  seenExit,  \* poll has reported an exit
  spc,       \* stopper -> "idle", "grace", "kill", "wait", "returned", "raised"
  stopLock,  \* _stop_lock: its holder, 0 for none
  stopped,   \* _stopped
  foreignHit \* history: another program's process group was signalled

tree == <<leader, inJob, gate, doomed, child, number>>
natvars == <<win, made, owner, job, tree, seenExit, spc, stopLock, stopped, foreignHit>>

NatInit ==
  /\ win \in BOOLEAN /\ made = (IF win THEN "job" ELSE "spawn") /\ owner = TRUE /\ job = "none"
  /\ leader = "none" /\ inJob = FALSE /\ gate = "shut" /\ doomed = FALSE /\ child = "none" /\ number = "free"
  /\ seenExit = FALSE /\ spc = [s \in Stoppers |-> "idle"] /\ stopLock = 0 /\ stopped = FALSE /\ foreignHit = FALSE

-----------------------------------------------------------------------------
(* The construction; a failing step on Windows aborts it.                  *)

Aborts == made' = "abort" /\ UNCHANGED <<job, tree>>
CreateJob == /\ owner /\ made = "job"
             /\ \/ job' = "open" /\ made' = "spawn"
                \/ made' = "failed" /\ UNCHANGED job
             /\ UNCHANGED <<win, owner, tree, seenExit, spc, stopLock, stopped, foreignHit>>
Spawn == /\ owner /\ made = "spawn"
         /\ \/ /\ leader' = "alive" /\ number' = "ours" /\ made' = (IF win THEN "assign" ELSE "ready")
               /\ UNCHANGED <<job, inJob, gate, doomed, child>>
            \/ Aborts
         /\ UNCHANGED <<win, owner, seenExit, spc, stopLock, stopped, foreignHit>>
Assign == /\ owner /\ made = "assign"
          /\ \/ inJob' = (leader = "alive") /\ made' = "gate" /\ UNCHANGED <<job, leader, gate, doomed, child, number>>
             \/ Aborts
          /\ UNCHANGED <<win, owner, seenExit, spc, stopLock, stopped, foreignHit>>
OpenGate == /\ owner /\ made = "gate"
            /\ \/ gate' = "open" /\ made' \in {"ready", "abort"} /\ UNCHANGED <<job, leader, inJob, doomed, child, number>>
               \/ Aborts
            /\ UNCHANGED <<win, owner, seenExit, spc, stopLock, stopped, foreignHit>>
\* What closing the job's last handle does to the processes in it.
KilledWithJob == IF inJob THEN /\ child' = IF child = "alive" THEN "dead" ELSE child
                               /\ doomed' = (doomed \/ leader = "alive")
                 ELSE UNCHANGED <<child, doomed>>
\* _abort_start: end of input, kill, a bounded wait, and the job is closed.
AbortStart == /\ owner /\ made = "abort" /\ made' = "failed" /\ gate' = (IF gate = "shut" THEN "eof" ELSE gate)
              /\ job' = (IF job = "open" THEN "closed" ELSE job)
              /\ doomed' = (doomed \/ leader = "alive")
              /\ child' = IF inJob /\ child = "alive" THEN "dead" ELSE child
              /\ leader' = (IF leader = "zombie" THEN "reaped" ELSE leader)
              /\ number' = (IF leader = "zombie" THEN "free" ELSE number)
              /\ UNCHANGED <<win, owner, inJob, seenExit, spc, stopLock, stopped, foreignHit>>

-----------------------------------------------------------------------------
(* The processes.                                                          *)

GateOpened == leader = "alive" /\ gate = "open"
\* _relay starts the service; a service on Linux may start a helper.
StartsChild == /\ child = "none" /\ ~doomed /\ (IF win THEN GateOpened ELSE leader = "alive") /\ child' = "alive"
               /\ UNCHANGED <<win, made, owner, job, leader, inJob, gate, doomed, number, seenExit, spc, stopLock,
                              stopped, foreignHit>>
ChildExits == /\ child = "alive" /\ child' = "dead"
              /\ UNCHANGED <<win, made, owner, job, leader, inJob, gate, doomed, number, seenExit, spc, stopLock,
                             stopped, foreignHit>>
\* The relay ends with the service or without a gate, a service when it likes.
LeaderExits == /\ leader = "alive" /\ (doomed \/ ~win \/ child = "dead" \/ gate = "eof") /\ leader' = "zombie"
               /\ UNCHANGED <<win, made, owner, job, inJob, gate, doomed, child, number, seenExit, spc, stopLock,
                              stopped, foreignHit>>
NumberReused == /\ number = "free" /\ leader = "reaped" /\ number' = "foreign"
                /\ UNCHANGED <<win, made, owner, job, leader, inJob, gate, doomed, child, seenExit, spc, stopLock,
                               stopped, foreignHit>>
\* The owner dies: its handles close, and nothing more of this object runs.
OwnerDies == /\ owner /\ owner' = FALSE /\ job' = (IF job = "open" THEN "closed" ELSE job)
             /\ (IF win THEN KilledWithJob ELSE UNCHANGED <<child, doomed>>)
             /\ gate' = (IF gate = "shut" THEN "eof" ELSE gate)
             /\ UNCHANGED <<win, made, leader, inJob, number, seenExit, spc, stopLock, stopped, foreignHit>>

-----------------------------------------------------------------------------
(* poll and stop.                                                          *)

ReapsAtPoll == leader' = "reaped" /\ number' = "free"
\* WNOWAIT: the exit is seen and the number stays reserved.
KeepsNumber == UNCHANGED <<leader, number>>
Poll == /\ owner /\ made = "ready" /\ leader = "zombie" /\ ~seenExit /\ seenExit' = TRUE
        /\ (IF win THEN UNCHANGED <<leader, number>> ELSE KeepsNumber)
        /\ UNCHANGED <<win, made, owner, job, inJob, gate, doomed, child, spc, stopLock, stopped, foreignHit>>

Goto(s, to) == spc' = [spc EXCEPT ![s] = to]
Raise(s) == Goto(s, "raised") /\ stopLock' = 0
\* killpg: what has the leader's number, or nothing.
Signal == foreignHit' = (foreignHit \/ number = "foreign")
Ready(s) == owner /\ made = "ready" /\ spc[s] = "idle" /\ stopLock = 0
StopBegins(s) ==
  /\ Ready(s)
  /\ IF stopped THEN Goto(s, "returned") /\ UNCHANGED <<stopLock, foreignHit>>
     ELSE /\ stopLock' = s /\ Goto(s, "grace")
          /\ (IF win THEN UNCHANGED foreignHit ELSE Signal)
  /\ UNCHANGED <<win, made, owner, job, tree, seenExit, stopped>>
\* The grace is over, or the leader has ended.
StopKills(s) == /\ owner /\ spc[s] = "grace" /\ Goto(s, "wait")
                /\ IF win THEN /\ job = "open" /\ job' = "closed" /\ KilledWithJob /\ UNCHANGED foreignHit
                   ELSE /\ Signal
                        /\ child' = (IF child = "alive" /\ number = "ours" THEN "dead" ELSE child)
                        /\ doomed' = (doomed \/ leader = "alive") /\ UNCHANGED job
                /\ UNCHANGED <<win, made, owner, leader, inJob, gate, number, seenExit, stopLock, stopped>>
\* CloseHandle fails, or a second stop finds no job: nothing was stopped.
StopRefused(s) == /\ owner /\ spc[s] = "grace" /\ win /\ Raise(s)
                  /\ UNCHANGED <<win, made, owner, job, tree, seenExit, stopped, foreignHit>>
StopReaps(s) == /\ owner /\ spc[s] = "wait"
                /\ \/ /\ leader \in {"zombie", "reaped"} /\ leader' = "reaped"
                      /\ number' = (IF leader = "zombie" THEN "free" ELSE number)
                      /\ stopped' = TRUE /\ Goto(s, "returned") /\ stopLock' = 0
                   \/ leader = "alive" /\ Raise(s) /\ UNCHANGED <<leader, number, stopped>>
                /\ UNCHANGED <<win, made, owner, job, inJob, gate, doomed, child, seenExit, foreignHit>>
\* A caller asks again, whatever came of it before.
AskAgain(s) == /\ spc[s] \in {"returned", "raised"} /\ Goto(s, "idle")
               /\ UNCHANGED <<win, made, owner, job, tree, seenExit, stopLock, stopped, foreignHit>>

NatNext ==
  \/ CreateJob \/ Spawn \/ Assign \/ OpenGate \/ AbortStart
  \/ StartsChild \/ ChildExits \/ LeaderExits \/ NumberReused \/ OwnerDies \/ Poll
  \/ \E s \in Stoppers : StopBegins(s) \/ StopKills(s) \/ StopRefused(s) \/ StopReaps(s) \/ AskAgain(s)
NatSpec == NatInit /\ [][NatNext]_natvars

-----------------------------------------------------------------------------
(* Properties.                                                             *)

\* No stop, first or repeated, signals a process group of another program that
\* has got the number of a service that ended by itself.
NothingForeignStopped == ~foreignHit

\* A stop that returned leaves no process of the service behind, and on Windows
\* none outlives the owning program or a construction that failed, whenever it
\* fails: the service starts only inside the kill-on-close job.
NothingLeftRunning == /\ stopped => leader = "reaped" /\ child # "alive"
                      /\ win /\ (~owner \/ made = "failed") => child # "alive"

-----------------------------------------------------------------------------
(* What makes them inductive.                                              *)

NatType ==
  /\ win \in BOOLEAN /\ owner \in BOOLEAN /\ inJob \in BOOLEAN /\ doomed \in BOOLEAN
  /\ stopped \in BOOLEAN /\ foreignHit \in BOOLEAN
  /\ made \in {"job", "spawn", "assign", "gate", "abort", "ready", "failed"}
  /\ job \in {"none", "open", "closed"}
  /\ leader \in {"none", "alive", "zombie", "reaped"}
  /\ gate \in {"shut", "open", "eof"} /\ child \in {"none", "alive", "dead"}
  /\ number \in {"ours", "free", "foreign"}
  /\ spc \in [Stoppers -> {"idle", "grace", "wait", "returned", "raised"}]
  /\ stopLock \in Stoppers \cup {0}
\* The number is given back only when the leader is reaped, and a leader is reaped
\* only by a stop that returns or by a construction that failed.
NumberReserved ==
  /\ number = "ours" <=> leader \in {"alive", "zombie"}
  /\ number = "foreign" => leader = "reaped"
  /\ leader = "reaped" => stopped \/ made = "failed"
  /\ made \in {"assign", "gate", "ready"} => leader # "none"
  /\ made \in {"job", "assign", "gate"} => win
  /\ made \in {"job", "spawn"} => leader = "none" /\ gate # "open"
  /\ stopped => made = "ready"
\* One stop at a time is past its first check, and the tree it waits for is dying.
OneStops ==
  \A s \in Stoppers :
    /\ spc[s] \in {"grace", "wait"} => stopLock = s /\ made = "ready" /\ ~stopped
    /\ spc[s] = "wait" =>
         /\ child # "alive" /\ (leader = "alive" => doomed \/ gate # "open")
         /\ win => job = "closed"
         /\ ~win => (leader = "alive" => doomed)
\* On Windows the service is in the job before it can start, and dies with it.
JobHolds ==
  win =>
    /\ made \in {"assign", "job", "spawn"} => gate # "open"
    /\ made = "job" => job = "none"
    /\ made \notin {"job", "failed"} => job # "none"
    /\ gate # "open" => child = "none"
    /\ gate = "open" => inJob \/ leader # "alive"
    /\ made \in {"gate", "ready"} => inJob \/ leader # "alive"
    /\ child # "none" => inJob
    /\ leader = "none" => child = "none"
    /\ job = "none" => leader = "none"
    /\ (~owner \/ made = "failed") => job # "open"
    /\ job = "closed" =>
         /\ ~owner \/ made \in {"ready", "failed"}
         /\ child # "alive" /\ (leader = "alive" => doomed \/ gate # "open")
NatInv == NatType /\ NumberReserved /\ OneStops /\ JobHolds /\ NothingForeignStopped /\ NothingLeftRunning
=============================================================================

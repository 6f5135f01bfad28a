--------------------------- MODULE ProductService ---------------------------
(***************************************************************************)
(* The native supervisor (operator_product_service.py): it owns the        *)
(* recording worker (MediaMTX) and the browser gateway (Caddy), applies    *)
(* saved cameras, recording preferences and storage admission to the       *)
(* running worker through its private API, restarts what died, and stops   *)
(* both processes.  Requests and the maintenance task share one asyncio    *)
(* lock; stop() does not take it.                                          *)
(*                                                                         *)
(* The worker's configuration is, for each camera path, "none" (absent),   *)
(* "off" (present, not recorded) or "on".  The configuration file is       *)
(* rewritten before every start of the worker, so only the failure of a    *)
(* write is modelled, not the file.                                        *)
(***************************************************************************)
EXTENDS Integers, FiniteSets

CONSTANTS Path,        \* opaque camera paths
          MaxRequests, \* bound: administrator requests
          MaxFaults    \* bound: crashes, failed calls and failed probes

ASSUME BoundsAssumption == MaxRequests \in Nat /\ MaxFaults \in Nat

Setting == {"none", "off", "on"}

VARIABLES
    phase,          \* "new", "running", "closing", "stopped", "stop_failed"
    sources,        \* _sources: the saved cameras and their recording preference
    paths,          \* _paths: the paths the service believes the worker has
    ready, needsReconcile, diskFull,
    failures,       \* _health_failures
    task,           \* where _maintain is
    goal, todo,     \* apply_sources in progress: its configuration, its remaining calls
    worker,         \* the running worker's paths
    alive,          \* the two native processes
    requests, faults,
    lostUpdate      \* history: a storage change cleared a pending reconciliation

ops  == <<goal, todo>>
vars == <<phase, sources, paths, ready, needsReconcile, diskFull, failures, task, goal,
          todo, worker, alive, requests, faults, lostUpdate>>

Component == {"media", "gateway"}
NoPaths   == [p \in Path |-> "none"]
Named(c)  == {p \in Path : c[p] # "none"}

\* What _configuration gives the worker for a list of sources.
Configuration(src, full) ==
    [p \in Path |-> IF src[p] = "on" /\ full THEN "off" ELSE src[p]]

\* Calls of apply_sources that are still to be made.
NoCalls == [set |-> {}, delete |-> {}]

\* The asyncio lock: the maintenance task sleeps and no request holds it.
LockFree == task = "sleep" /\ phase \in {"running", "closing"}

Fault   == faults < MaxFaults /\ faults' = faults + 1
Request == requests < MaxRequests /\ requests' = requests + 1

-----------------------------------------------------------------------------
Init ==
    /\ phase = "new" /\ sources = NoPaths /\ paths = {}
    /\ ready = FALSE /\ needsReconcile = FALSE /\ diskFull = FALSE
    /\ failures = [c \in Component |-> 0]
    /\ task = "sleep" /\ goal = NoPaths /\ todo = NoCalls
    /\ worker = NoPaths /\ alive = [c \in Component |-> FALSE]
    /\ requests = 0 /\ faults = 0 /\ lostUpdate = FALSE

\* start: the first storage inspection, then both processes.
Start(src) ==
    /\ phase = "new"
    /\ phase' = "running"
    /\ diskFull' \in BOOLEAN
    /\ sources' = src /\ paths' = Named(src)
    /\ worker' = Configuration(src, diskFull')
    /\ alive' = [c \in Component |-> TRUE]
    /\ ready' = TRUE
    /\ UNCHANGED <<needsReconcile, failures, task, ops, requests, faults, lostUpdate>>

\* A start that fails stops whatever it had begun.
StartRefused ==
    /\ phase = "new" /\ Fault
    /\ phase' = "stopped"
    /\ UNCHANGED <<sources, paths, ready, needsReconcile, diskFull, failures, task, ops,
                   worker, alive, requests, lostUpdate>>

-----------------------------------------------------------------------------
(* apply_sources: one call of the worker's API after another.              *)

ApplySources(src) ==
    /\ LockFree /\ Request
    /\ sources' = src /\ needsReconcile' = TRUE
    /\ IF ready /\ alive["media"]
       THEN /\ task' = "applying"
            /\ goal' = Configuration(src, diskFull)
            /\ todo' = [set |-> Named(src), delete |-> paths \ Named(src)]
       ELSE UNCHANGED <<task, ops>>    \* "Recording worker is restarting"
    /\ UNCHANGED <<phase, paths, ready, diskFull, failures, worker, alive, faults,
                   lostUpdate>>

\* The worker refuses to add a path it has and to delete one it does not have.
Accepts(p) == /\ alive["media"]
              /\ p \in todo.set => (p \in paths \/ worker[p] = "none")
              /\ p \in todo.delete => worker[p] # "none"

Called(p) == [set |-> todo.set \ {p}, delete |-> todo.delete \ {p}]

ApplyCall(p) ==
    /\ task = "applying"
    /\ p \in todo.set \/ (todo.set = {} /\ p \in todo.delete)
    /\ Accepts(p)
    /\ worker' = [worker EXCEPT ![p] = goal[p]]
    /\ todo' = Called(p)
    /\ UNCHANGED <<phase, sources, paths, ready, needsReconcile, diskFull, failures, task,
                   goal, alive, requests, faults, lostUpdate>>

ApplyDone ==
    /\ task = "applying" /\ todo = NoCalls
    /\ paths' = Named(goal) /\ needsReconcile' = FALSE
    /\ task' = "sleep" /\ goal' = NoPaths /\ todo' = NoCalls
    /\ UNCHANGED <<phase, sources, ready, diskFull, failures, worker, alive, requests,
                   faults, lostUpdate>>

\* A call is refused, or it times out or is cancelled (and may have been carried out
\* all the same), or the configuration cannot be written at the end.
ApplyFailed ==
    /\ task = "applying"
    /\ \/ /\ \E p \in todo.set \cup todo.delete : ~Accepts(p)
          /\ UNCHANGED <<worker, paths, faults>>
       \/ /\ \E p \in todo.set \cup todo.delete :
               Accepts(p) /\ worker' \in {worker, [worker EXCEPT ![p] = goal[p]]}
          /\ Fault /\ UNCHANGED paths
       \/ todo = NoCalls /\ paths' = Named(goal) /\ Fault /\ UNCHANGED worker
    /\ ready' = FALSE
    /\ task' = "sleep" /\ goal' = NoPaths /\ todo' = NoCalls
    /\ UNCHANGED <<phase, sources, needsReconcile, diskFull, failures, alive, requests,
                   lostUpdate>>

-----------------------------------------------------------------------------
(* apply_recording_preferences runs in a thread that is joined while the   *)
(* lock is held: one step for its calls and their compensation.            *)

SamePaths(src) == Named(src) = Named(sources)

Changed(src) == {p \in Named(src) : src[p] # sources[p]}

PatchIgnoresDiskFull(w, S, src, full) ==
    [p \in Path |-> IF p \in S /\ w[p] # "none"
                    THEN IF src[p] = "on" THEN "on" ELSE "off" ELSE w[p]]

\* The record-only PATCH for the paths in S, those the worker does not have excepted.
Patched(w, S, src, full) ==
    [p \in Path |-> IF p \in S /\ w[p] # "none"
                    THEN IF src[p] = "on" /\ ~full THEN "on" ELSE "off" ELSE w[p]]

PreferencesApplied(src) ==
    /\ LockFree /\ Request /\ SamePaths(src) /\ Changed(src) # {}
    /\ ready /\ alive["media"]
    /\ \A p \in Changed(src) : worker[p] # "none"
    /\ worker' = Patched(worker, Changed(src), src, diskFull)
    /\ sources' = src
    /\ UNCHANGED <<phase, paths, ready, needsReconcile, diskFull, failures, task, ops,
                   alive, faults, lostUpdate>>

\* A call fails, or the waiter is cancelled after it: the previous values are written
\* back; `kept' are the paths where that failed and the new value may stand.
PreferencesRolledBack(src) ==
    /\ LockFree /\ Request /\ SamePaths(src) /\ Changed(src) # {}
    /\ ready /\ alive["media"] /\ Fault
    /\ \E tried \in SUBSET Changed(src) : \E kept \in SUBSET tried :
         /\ worker' = Patched(Patched(worker, tried, sources, diskFull), kept, src, diskFull)
         /\ \/ kept = {} /\ UNCHANGED <<needsReconcile, ready>>
            \/ needsReconcile' = TRUE /\ ready' = FALSE
    /\ UNCHANGED <<phase, sources, paths, diskFull, failures, task, ops, alive, lostUpdate>>

-----------------------------------------------------------------------------
(* _apply_storage_status, called by configure_storage and by _maintain.    *)

\* The service's own paths are patched; no path may be missing from the worker.
StatusApplied(paused) ==
    \/ /\ paused = diskFull
       /\ UNCHANGED <<needsReconcile, diskFull, worker, lostUpdate, faults>>
    \/ /\ paused # diskFull
       /\ alive["media"] /\ \A p \in paths : worker[p] # "none"
       /\ diskFull' = paused
       /\ worker' = Patched(worker, paths, sources, paused)
       /\ needsReconcile' = FALSE
       /\ lostUpdate' = (lostUpdate \/ needsReconcile)
       /\ UNCHANGED faults

\* Some writers were patched when a call failed: reconciliation stays pending.
StatusFailed(paused) ==
    /\ paused # diskFull
    /\ \/ alive["media"] /\ Fault
       \/ (~alive["media"] \/ \E p \in paths : worker[p] = "none") /\ UNCHANGED faults
    /\ diskFull' = paused /\ needsReconcile' = TRUE /\ ready' = FALSE
    /\ \E done \in SUBSET paths : worker' = Patched(worker, done, sources, paused)
    /\ UNCHANGED lostUpdate

ConfigureStorage ==
    /\ LockFree /\ phase = "running" /\ Request
    /\ \E paused \in BOOLEAN :
         (StatusApplied(paused) /\ UNCHANGED ready) \/ StatusFailed(paused)
    /\ UNCHANGED <<phase, sources, paths, failures, task, ops, alive>>

-----------------------------------------------------------------------------
(* _maintain: one iteration holds the lock from "check" to "sleep".        *)

RestartIfDeadOnly == ~alive["media"] \/ failures["media"] >= 3

MediaNeedsRestart == ~alive["media"] \/ needsReconcile \/ failures["media"] >= 3

GatewayNeedsRestart == ~alive["gateway"] \/ failures["gateway"] >= 3

MaintainWake ==
    /\ LockFree /\ phase = "running"
    /\ IF MediaNeedsRestart
       THEN /\ task' = "spawn_media" /\ ready' = FALSE
            /\ alive' = [alive EXCEPT !["media"] = FALSE]
            /\ worker' = NoPaths
       ELSE task' = "gateway" /\ UNCHANGED <<ready, alive, worker>>
    /\ UNCHANGED <<phase, sources, paths, needsReconcile, diskFull, failures, ops,
                   requests, faults, lostUpdate>>

\* The spawning thread ends: a new worker with the saved configuration.
MediaSpawned ==
    /\ task = "spawn_media"
    /\ alive' = [alive EXCEPT !["media"] = TRUE]
    /\ worker' = Configuration(sources, diskFull)
    /\ task' = IF phase = "running" THEN "wait_media" ELSE "sleep"
    /\ UNCHANGED <<phase, sources, paths, ready, needsReconcile, diskFull, failures, ops,
                   requests, faults, lostUpdate>>

MediaReady ==
    /\ task = "wait_media" /\ phase = "running" /\ alive["media"]
    /\ failures' = [failures EXCEPT !["media"] = 0]
    /\ paths' = Named(sources) /\ needsReconcile' = FALSE
    /\ lostUpdate' = FALSE
    /\ task' = "gateway"
    /\ UNCHANGED <<phase, sources, ready, diskFull, ops, worker, alive, requests, faults>>

MaintainGateway ==
    /\ task = "gateway" /\ phase = "running"
    /\ IF GatewayNeedsRestart
       THEN /\ task' = "spawn_gateway" /\ ready' = FALSE
            /\ alive' = [alive EXCEPT !["gateway"] = FALSE]
       ELSE task' = "health" /\ UNCHANGED <<ready, alive>>
    /\ UNCHANGED <<phase, sources, paths, needsReconcile, diskFull, failures, ops, worker,
                   requests, faults, lostUpdate>>

GatewaySpawned ==
    /\ task = "spawn_gateway"
    /\ alive' = [alive EXCEPT !["gateway"] = TRUE]
    /\ task' = IF phase = "running" THEN "wait_gateway" ELSE "sleep"
    /\ UNCHANGED <<phase, sources, paths, ready, needsReconcile, diskFull, failures, ops,
                   worker, requests, faults, lostUpdate>>

GatewayReady ==
    /\ task = "wait_gateway" /\ phase = "running" /\ alive["gateway"]
    /\ failures' = [failures EXCEPT !["gateway"] = 0]
    /\ task' = "health"
    /\ UNCHANGED <<phase, sources, paths, ready, needsReconcile, diskFull, ops, worker,
                   alive, requests, faults, lostUpdate>>

\* A spawn fails, a new process dies or does not answer in time: the iteration ends.
MaintainFailed ==
    /\ task \in {"spawn_media", "wait_media", "spawn_gateway", "wait_gateway"}
    /\ phase = "running"
    /\ \/ Fault
       \/ /\ \/ task = "wait_media" /\ ~alive["media"]
             \/ task = "wait_gateway" /\ ~alive["gateway"]
          /\ UNCHANGED faults
    /\ ready' = FALSE /\ task' = "sleep"
    /\ UNCHANGED <<phase, sources, paths, needsReconcile, diskFull, failures, ops, worker,
                   alive, requests, lostUpdate>>

\* The probes: due every ten seconds, and at once while one has failed.
MaintainHealth ==
    /\ task = "health" /\ phase = "running"
    /\ task' = "storage"
    /\ \/ failures = [c \in Component |-> 0] /\ UNCHANGED <<failures, faults>>
       \/ \E good \in SUBSET {c \in Component : alive[c]} :
            /\ failures' = [c \in Component |-> IF c \in good THEN 0 ELSE failures[c] + 1]
            /\ IF good = {c \in Component : alive[c]} THEN UNCHANGED faults ELSE Fault
    /\ UNCHANGED <<phase, sources, paths, ready, needsReconcile, diskFull, ops, worker,
                   alive, requests, lostUpdate>>

\* The inspection is due every fifteen seconds; readiness is then decided by the probes.
MaintainStorage ==
    /\ task = "storage" /\ phase = "running"
    /\ task' = "sleep"
    /\ \/ \E paused \in BOOLEAN : StatusFailed(paused)
       \/ /\ \E paused \in BOOLEAN : StatusApplied(paused)
          /\ ready' = \A c \in Component : failures[c] = 0
    /\ UNCHANGED <<phase, sources, paths, failures, ops, alive, requests>>

-----------------------------------------------------------------------------
(* stop, and the processes the service does not control.                   *)

\* The maintenance task is cancelled; a process being spawned is waited for.
StopBegin ==
    /\ phase = "running"
    /\ phase' = "closing" /\ ready' = FALSE
    /\ task' = IF task \in {"spawn_media", "spawn_gateway", "applying"} THEN task ELSE "sleep"
    /\ UNCHANGED <<sources, paths, needsReconcile, diskFull, failures, ops, worker, alive,
                   requests, faults, lostUpdate>>

StopWithoutJoin ==
    /\ phase = "closing"
    /\ phase' = "stopped"
    /\ alive' = [c \in Component |-> FALSE] /\ worker' = NoPaths
    /\ UNCHANGED <<sources, paths, ready, needsReconcile, diskFull, failures, task, ops,
                   requests, faults, lostUpdate>>

\* Writers are flushed and both processes stopped together, once no spawn is pending.
StopProcesses ==
    /\ phase = "closing" /\ task \notin {"spawn_media", "spawn_gateway"}
    /\ phase' = "stopped"
    /\ alive' = [c \in Component |-> FALSE] /\ worker' = NoPaths
    /\ UNCHANGED <<sources, paths, ready, needsReconcile, diskFull, failures, task, ops,
                   requests, faults, lostUpdate>>

\* A process could not be stopped: the service keeps owning it and reports the failure.
StopFailed ==
    /\ phase = "closing" /\ task \notin {"spawn_media", "spawn_gateway"} /\ Fault
    /\ phase' = "stop_failed"
    /\ \E left \in SUBSET {c \in Component : alive[c]} :
         /\ left # {}
         /\ alive' = [c \in Component |-> c \in left]
         /\ worker' = IF "media" \in left THEN worker ELSE NoPaths
    /\ UNCHANGED <<sources, paths, ready, needsReconcile, diskFull, failures, task, ops,
                   requests, lostUpdate>>

Crash(c) ==
    /\ phase \in {"running", "closing"} /\ alive[c] /\ Fault
    /\ alive' = [alive EXCEPT ![c] = FALSE]
    /\ worker' = IF c = "media" THEN NoPaths ELSE worker
    /\ UNCHANGED <<phase, sources, paths, ready, needsReconcile, diskFull, failures, task,
                   ops, requests, lostUpdate>>

Applying == (\E p \in Path : ApplyCall(p)) \/ ApplyDone \/ ApplyFailed

Maintain == \/ MaintainWake \/ MediaSpawned \/ MediaReady \/ MaintainGateway
            \/ GatewaySpawned \/ GatewayReady \/ MaintainFailed \/ MaintainHealth
            \/ MaintainStorage

Requests == \/ \E src \in [Path -> Setting] : \/ ApplySources(src)
                                             \/ PreferencesApplied(src)
                                             \/ PreferencesRolledBack(src)
            \/ ConfigureStorage

Next == \/ \E src \in [Path -> Setting] : Start(src)
        \/ StartRefused \/ Requests \/ Applying \/ Maintain
        \/ StopBegin \/ StopProcesses \/ StopFailed
        \/ \E c \in Component : Crash(c)

\* Tasks of the event loop and joined threads make progress; nobody is obliged to
\* send a request, and crashes are never obliged to happen.
Fairness == WF_vars(Applying) /\ WF_vars(Maintain) /\ WF_vars(StopProcesses \/ StopFailed)

Spec == Init /\ [][Next]_vars

FairSpec == Spec /\ Fairness

-----------------------------------------------------------------------------
\* Every variable has its type; a component that failed three probes is restarted
\* before it is probed again (lines 576, 589).
TypeOK ==
    /\ phase \in {"new", "running", "closing", "stopped", "stop_failed"}
    /\ sources \in [Path -> Setting] /\ paths \subseteq Path
    /\ ready \in BOOLEAN /\ needsReconcile \in BOOLEAN /\ diskFull \in BOOLEAN
    /\ failures \in [Component -> 0..3]
    /\ task \in {"sleep", "applying", "spawn_media", "wait_media", "gateway",
                 "spawn_gateway", "wait_gateway", "health", "storage"}
    /\ goal \in [Path -> Setting]
    /\ todo \in [set : SUBSET Path, delete : SUBSET Path]
    /\ worker \in [Path -> Setting] /\ alive \in [Component -> BOOLEAN]
    /\ requests \in 0..MaxRequests /\ faults \in 0..MaxFaults
    /\ lostUpdate \in BOOLEAN

\* status() in {"ready", "disk_full"}
Serving == ready /\ alive["media"] /\ alive["gateway"]

Applied == worker = Configuration(sources, diskFull)

\* While the service reports "ready" or "disk_full" and no request is being applied,
\* the worker records exactly the saved cameras whose preference is on, and none of
\* them when the disk is full (status, line 193; test_operator_product_service.py:669).
ReadyMeansApplied == Serving /\ task # "applying" => Applied

\* The same, except after a storage change cleared a pending reconciliation (line 302):
\* that is the only way the worker and the saved cameras can part.
ReadyMeansAppliedUnlessCleared == Serving /\ task # "applying" => Applied \/ lostUpdate

\* After a complete stop no native process is left and none can appear later, even if
\* one was being spawned when the stop began (_spawn and stop, lines 378-392, 645-726).
NoOrphan == phase = "stopped" => \A c \in Component : ~alive[c]

\* Every variable has its type, and a complete stop leaves no native process.
ServiceOwned == TypeOK /\ NoOrphan

\* Once requests, crashes and failed calls cease, a running service restarts what died,
\* applies what is saved and reports itself available for good (_maintain).
Recovers ==
    <>[](phase = "running" => Serving /\ ~needsReconcile /\ (Applied \/ lostUpdate))

=============================================================================

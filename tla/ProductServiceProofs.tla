------------------------ MODULE ProductServiceProofs ------------------------
(***************************************************************************)
(* Theorems about ProductService, for any set of camera paths and any      *)
(* number of requests and faults: who owns the native processes, and what  *)
(* a service that reports itself available may be trusted to record.       *)
(***************************************************************************)
EXTENDS ProductService, TLAPS

-----------------------------------------------------------------------------
(* The inductive invariant.                                                *)

AfterMedia == {"gateway", "spawn_gateway", "wait_gateway", "health", "storage"}

\* An iteration of _maintain that got past the worker found it, or made it, reconciled
\* and healthy enough; so a probe never counts a fourth failure.
IterationSound ==
    /\ task \in AfterMedia => ~needsReconcile
    /\ task \in AfterMedia \ {"storage"} => failures["media"] < 3
    /\ task = "health" => failures["gateway"] < 3

\* A process is being spawned only by a service that somebody still waits for, and the
\* worker being replaced was taken out of service first.
SpawnSound ==
    /\ phase = "new" => task = "sleep" /\ ~ready /\ ~needsReconcile
    /\ phase \in {"new", "stopped"} => \A c \in Component : ~alive[c]
    /\ phase = "closing" => task \in {"sleep", "applying", "spawn_media", "spawn_gateway"}
    /\ phase \in {"stopped", "stop_failed"} => task \in {"sleep", "applying"}
    /\ task \in {"spawn_media", "wait_media"} => ~ready

\* Without a pending reconciliation the running worker has what is saved, and the
\* service knows its paths; a new worker has it from the start.
WorkerSound ==
    /\ alive["media"] /\ ~needsReconcile => Applied \/ lostUpdate
    /\ alive["media"] /\ task = "wait_media" => Applied
    /\ ~needsReconcile => paths = Named(sources) \/ lostUpdate

\* A request in progress has a pending reconciliation to fall back on, and every path
\* that needs no further call is as it should be.
ApplyingSound ==
    task = "applying" =>
      /\ needsReconcile
      /\ goal = Configuration(sources, diskFull)
      /\ alive["media"] => lostUpdate \/ \A p \in Path \ (todo.set \cup todo.delete) :
                                           worker[p] = goal[p]

\* A service that looks available owes the worker nothing.
ReadySound == ready /\ alive["media"] /\ task # "applying" => ~needsReconcile

IInv == TypeOK /\ IterationSound /\ SpawnSound /\ WorkerSound /\ ApplyingSound /\ ReadySound

-----------------------------------------------------------------------------
(* What the worker is told.                                                *)

\* A configuration names the saved cameras, whether or not the disk is full.
LEMMA ConfigurationSound ==
  ASSUME NEW src \in [Path -> Setting], NEW full \in BOOLEAN
  PROVE  /\ Configuration(src, full) \in [Path -> Setting]
         /\ Named(Configuration(src, full)) = Named(src)
  BY DEF Configuration, Setting, Named

\* Patches set no value the worker does not know.
LEMMA PatchedType ==
  ASSUME NEW src \in [Path -> Setting], NEW full \in BOOLEAN, NEW w \in [Path -> Setting],
         NEW S
  PROVE  Patched(w, S, src, full) \in [Path -> Setting]
  BY DEF Patched, Setting

\* Patching the paths that differ makes the worker's configuration the saved one: what
\* apply_recording_preferences and _apply_storage_status rely on.
LEMMA PatchedIsConfiguration ==
  ASSUME NEW src \in [Path -> Setting], NEW full \in BOOLEAN, NEW w \in [Path -> Setting],
         NEW S,
         Named(w) = Named(src),
         \A p \in Path \ S : w[p] = Configuration(src, full)[p]
  PROVE  Patched(w, S, src, full) = Configuration(src, full)
  <1>1. \A p \in Path : w[p] = "none" <=> src[p] = "none"
    BY DEF Named
  <1>2. QED
    BY <1>1 DEF Patched, Configuration, Setting

-----------------------------------------------------------------------------
(* The proofs.                                                             *)

\* The switches of the service.
Flags == /\ ready \in BOOLEAN /\ needsReconcile \in BOOLEAN /\ diskFull \in BOOLEAN
         /\ lostUpdate \in BOOLEAN /\ alive \in [Component -> BOOLEAN]

\* The invariant holds before the start.
LEMMA InvInit == Init => IInv
  <1> SUFFICES ASSUME Init PROVE IInv
    OBVIOUS
  <1>1. Flags
    BY Zenon DEF Init, Flags
  <1>2. QED
    BY <1>1, BoundsAssumption
       DEF Flags, Init, IInv, TypeOK, IterationSound, SpawnSound, WorkerSound, ApplyingSound,
           ReadySound, AfterMedia, NoPaths, NoCalls, Setting, Component, Named

\* start brings both processes up with what is saved.
LEMMA StartKeepsInv ==
  ASSUME IInv, (\E src \in [Path -> Setting] : Start(src)) \/ StartRefused
  PROVE  IInv'
  <1> USE BoundsAssumption DEF IInv, TypeOK, IterationSound, SpawnSound, WorkerSound,
       ApplyingSound, ReadySound, AfterMedia, Applied, ops, Fault, Component
  <1>1. ASSUME NEW src \in [Path -> Setting], Start(src) PROVE IInv'
    <2>1. Flags'
      BY <1>1, Zenon DEF Start, Flags
    <2>2. Configuration(src, diskFull') \in [Path -> Setting]
      BY <2>1, ConfigurationSound DEF Flags
    <2>3. QED
      BY <1>1, <2>1, <2>2 DEF Start, Flags, Named
  <1>2. CASE StartRefused
    BY <1>2 DEF StartRefused
  <1>3. QED
    BY <1>1, <1>2

\* The calls of apply_sources, and their failure.
LEMMA ApplyingKeepsInv == ASSUME IInv, Applying PROVE IInv'
  <1> USE BoundsAssumption DEF IInv, TypeOK, IterationSound, SpawnSound, WorkerSound,
       ApplyingSound, ReadySound, AfterMedia, Applied, ops, Fault, Component
  <1>1. ASSUME NEW p \in Path, ApplyCall(p) PROVE IInv'
    BY <1>1 DEF ApplyCall, Called, Accepts
  <1>2. CASE ApplyDone
    <2>1. Flags'
      BY <1>2, Zenon DEF ApplyDone, Flags
    <2>2. NoPaths \in [Path -> Setting] /\ NoCalls \in [set : SUBSET Path, delete : SUBSET Path]
      BY DEF NoPaths, NoCalls, Setting
    <2>3. Named(goal) = Named(sources)
      BY <1>2, ConfigurationSound DEF ApplyDone
    <2>4. alive["media"] => Applied \/ lostUpdate
      BY <1>2, ConfigurationSound DEF ApplyDone, NoCalls
    <2>5. QED
      BY <1>2, <2>1, <2>2, <2>3, <2>4 DEF ApplyDone, Flags, Named
  <1>3. CASE ApplyFailed
    <2>1. Flags'
      BY <1>3, Zenon DEF ApplyFailed, Flags
    <2>2. NoPaths \in [Path -> Setting] /\ NoCalls \in [set : SUBSET Path, delete : SUBSET Path]
      BY DEF NoPaths, NoCalls, Setting
    <2>3. worker' \in [Path -> Setting] /\ paths' \subseteq Path /\ faults' \in 0..MaxFaults
      BY <1>3 DEF ApplyFailed, Accepts, Named
    <2>4. QED
      BY <1>3, <2>1, <2>2, <2>3 DEF ApplyFailed, Flags
  <1>4. QED
    BY <1>1, <1>2, <1>3 DEF Applying

\* A storage change that was applied leaves every writer as it should be, unless it was
\* not so before or a reconciliation was pending.
LEMMA StatusAppliedSound ==
  ASSUME IInv, NEW paused \in BOOLEAN, StatusApplied(paused)
  PROVE  /\ worker' \in [Path -> Setting] /\ faults' \in 0..MaxFaults
         /\ alive["media"] /\ ~needsReconcile' =>
              worker' = Configuration(sources, diskFull') \/ lostUpdate'
         /\ ~needsReconcile' => paths = Named(sources) \/ lostUpdate'
         /\ needsReconcile' => needsReconcile
  <1> USE DEF IInv, TypeOK, WorkerSound, Applied
  <1>1. CASE paused = diskFull /\ UNCHANGED <<needsReconcile, diskFull, worker, lostUpdate, faults>>
    BY <1>1
  <1>2. CASE /\ alive["media"] /\ \A p \in paths : worker[p] # "none"
             /\ diskFull' = paused /\ worker' = Patched(worker, paths, sources, paused)
             /\ needsReconcile' = FALSE /\ lostUpdate' = (lostUpdate \/ needsReconcile)
             /\ UNCHANGED faults
    <2>1. Patched(worker, paths, sources, paused) \in [Path -> Setting]
      BY PatchedType
    <2>2. CASE lostUpdate \/ needsReconcile
      BY <1>2, <2>1, <2>2
    <2>3. CASE ~lostUpdate /\ ~needsReconcile
      <3>1. Applied /\ paths = Named(sources)
        BY <1>2, <2>3
      <3>2. Named(worker) = Named(sources)
        BY <3>1, ConfigurationSound
      <3>3. \A p \in Path \ paths : worker[p] = Configuration(sources, paused)[p]
        BY <3>1 DEF Configuration, Named
      <3>4. Patched(worker, paths, sources, paused) = Configuration(sources, paused)
        BY <3>2, <3>3, PatchedIsConfiguration
      <3>5. QED
        BY <1>2, <2>1, <3>1, <3>4
    <2>4. QED
      BY <2>2, <2>3
  <1>3. QED
    BY <1>1, <1>2 DEF StatusApplied

\* One that failed leaves the reconciliation pending.
LEMMA StatusFailedSound ==
  ASSUME IInv, NEW paused \in BOOLEAN, StatusFailed(paused)
  PROVE  /\ worker' \in [Path -> Setting] /\ faults' \in 0..MaxFaults
         /\ needsReconcile' /\ ~ready' /\ lostUpdate' = lostUpdate
  BY PatchedType, BoundsAssumption DEF IInv, TypeOK, StatusFailed, Fault

\* The three requests that hold the lock from beginning to end, and the one that begins
\* apply_sources.
LEMMA RequestsKeepInv == ASSUME IInv, Requests PROVE IInv'
  <1> USE BoundsAssumption DEF IInv, TypeOK, IterationSound, SpawnSound, WorkerSound,
       ApplyingSound, ReadySound, AfterMedia, Applied, ops, Fault, Request, Component, LockFree
  <1>1. ASSUME NEW src \in [Path -> Setting], ApplySources(src) PROVE IInv'
    <2>1. Flags'
      BY <1>1, Zenon DEF ApplySources, Flags
    <2>2. /\ Configuration(src, diskFull) \in [Path -> Setting] /\ Named(src) \subseteq Path
          /\ Named(Configuration(src, diskFull)) = Named(src)
      BY ConfigurationSound DEF Named
    <2>3. CASE ready /\ alive["media"]
      <3>1. \A p \in Path : p \notin Named(src) /\ p \notin paths =>
                            lostUpdate \/ worker[p] = "none"
        BY <1>1, <2>3 DEF ApplySources, Named, Configuration
      <3>2. todo' = [set |-> Named(src), delete |-> paths \ Named(src)]
        BY <1>1, <2>3 DEF ApplySources
      <3>3. \A p \in Path \ (todo'.set \cup todo'.delete) :
               lostUpdate \/ worker[p] = Configuration(src, diskFull)[p]
        BY <2>2, <3>1, <3>2 DEF Named
      <3>4. QED
        BY <1>1, <2>1, <2>2, <2>3, <3>2, <3>3 DEF ApplySources, Flags
    <2>4. CASE ~(ready /\ alive["media"])
      BY <1>1, <2>1, <2>4 DEF ApplySources, Flags
    <2>5. QED
      BY <2>3, <2>4
  <1>2. ASSUME NEW src \in [Path -> Setting], PreferencesApplied(src) PROVE IInv'
    <2>1. Patched(worker, Changed(src), src, diskFull) \in [Path -> Setting]
      BY PatchedType
    <2>2. Applied => Patched(worker, Changed(src), src, diskFull) = Configuration(src, diskFull)
      <3> SUFFICES ASSUME Applied
                   PROVE  Patched(worker, Changed(src), src, diskFull)
                            = Configuration(src, diskFull)
        OBVIOUS
      <3>1. Named(worker) = Named(src)
        BY <1>2, ConfigurationSound DEF PreferencesApplied, SamePaths
      <3>2. \A p \in Path \ Changed(src) : src[p] = sources[p]
        BY <1>2 DEF PreferencesApplied, SamePaths, Changed, Named
      <3>3. QED
        BY <3>1, <3>2, PatchedIsConfiguration DEF Configuration
    <2>3. QED
      BY <1>2, <2>1, <2>2 DEF PreferencesApplied, SamePaths
  <1>3. ASSUME NEW src \in [Path -> Setting], PreferencesRolledBack(src) PROVE IInv'
    <2>1. PICK tried \in SUBSET Changed(src) : \E kept \in SUBSET tried :
            /\ worker' = Patched(Patched(worker, tried, sources, diskFull), kept, src, diskFull)
            /\ \/ kept = {} /\ UNCHANGED <<needsReconcile, ready>>
               \/ needsReconcile' = TRUE /\ ready' = FALSE
      BY <1>3 DEF PreferencesRolledBack
    <2>2. PICK kept \in SUBSET tried :
            /\ worker' = Patched(Patched(worker, tried, sources, diskFull), kept, src, diskFull)
            /\ \/ kept = {} /\ UNCHANGED <<needsReconcile, ready>>
               \/ needsReconcile' = TRUE /\ ready' = FALSE
      BY <2>1
    <2>3. Patched(worker, tried, sources, diskFull) \in [Path -> Setting]
      BY PatchedType
    <2>4. worker' \in [Path -> Setting]
      BY <2>2, <2>3, PatchedType
    <2>5. kept = {} => worker' = Patched(worker, tried, sources, diskFull)
      BY <2>2, <2>3 DEF Patched
    <2>6. Applied => Patched(worker, tried, sources, diskFull) = worker
      BY ConfigurationSound, PatchedIsConfiguration
    <2>7. Flags'
      BY <1>3, <2>2, Zenon DEF PreferencesRolledBack, Flags
    <2>8. CASE kept = {} /\ UNCHANGED <<needsReconcile, ready>>
      BY <1>3, <2>4, <2>5, <2>6, <2>7, <2>8 DEF PreferencesRolledBack, Flags
    <2>9. CASE needsReconcile' = TRUE /\ ready' = FALSE
      BY <1>3, <2>4, <2>7, <2>9 DEF PreferencesRolledBack, Flags
    <2>10. QED
      BY <2>2, <2>8, <2>9
  <1>4. CASE ConfigureStorage
    <2>1. PICK paused \in BOOLEAN :
            (StatusApplied(paused) /\ UNCHANGED ready) \/ StatusFailed(paused)
      BY <1>4 DEF ConfigureStorage
    <2>2. Flags'
      BY <1>4, <2>1, Zenon DEF ConfigureStorage, StatusApplied, StatusFailed, Flags
    <2>3. CASE StatusApplied(paused) /\ UNCHANGED ready
      BY <1>4, <2>2, <2>3, StatusAppliedSound DEF ConfigureStorage, Flags
    <2>4. CASE StatusFailed(paused)
      BY <1>4, <2>2, <2>4, StatusFailedSound DEF ConfigureStorage, Flags
    <2>5. QED
      BY <2>1, <2>3, <2>4
  <1>5. QED
    BY <1>1, <1>2, <1>3, <1>4 DEF Requests

\* An iteration of _maintain, step by step.
LEMMA MaintainKeepsInv == ASSUME IInv, Maintain PROVE IInv'
  <1> USE BoundsAssumption DEF IInv, TypeOK, IterationSound, SpawnSound, WorkerSound,
       ApplyingSound, ReadySound, AfterMedia, Applied, ops, Fault, Component, LockFree
  <1>1. CASE MaintainWake
    <2>1. Flags'
      BY <1>1, Zenon DEF MaintainWake, Flags
    <2>2. NoPaths \in [Path -> Setting]
      BY DEF NoPaths, Setting
    <2>3. QED
      BY <1>1, <2>1, <2>2 DEF MaintainWake, MediaNeedsRestart, Flags
  <1>2. CASE MediaSpawned
    <2>1. Flags'
      BY <1>2, Zenon DEF MediaSpawned, Flags
    <2>2. Configuration(sources, diskFull) \in [Path -> Setting]
      BY ConfigurationSound
    <2>3. QED
      BY <1>2, <2>1, <2>2 DEF MediaSpawned, Flags
  <1>3. CASE MediaReady
    <2>1. Flags'
      BY <1>3, Zenon DEF MediaReady, Flags
    <2>2. QED
      BY <1>3, <2>1 DEF MediaReady, Flags, Named
  <1>4. CASE MaintainGateway
    <2>1. Flags'
      BY <1>4, Zenon DEF MaintainGateway, Flags
    <2>2. QED
      BY <1>4, <2>1 DEF MaintainGateway, GatewayNeedsRestart, Flags
  <1>5. CASE GatewaySpawned
    <2>1. Flags'
      BY <1>5, Zenon DEF GatewaySpawned, Flags
    <2>2. QED
      BY <1>5, <2>1 DEF GatewaySpawned, Flags
  <1>6. CASE GatewayReady
    BY <1>6 DEF GatewayReady
  <1>7. CASE MaintainFailed
    <2>1. Flags'
      BY <1>7, Zenon DEF MaintainFailed, Flags
    <2>2. QED
      BY <1>7, <2>1 DEF MaintainFailed, Flags
  <1>8. CASE MaintainHealth
    BY <1>8 DEF MaintainHealth
  <1>9. CASE MaintainStorage
    <2>1. Flags'
      BY <1>9, Zenon DEF MaintainStorage, StatusApplied, StatusFailed, Flags
    <2>2. ASSUME NEW paused \in BOOLEAN, StatusApplied(paused) PROVE IInv'
      BY <1>9, <2>1, <2>2, StatusAppliedSound DEF MaintainStorage, Flags
    <2>3. ASSUME NEW paused \in BOOLEAN, StatusFailed(paused) PROVE IInv'
      BY <1>9, <2>1, <2>3, StatusFailedSound DEF MaintainStorage, Flags
    <2>4. QED
      BY <1>9, <2>2, <2>3 DEF MaintainStorage
  <1>10. QED
    BY <1>1, <1>2, <1>3, <1>4, <1>5, <1>6, <1>7, <1>8, <1>9 DEF Maintain

\* Stopping, and processes that die by themselves.
LEMMA StoppingKeepsInv ==
  ASSUME IInv, StopBegin \/ StopProcesses \/ StopFailed \/ \E c \in Component : Crash(c)
  PROVE  IInv'
  <1> USE BoundsAssumption DEF IInv, TypeOK, IterationSound, SpawnSound, WorkerSound,
       ApplyingSound, ReadySound, AfterMedia, Applied, ops, Fault, Component
  <1>0. NoPaths \in [Path -> Setting]
    BY DEF NoPaths, Setting
  <1>1. CASE StopBegin
    <2>1. Flags'
      BY <1>1, Zenon DEF StopBegin, Flags
    <2>2. QED
      BY <1>1, <2>1 DEF StopBegin, Flags
  <1>2. CASE StopProcesses
    <2>1. Flags'
      BY <1>2, Zenon DEF StopProcesses, Flags
    <2>2. QED
      BY <1>0, <1>2, <2>1 DEF StopProcesses, Flags
  <1>3. CASE StopFailed
    <2>1. PICK left \in SUBSET {c \in Component : alive[c]} :
            /\ alive' = [c \in Component |-> c \in left]
            /\ worker' = IF "media" \in left THEN worker ELSE NoPaths
      BY <1>3 DEF StopFailed
    <2>2. \A c \in Component : (c \in left) \in BOOLEAN
      OBVIOUS
    <2>3. Flags'
      BY <1>3, <2>1, <2>2, Zenon DEF StopFailed, Flags
    <2>4. QED
      BY <1>0, <1>3, <2>1, <2>3 DEF StopFailed, Flags
  <1>4. ASSUME NEW c \in Component, Crash(c) PROVE IInv'
    <2>1. Flags'
      BY <1>4, Zenon DEF Crash, Flags
    <2>2. QED
      BY <1>0, <1>4, <2>1 DEF Crash, Flags
  <1>5. QED
    BY <1>1, <1>2, <1>3, <1>4

\* The invariant holds in every reachable state.
THEOREM ServiceInvariant == Spec => []IInv
  <1>1. IInv /\ UNCHANGED vars => IInv'
    BY DEF IInv, TypeOK, IterationSound, SpawnSound, WorkerSound, ApplyingSound, ReadySound,
           AfterMedia, Applied, Named, Configuration, vars
  <1>2. IInv /\ Next => IInv'
    BY StartKeepsInv, RequestsKeepInv, ApplyingKeepsInv, MaintainKeepsInv, StoppingKeepsInv
       DEF Next
  <1>3. QED
    BY InvInit, <1>1, <1>2, PTL DEF Spec

\* ServiceOwned: a complete stop leaves no native process, not even one that was being
\* spawned when the stop began; and a probe never counts past the third failure.
THEOREM NoProcessLeft == Spec => []ServiceOwned
  <1>1. IInv => ServiceOwned
    BY DEF IInv, SpawnSound, ServiceOwned, NoOrphan
  <1>2. QED
    BY <1>1, ServiceInvariant, PTL

\* ReadyMeansAppliedUnlessCleared: while the service reports itself available and applies
\* no request, the worker records exactly the saved cameras whose preference is on, and
\* none on a full disk; a storage change that cleared a pending reconciliation is the only
\* way to part them, whatever crashes, times out or is rolled back.
THEOREM AvailableIsApplied == Spec => []ReadyMeansAppliedUnlessCleared
  <1>1. IInv => ReadyMeansAppliedUnlessCleared
    BY DEF IInv, ReadySound, WorkerSound, ReadyMeansAppliedUnlessCleared, Serving
  <1>2. QED
    BY <1>1, ServiceInvariant, PTL

=============================================================================

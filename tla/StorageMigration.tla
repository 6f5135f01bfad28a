--------------------------- MODULE StorageMigration -------------------------
(***************************************************************************)
(* Moving the recordings to another directory                              *)
(* (operator_storage_settings.py): an administrator stages a target, the   *)
(* next start of the process, recorder stopped and profile lease held,     *)
(* copies and verifies every segment, and only then activates the target.  *)
(* Failed attempts keep the old directory; finished copies are reused.     *)
(*                                                                         *)
(* A file is its contents, 0 if absent; a segment name is used once.  The  *)
(* settings document and all files survive a crash, which can fall between *)
(* any two steps.  Something outside K5 may alter files (bounded).         *)
(***************************************************************************)
EXTENDS Integers, FiniteSets

CONSTANTS Dir, Default,  \* local directories; the one recordings start in
          Seg,           \* names of segments
          MaxCrashes,    \* bound: crashes
          MaxFaults,     \* bound: deadlines, I/O errors and refused directories
          MaxTampers     \* bound: outside changes

ASSUME DefaultAssumption == Default \in Dir
ASSUME BoundAssumption == {MaxCrashes, MaxFaults, MaxTampers} \subseteq Nat

VARIABLES
    active, pending, error,   \* the settings document; pending is {} or {target}
    files,                    \* segments in each directory
    marker,                   \* _TARGET_MARKER: {} or {source directory}
    clutter,                  \* directories with other entries at their root
    temps,                    \* directories with a temporary copy beside their segments
    pc,                       \* what the process does
    inventory, todo, inHand, verified,  \* the attempt: source files, those not yet copied,
                                        \* the one being copied, the copies verified
    crashes, faults, tampers, \* counters
    recorded, footage         \* history: names used, contents still due

settings == <<active, pending, error>>
disk     == <<files, marker, clutter, temps>>
attempt  == <<inventory, todo, inHand, verified>>
counters == <<crashes, faults, tampers>>
history  == <<recorded, footage>>
vars == <<settings, disk, pc, attempt, counters, history>>

NoFiles == [s \in Seg |-> 0]
Present(d) == {s \in Seg : files[d][s] # 0}
Target == CHOOSE d \in pending : TRUE

Init ==
    /\ active = Default /\ pending = {} /\ error = "none"
    /\ files = [d \in Dir |-> NoFiles] /\ marker = [d \in Dir |-> {}]
    /\ clutter \in SUBSET (Dir \ {Default}) /\ temps = {}
    /\ pc = "serving"
    /\ inventory = NoFiles /\ todo = {} /\ inHand = {} /\ verified = NoFiles
    /\ crashes = 0 /\ faults = 0 /\ tampers = 0
    /\ recorded = {} /\ footage = NoFiles

-----------------------------------------------------------------------------
(* The running product: recorder, retention, administrator, stop.          *)

Write(s) ==
    /\ pc = "serving" /\ s \notin recorded
    /\ files' = [files EXCEPT ![active][s] = 1]
    /\ recorded' = recorded \cup {s} /\ footage' = [footage EXCEPT ![s] = 1]
    /\ UNCHANGED <<settings, marker, clutter, temps, pc, attempt, counters>>

\* RecordingStorage removes a closed segment from the active directory.
Prune(s) ==
    /\ pc = "serving" /\ files[active][s] # 0
    /\ files' = [files EXCEPT ![active][s] = 0]
    /\ footage' = [footage EXCEPT ![s] = 0]
    /\ UNCHANGED <<settings, marker, clutter, temps, pc, attempt, counters, recorded>>

Staged(d) == IF d = active THEN {} ELSE {d}

\* configure, by a caller who has seen the current revision; the active directory
\* cancels the change.
Configure(d) ==
    /\ pc = "serving"
    /\ pending' = Staged(d)
    /\ error' = "none"
    /\ UNCHANGED <<active, disk, pc, attempt, counters, history>>

Stop ==
    /\ pc = "serving" /\ pc' = "down"
    /\ UNCHANGED <<settings, disk, attempt, counters, history>>

Boot ==
    /\ pc = "down"
    /\ pc' = IF pending = {} THEN "serving" ELSE "prepare"
    /\ UNCHANGED <<settings, disk, attempt, counters, history>>

-----------------------------------------------------------------------------
(* migrate_pending.                                                        *)

Cleared == inventory' = NoFiles /\ todo' = {} /\ inHand' = {} /\ verified' = NoFiles

\* The error is saved, and the service starts on the old directory; the handlers on the
\* way out have removed the copy's own temporary file.
Fail(code) ==
    /\ error' = code /\ pc' = "serving" /\ Cleared
    /\ temps' = IF pc \in {"copying", "linked"} THEN temps \ {Target} ELSE temps
    /\ UNCHANGED <<active, pending, marker, clutter, history>>

Migrating == pc \in {"prepare", "marking", "inventory", "copy", "copying", "linked",
                     "recheck", "activate"}

\* The deadline, an I/O error, or a directory that is refused now.
Fault ==
    /\ Migrating /\ faults < MaxFaults /\ faults' = faults + 1
    /\ Fail(IF pc = "prepare" THEN "directory_refused" ELSE "migration_incomplete")
    /\ UNCHANGED <<files, crashes, tampers>>

\* A target is marked for this source, or empty.
Prepare ==
    /\ pc = "prepare"
    /\ IF marker[Target] = {active}
       THEN pc' = "inventory" /\ UNCHANGED <<settings, disk, attempt, history>>
       ELSE IF marker[Target] = {} /\ Target \notin clutter \cup temps /\ Present(Target) = {}
       THEN /\ pc' = "marking" /\ clutter' = clutter \cup {Target}
            /\ UNCHANGED <<settings, files, marker, temps, attempt, history>>
       ELSE Fail("destination_conflict") /\ UNCHANGED files
    /\ UNCHANGED counters

\* The marker's temporary file becomes the marker.
Mark ==
    /\ pc = "marking" /\ pc' = "inventory"
    /\ clutter' = clutter \ {Target}
    /\ marker' = [marker EXCEPT ![Target] = {active}]
    /\ UNCHANGED <<settings, files, temps, attempt, counters, history>>

\* A temporary file of an interrupted copy goes unnoticed.
NeverInterrupted(d) == FALSE

Interrupted(d) == d \in temps

TakeInventory ==
    /\ pc = "inventory"
    /\ IF Interrupted(Target) THEN Fail("interrupted_copy_preserved")
       ELSE IF ~(Present(Target) \subseteq Present(active)) THEN Fail("destination_conflict")
       ELSE /\ inventory' = files[active] /\ todo' = Present(active)
            /\ pc' = "copy" /\ UNCHANGED <<settings, marker, clutter, temps, inHand,
                                           verified, history>>
    /\ UNCHANGED <<files, counters>>

\* A copy is reused by its name alone.
SameName(s) == TRUE

\* A copy is reused when all its bytes match.
SameBytes(s) == files[Target][s] = files[active][s]

\* The next segment: changed, already copied, or to be copied into a temporary file.
CopyNext(s) ==
    /\ pc = "copy" /\ s \in todo
    /\ IF files[active][s] # inventory[s] THEN Fail("source_changed")
       ELSE IF files[Target][s] # 0
       THEN IF SameBytes(s)
            THEN /\ todo' = todo \ {s}
                 /\ verified' = [verified EXCEPT ![s] = files[Target][s]]
                 /\ UNCHANGED <<settings, marker, clutter, temps, pc, inventory, inHand, history>>
            ELSE Fail("destination_conflict")
       ELSE /\ temps' = temps \cup {Target} /\ inHand' = {s} /\ pc' = "copying"
            /\ UNCHANGED <<settings, marker, clutter, inventory, todo, verified, history>>
    /\ UNCHANGED <<files, counters>>

\* Whatever has appeared at the destination is replaced.
ReplacesDestination(s) == TRUE

\* os.link refuses a destination that has appeared meanwhile.
DestinationFree(s) == files[Target][s] = 0

\* The temporary copy, hashed while the source did not change, gets its name.
Link(s) ==
    /\ pc = "copying" /\ s \in inHand
    /\ IF files[active][s] # inventory[s] THEN Fail("source_changed") /\ UNCHANGED files
       ELSE IF ~DestinationFree(s) THEN Fail("destination_conflict") /\ UNCHANGED files
       ELSE /\ files' = [files EXCEPT ![Target][s] = inventory[s]]
            /\ pc' = "linked"
            /\ UNCHANGED <<settings, marker, clutter, temps, attempt, history>>
    /\ UNCHANGED counters

UnlinkTemporary(s) ==
    /\ pc = "linked" /\ s \in inHand
    /\ temps' = temps \ {Target} /\ pc' = "copy"
    /\ todo' = todo \ {s} /\ inHand' = {}
    /\ verified' = [verified EXCEPT ![s] = files[Target][s]]
    /\ UNCHANGED <<settings, files, marker, clutter, inventory, counters, history>>

\* Only the source is looked at again.
TargetAsExpected == TRUE

TargetAsVerified == files[Target] = verified

Recheck ==
    /\ pc = "copy" /\ todo = {}
    /\ IF files[active] # inventory THEN Fail("source_changed")
       ELSE IF Interrupted(Target) THEN Fail("interrupted_copy_preserved")
       ELSE IF ~TargetAsVerified THEN Fail("destination_conflict")
       ELSE pc' = "activate" /\ UNCHANGED <<settings, marker, clutter, temps, attempt, history>>
    /\ UNCHANGED <<files, counters>>

\* One atomic replacement of the settings document.
Activate ==
    /\ pc = "activate" /\ pc' = "serving"
    /\ active' = Target /\ pending' = {} /\ error' = "none" /\ Cleared
    /\ UNCHANGED <<disk, counters, history>>

-----------------------------------------------------------------------------
(* The outside.                                                            *)

\* Another program alters, removes or adds a segment, footage that is then no longer due.
\* Between comparing a copy and noting its signature, and after the last inventory, the
\* code relies on the profile lease and the private target alone.
Tamper(d, s) ==
    /\ pc \notin {"linked", "activate"} /\ tampers < MaxTampers /\ tampers' = tampers + 1
    /\ \E contents \in {0, 2} \ {files[d][s]} : files' = [files EXCEPT ![d][s] = contents]
    /\ footage' = IF d = active THEN [footage EXCEPT ![s] = 0] ELSE footage
    /\ recorded' = recorded \cup {s}
    /\ UNCHANGED <<settings, marker, clutter, temps, pc, attempt, crashes, faults>>

Crash ==
    /\ pc # "down" /\ crashes < MaxCrashes /\ crashes' = crashes + 1
    /\ pc' = "down" /\ Cleared
    /\ UNCHANGED <<settings, disk, faults, tampers, history>>

Migrate == \/ Prepare \/ Mark \/ TakeInventory \/ Recheck \/ Activate
           \/ \E s \in Seg : CopyNext(s) \/ Link(s) \/ UnlinkTemporary(s)

Next ==
    \/ Stop \/ Boot \/ Migrate \/ Fault \/ Crash
    \/ \E d \in Dir : Configure(d)
    \/ \E s \in Seg : Write(s) \/ Prune(s)
    \/ \E d \in Dir, s \in Seg : Tamper(d, s)

Spec == Init /\ [][Next]_vars

-----------------------------------------------------------------------------
\* Every variable has its type.
TypeOK ==
    /\ active \in Dir /\ pending \in {{}} \cup {{d} : d \in Dir \ {active}}
    /\ error \in {"none", "migration_incomplete", "directory_refused", "source_changed",
                  "destination_conflict", "interrupted_copy_preserved"}
    /\ files \in [Dir -> [Seg -> 0..2]] /\ marker \in [Dir -> {{}} \cup {{d} : d \in Dir}]
    /\ clutter \subseteq Dir /\ temps \subseteq Dir
    /\ pc = "serving" \/ pc = "down" \/ Migrating
    /\ Migrating => pending # {}
    /\ inventory \in [Seg -> 0..2] /\ todo \subseteq Seg /\ inHand \subseteq Seg
    /\ verified \in [Seg -> 0..2]
    /\ crashes \in 0..MaxCrashes /\ faults \in 0..MaxFaults /\ tampers \in 0..MaxTampers
    /\ recorded \subseteq Seg /\ footage \in [Seg -> 0..2]

\* All footage that neither retention nor anyone else removed is in the active
\* directory, through failed, interrupted and completed moves (migrate_pending).
HistoryFollows == \A s \in Seg : footage[s] # 0 => files[active][s] = footage[s]

\* The directory that becomes active holds exactly the recordings of the old one.
ActivatesExactCopy == [][active' # active => files[active'] = files[active]]_vars

\* A move never removes or changes a segment in any directory: originals stay, and a
\* conflicting destination is never overwritten.
NothingOverwritten ==
    [][Migrate => \A d \in Dir, s \in Seg : files[d][s] # 0 => files'[d][s] = files[d][s]]_vars

\* A directory with the temporary file of an interrupted copy never becomes active.
NoPartialCopyActive == active \notin temps

\* "A later ordinary restart can reuse copies whose complete bytes still match"
\* (docs/WINDOWS_STORAGE_ADMINISTRATION.md): an untouched target that was marked for
\* this source does not conflict with it.
RetryReusesCopies ==
    error = "destination_conflict" /\ tampers = 0 => marker[Target] # {active}

=============================================================================

----------------------------- MODULE MediaProofs ------------------------------
(***************************************************************************)
(* Theorems about the components of MCMedia: StorageMigration for every    *)
(* set of directories and segments and every number of crashes, faults and *)
(* outside changes, and the parts of PartSpec that have an inductive       *)
(* invariant, each for every value of its constants.  s1, s2, ... are the  *)
(* variables of the part a behaviour is about.                             *)
(***************************************************************************)
EXTENDS MCMedia, Sequences, FiniteSetTheorems, TLAPS

-----------------------------------------------------------------------------
(* The move of the recordings.                                             *)

\* Before the copy loop the attempt is blank; in the loop every segment that is done is
\* verified as it was inventoried; the linked copy is the inventoried one; and what is
\* about to be activated equals the active directory and holds no temporary copy.
AttemptSound ==
    /\ pc \in {"serving", "down", "prepare", "marking", "inventory"} =>
         todo = {} /\ inHand = {} /\ verified = NoFiles
    /\ pc \in {"copy", "copying", "linked"} =>
         \A s \in Seg : s \notin todo => verified[s] = inventory[s]
    /\ \A s, r \in inHand : s = r
    /\ pc = "linked" => \A s \in inHand : files[Target][s] = inventory[s]
    /\ pc = "activate" => files[Target] = files[active] /\ Target \notin temps

IInv == TypeOK /\ HistoryFollows /\ NoPartialCopyActive /\ AttemptSound

-----------------------------------------------------------------------------
\* While a migration runs, its target is a directory other than the active one.
LEMMA TargetLemma ==
    ASSUME TypeOK, pending # {}
    PROVE  Target \in Dir /\ Target # active /\ pending = {Target}
  <1>1. Target \in pending
    BY DEF Target
  <1>2. PICK d \in Dir \ {active} : pending = {d}
    BY DEF TypeOK
  <1>3. QED
    BY <1>1, <1>2

\* A step that keeps the pending directory keeps the target.
LEMMA SameTarget == ASSUME pending' = pending PROVE Target' = Target
  BY DEF Target

\* A blank inventory has the type of one.
LEMMA NoFilesType == NoFiles \in [Seg -> 0..2] /\ \A s \in Seg : NoFiles[s] = 0
  BY DEF NoFiles

\* A failed attempt leaves the files and keeps the invariant.
LEMMA FailLemma ==
    ASSUME IInv, Migrating, UNCHANGED files,
           NEW code \in {"migration_incomplete", "directory_refused", "source_changed",
                         "destination_conflict", "interrupted_copy_preserved"},
           Fail(code), crashes' \in 0..MaxCrashes, faults' \in 0..MaxFaults,
           tampers' \in 0..MaxTampers
    PROVE  IInv'
  <1>1. pending # {} BY DEF IInv, TypeOK
  <1>2. pc' = "serving" /\ pending' = pending /\ active' = active /\ marker' = marker
        /\ clutter' = clutter /\ error' = code /\ inventory' = NoFiles /\ todo' = {}
        /\ inHand' = {} /\ verified' = NoFiles /\ temps' \subseteq temps
        /\ recorded' = recorded /\ footage' = footage
    BY DEF Fail, Cleared, history
  <1>3. TypeOK'
    BY <1>2, NoFilesType DEF IInv, TypeOK, Migrating
  <1>4. HistoryFollows' /\ NoPartialCopyActive'
    BY <1>2 DEF IInv, HistoryFollows, NoPartialCopyActive
  <1>5. AttemptSound'
    BY <1>2 DEF AttemptSound, NoFiles
  <1>6. QED BY <1>3, <1>4, <1>5 DEF IInv

-----------------------------------------------------------------------------
\* The initial states satisfy the inductive invariant.
LEMMA InitLemma == Init => IInv
  <1> SUFFICES ASSUME Init PROVE IInv OBVIOUS
  <1>1. TypeOK
    BY DefaultAssumption, BoundAssumption, NoFilesType DEF Init, TypeOK, Migrating
  <1>2. HistoryFollows /\ NoPartialCopyActive
    BY NoFilesType DEF Init, HistoryFollows, NoPartialCopyActive
  <1>3. AttemptSound
    BY DEF Init, AttemptSound
  <1>4. QED BY <1>1, <1>2, <1>3 DEF IInv

\* A step that moves the attempt on without touching the settings, the footage or the
\* active directory's files keeps everything but what AttemptSound says of the attempt.
LEMMA AdvanceLemma ==
    ASSUME IInv, Migrating, Migrating', UNCHANGED <<settings, counters, history>>,
           files' \in [Dir -> [Seg -> 0..2]], files'[active] = files[active],
           marker' \in [Dir -> {{}} \cup {{d} : d \in Dir}], clutter' \subseteq Dir,
           temps' \subseteq temps \cup {Target},
           inventory' \in [Seg -> 0..2], todo' \subseteq Seg, inHand' \subseteq Seg,
           verified' \in [Seg -> 0..2], AttemptSound'
    PROVE  IInv'
  <1>1. Target \in Dir /\ Target # active /\ pending # {}
    BY TargetLemma DEF IInv, TypeOK
  <1>2. /\ active' = active /\ pending' = pending /\ error' = error
        /\ recorded' = recorded /\ footage' = footage
        /\ crashes' = crashes /\ faults' = faults /\ tampers' = tampers
    BY DEF settings, counters, history
  <1>3. TypeOK'
    BY <1>1, <1>2 DEF IInv, TypeOK
  <1>4. HistoryFollows' /\ NoPartialCopyActive'
    BY <1>1, <1>2 DEF IInv, HistoryFollows, NoPartialCopyActive
  <1>5. QED BY <1>3, <1>4 DEF IInv

\* Every step of a migration preserves the invariant.
LEMMA MigrateLemma == ASSUME IInv, Migrate PROVE IInv'
  <1> USE DEF IInv
  <1>0. Migrating /\ pending # {}
    BY DEF Migrate, Prepare, Mark, TakeInventory, Recheck, Activate, CopyNext, Link,
           UnlinkTemporary, Migrating, TypeOK
  <1>1. Target \in Dir /\ Target # active
    BY <1>0, TargetLemma
  <1>2. UNCHANGED counters => crashes' \in 0..MaxCrashes /\ faults' \in 0..MaxFaults
                              /\ tampers' \in 0..MaxTampers
    BY DEF counters, TypeOK
  <1>3. UNCHANGED settings => Target' = Target /\ active' = active
    BY SameTarget DEF settings
  <1>4. CASE Prepare
    <2>1. CASE marker[Target] = {active}
      <3>1. pc' = "inventory" /\ pc = "prepare"
            /\ UNCHANGED <<settings, disk, attempt, history, counters>>
        BY <1>4, <2>1 DEF Prepare
      <3>2. AttemptSound'
        BY <3>1 DEF attempt, AttemptSound
      <3>3. QED
        BY <1>0, <3>1, <3>2, AdvanceLemma DEF disk, attempt, TypeOK, Migrating
    <2>2. CASE /\ marker[Target] # {active} /\ marker[Target] = {}
               /\ Target \notin clutter \cup temps /\ Present(Target) = {}
      <3>1. /\ pc' = "marking" /\ pc = "prepare" /\ clutter' = clutter \cup {Target}
            /\ UNCHANGED <<settings, files, marker, temps, attempt, history, counters>>
        BY <1>4, <2>2 DEF Prepare
      <3>2. AttemptSound'
        BY <3>1 DEF attempt, AttemptSound
      <3>3. QED
        BY <1>0, <1>1, <3>1, <3>2, AdvanceLemma DEF attempt, TypeOK, Migrating
    <2>3. CASE Fail("destination_conflict") /\ UNCHANGED files
      BY <1>0, <1>2, <1>4, <2>3, FailLemma DEF Prepare
    <2>4. QED
      BY <1>4, <2>1, <2>2, <2>3 DEF Prepare
  <1>5. CASE Mark
    <2>1. /\ pc' = "inventory" /\ pc = "marking" /\ clutter' = clutter \ {Target}
          /\ marker' = [marker EXCEPT ![Target] = {active}]
          /\ UNCHANGED <<settings, files, temps, attempt, counters, history>>
      BY <1>5 DEF Mark
    <2>2. AttemptSound'
      BY <2>1 DEF attempt, AttemptSound
    <2>3. marker' \in [Dir -> {{}} \cup {{d} : d \in Dir}]
      BY <1>1, <2>1 DEF TypeOK
    <2>4. QED
      BY <1>0, <1>1, <2>1, <2>2, <2>3, AdvanceLemma DEF attempt, TypeOK, Migrating
  <1>6. CASE TakeInventory
    <2>1. pc = "inventory" /\ UNCHANGED files /\ UNCHANGED counters
      BY <1>6 DEF TakeInventory
    <2>2. CASE Fail("interrupted_copy_preserved") \/ Fail("destination_conflict")
      BY <1>0, <1>2, <2>1, <2>2, FailLemma
    <2>3. CASE /\ inventory' = files[active] /\ todo' = Present(active) /\ pc' = "copy"
               /\ UNCHANGED <<settings, marker, clutter, temps, inHand, verified, history>>
      <3>1. inventory' \in [Seg -> 0..2] /\ todo' \subseteq Seg
        BY <2>3 DEF TypeOK, Present
      <3>2. \A s \in Seg : s \notin todo' => inventory'[s] = 0
        BY <2>3 DEF Present
      <3>3. verified' = NoFiles /\ inHand' = {}
        BY <2>1, <2>3 DEF AttemptSound
      <3>4. AttemptSound'
        BY <2>3, <3>2, <3>3, NoFilesType DEF AttemptSound
      <3>5. QED
        BY <1>0, <2>1, <2>3, <3>1, <3>4, AdvanceLemma DEF TypeOK, Migrating
    <2>4. QED
      BY <1>6, <2>2, <2>3 DEF TakeInventory
  <1>7. ASSUME NEW s \in Seg, CopyNext(s) PROVE IInv'
    <2>1. pc = "copy" /\ s \in todo /\ UNCHANGED files /\ UNCHANGED counters
      BY <1>7 DEF CopyNext
    <2>2. CASE Fail("source_changed") \/ Fail("destination_conflict")
      BY <1>0, <1>2, <2>1, <2>2, FailLemma
    <2>3. CASE /\ files[active][s] = inventory[s] /\ SameBytes(s) /\ todo' = todo \ {s}
               /\ verified' = [verified EXCEPT ![s] = files[Target][s]]
               /\ UNCHANGED <<settings, marker, clutter, temps, pc, inventory, inHand, history>>
      <3>1. verified' \in [Seg -> 0..2] /\ todo' \subseteq Seg
        BY <1>1, <2>3 DEF TypeOK
      <3>2. verified'[s] = inventory[s] /\ \A r \in Seg \ {s} : verified'[r] = verified[r]
        BY <2>3 DEF TypeOK, SameBytes
      <3>3. AttemptSound'
        BY <2>1, <2>3, <3>2 DEF AttemptSound
      <3>4. QED
        BY <1>0, <2>1, <2>3, <3>1, <3>3, AdvanceLemma DEF TypeOK, Migrating
    <2>4. CASE /\ temps' = temps \cup {Target} /\ inHand' = {s} /\ pc' = "copying"
               /\ UNCHANGED <<settings, marker, clutter, inventory, todo, verified, history>>
      <3>1. AttemptSound'
        BY <2>1, <2>4 DEF AttemptSound
      <3>2. QED
        BY <1>0, <2>1, <2>4, <3>1, AdvanceLemma DEF TypeOK, Migrating
    <2>5. QED
      BY <1>7, <2>2, <2>3, <2>4 DEF CopyNext
  <1>8. ASSUME NEW s \in Seg, Link(s) PROVE IInv'
    <2>1. pc = "copying" /\ s \in inHand /\ UNCHANGED counters
      BY <1>8 DEF Link
    <2>2. CASE (Fail("source_changed") \/ Fail("destination_conflict")) /\ UNCHANGED files
      BY <1>0, <1>2, <2>1, <2>2, FailLemma
    <2>3. CASE /\ files' = [files EXCEPT ![Target][s] = inventory[s]] /\ pc' = "linked"
               /\ UNCHANGED <<settings, marker, clutter, temps, attempt, history>>
      <3>1. /\ files' \in [Dir -> [Seg -> 0..2]] /\ files'[active] = files[active]
            /\ files'[Target][s] = inventory[s]
        BY <1>1, <2>3 DEF TypeOK
      <3>2. AttemptSound'
        BY <1>3, <2>1, <2>3, <3>1 DEF AttemptSound, attempt
      <3>3. QED
        BY <1>0, <2>1, <2>3, <3>1, <3>2, AdvanceLemma DEF TypeOK, Migrating, attempt
    <2>4. QED
      BY <1>8, <2>2, <2>3 DEF Link
  <1>9. ASSUME NEW s \in Seg, UnlinkTemporary(s) PROVE IInv'
    <2>1. /\ pc = "linked" /\ s \in inHand /\ temps' = temps \ {Target} /\ pc' = "copy"
          /\ todo' = todo \ {s} /\ inHand' = {}
          /\ verified' = [verified EXCEPT ![s] = files[Target][s]]
          /\ UNCHANGED <<settings, files, marker, clutter, inventory, counters, history>>
      BY <1>9 DEF UnlinkTemporary
    <2>2. verified' \in [Seg -> 0..2] /\ todo' \subseteq Seg
      BY <1>1, <2>1 DEF TypeOK
    <2>3. verified'[s] = inventory[s] /\ \A r \in Seg \ {s} : verified'[r] = verified[r]
      BY <2>1 DEF TypeOK, AttemptSound
    <2>4. AttemptSound'
      BY <2>1, <2>3 DEF AttemptSound
    <2>5. QED
      BY <1>0, <2>1, <2>2, <2>4, AdvanceLemma DEF TypeOK, Migrating
  <1>10. CASE Recheck
    <2>1. pc = "copy" /\ todo = {} /\ UNCHANGED files /\ UNCHANGED counters
      BY <1>10 DEF Recheck
    <2>2. CASE \/ Fail("source_changed") \/ Fail("interrupted_copy_preserved")
               \/ Fail("destination_conflict")
      BY <1>0, <1>2, <2>1, <2>2, FailLemma
    <2>3. CASE /\ files[active] = inventory /\ ~Interrupted(Target) /\ TargetAsVerified
               /\ pc' = "activate"
               /\ UNCHANGED <<settings, marker, clutter, temps, attempt, history>>
      <3>1. verified = inventory
        BY <2>1 DEF AttemptSound, TypeOK
      <3>2. files[Target] = files[active] /\ Target \notin temps
        BY <2>3, <3>1 DEF TargetAsVerified, Interrupted
      <3>3. AttemptSound'
        BY <1>3, <2>1, <2>3, <3>2 DEF AttemptSound, attempt
      <3>4. QED
        BY <1>0, <2>1, <2>3, <3>3, AdvanceLemma DEF TypeOK, Migrating, attempt
    <2>4. QED
      BY <1>10, <2>2, <2>3 DEF Recheck
  <1>11. CASE Activate
    <2>1. /\ pc = "activate" /\ pc' = "serving" /\ active' = Target /\ pending' = {}
          /\ error' = "none" /\ inventory' = NoFiles /\ todo' = {} /\ inHand' = {}
          /\ verified' = NoFiles /\ files' = files /\ marker' = marker /\ clutter' = clutter
          /\ temps' = temps /\ UNCHANGED counters /\ recorded' = recorded
          /\ footage' = footage
      BY <1>11 DEF Activate, Cleared, disk, history
    <2>2. files[Target] = files[active] /\ Target \notin temps
      BY <2>1 DEF AttemptSound
    <2>3. TypeOK'
      BY <1>1, <1>2, <2>1, NoFilesType DEF TypeOK, Migrating
    <2>4. HistoryFollows' /\ NoPartialCopyActive'
      BY <2>1, <2>2 DEF HistoryFollows, NoPartialCopyActive
    <2>5. AttemptSound'
      BY <2>1 DEF AttemptSound, NoFiles
    <2>6. QED BY <2>3, <2>4, <2>5
  <1>12. QED
    BY <1>4, <1>5, <1>6, <1>7, <1>8, <1>9, <1>10, <1>11 DEF Migrate

\* Every step preserves the inductive invariant.
LEMMA NextLemma == IInv /\ [Next]_vars => IInv'
  <1> SUFFICES ASSUME IInv, [Next]_vars PROVE IInv' OBVIOUS
  <1> USE DEF IInv
  <1>1. ASSUME NEW s \in Seg, Write(s) PROVE IInv'
    <2>1. /\ pc = "serving" /\ files' = [files EXCEPT ![active][s] = 1]
          /\ recorded' = recorded \cup {s} /\ footage' = [footage EXCEPT ![s] = 1]
          /\ UNCHANGED <<active, pending, error, marker, clutter, temps, pc,
                         inventory, todo, inHand, verified, crashes, faults, tampers>>
      BY <1>1 DEF Write, settings, attempt, counters
    <2>2. TypeOK'
      BY <2>1 DEF TypeOK, Migrating
    <2>3. HistoryFollows' /\ NoPartialCopyActive'
      BY <2>1 DEF TypeOK, HistoryFollows, NoPartialCopyActive
    <2>4. AttemptSound'
      BY <2>1 DEF AttemptSound
    <2>5. QED BY <2>2, <2>3, <2>4
  <1>2. ASSUME NEW s \in Seg, Prune(s) PROVE IInv'
    <2>1. /\ pc = "serving" /\ files' = [files EXCEPT ![active][s] = 0]
          /\ footage' = [footage EXCEPT ![s] = 0]
          /\ UNCHANGED <<active, pending, error, marker, clutter, temps, pc, inventory, todo,
                         inHand, verified, crashes, faults, tampers, recorded>>
      BY <1>2 DEF Prune, settings, attempt, counters
    <2>2. TypeOK'
      BY <2>1 DEF TypeOK, Migrating
    <2>3. HistoryFollows' /\ NoPartialCopyActive'
      BY <2>1 DEF TypeOK, HistoryFollows, NoPartialCopyActive
    <2>4. AttemptSound'
      BY <2>1 DEF AttemptSound
    <2>5. QED BY <2>2, <2>3, <2>4
  <1>3. ASSUME NEW d \in Dir, Configure(d) PROVE IInv'
    <2>1. /\ pc = "serving" /\ pending' = Staged(d) /\ error' = "none"
          /\ UNCHANGED <<active, files, marker, clutter, temps, pc, inventory, todo, inHand,
                         verified, crashes, faults, tampers, recorded, footage>>
      BY <1>3 DEF Configure, disk, attempt, counters, history
    <2>2. TypeOK'
      BY <2>1 DEF TypeOK, Migrating, Staged
    <2>3. HistoryFollows' /\ NoPartialCopyActive' /\ AttemptSound'
      BY <2>1 DEF HistoryFollows, NoPartialCopyActive, AttemptSound, NoFiles
    <2>4. QED BY <2>2, <2>3
  <1>4. CASE Stop \/ Boot
    <2>1. /\ pc' \in {"down", "serving", "prepare"} /\ (pc' = "prepare" => pending # {})
          /\ pc \in {"serving", "down"}
          /\ UNCHANGED <<active, pending, error, files, marker, clutter, temps, inventory, todo,
                         inHand, verified, crashes, faults, tampers, recorded, footage>>
      BY <1>4 DEF Stop, Boot, settings, disk, attempt, counters, history
    <2>2. TypeOK'
      BY <2>1 DEF TypeOK, Migrating
    <2>3. HistoryFollows' /\ NoPartialCopyActive' /\ AttemptSound'
      BY <2>1 DEF HistoryFollows, NoPartialCopyActive, AttemptSound, NoFiles
    <2>4. QED BY <2>2, <2>3
  <1>5. CASE Migrate
    BY <1>5, MigrateLemma
  <1>6. CASE Fault
    <2>1. /\ Migrating /\ UNCHANGED files /\ crashes' = crashes /\ tampers' = tampers
          /\ Fail("directory_refused") \/ Fail("migration_incomplete")
      BY <1>6 DEF Fault
    <2>2. crashes' \in 0..MaxCrashes /\ faults' \in 0..MaxFaults /\ tampers' \in 0..MaxTampers
      BY <1>6, <2>1, BoundAssumption DEF Fault, TypeOK
    <2>3. QED BY <2>1, <2>2, FailLemma
  <1>7. ASSUME NEW d \in Dir, NEW s \in Seg, Tamper(d, s) PROVE IInv'
    <2>1. PICK contents \in {0, 2} : files' = [files EXCEPT ![d][s] = contents]
      BY <1>7 DEF Tamper
    <2>2. /\ pc \notin {"linked", "activate"} /\ tampers < MaxTampers /\ tampers' = tampers + 1
          /\ footage' = IF d = active THEN [footage EXCEPT ![s] = 0] ELSE footage
          /\ recorded' = recorded \cup {s}
          /\ UNCHANGED <<active, pending, error, marker, clutter, temps, pc, inventory, todo,
                         inHand, verified, crashes, faults>>
      BY <1>7 DEF Tamper, settings, attempt
    <2>3. files' \in [Dir -> [Seg -> 0..2]] /\ footage' \in [Seg -> 0..2]
      BY <2>1, <2>2 DEF TypeOK
    <2>4. TypeOK'
      BY <2>2, <2>3, BoundAssumption DEF TypeOK, Migrating
    <2>5. HistoryFollows' /\ NoPartialCopyActive'
      BY <2>1, <2>2 DEF TypeOK, HistoryFollows, NoPartialCopyActive
    <2>6. AttemptSound'
      BY <2>2 DEF AttemptSound, NoFiles
    <2>7. QED BY <2>4, <2>5, <2>6
  <1>8. CASE Crash
    <2>1. /\ crashes < MaxCrashes /\ crashes' = crashes + 1 /\ pc' = "down"
          /\ inventory' = NoFiles /\ todo' = {} /\ inHand' = {} /\ verified' = NoFiles
          /\ UNCHANGED <<active, pending, error, files, marker, clutter, temps, faults,
                         tampers, recorded, footage>>
      BY <1>8 DEF Crash, Cleared, settings, disk, history
    <2>2. TypeOK'
      BY <2>1, NoFilesType, BoundAssumption DEF TypeOK, Migrating
    <2>3. HistoryFollows' /\ NoPartialCopyActive' /\ AttemptSound'
      BY <2>1 DEF HistoryFollows, NoPartialCopyActive, AttemptSound, NoFiles
    <2>4. QED BY <2>2, <2>3
  <1>9. CASE UNCHANGED vars
    <2>1. UNCHANGED <<active, pending, error, files, marker, clutter, temps, pc, inventory,
                      todo, inHand, verified, crashes, faults, tampers, recorded, footage>>
      BY <1>9 DEF vars, settings, disk, attempt, counters, history
    <2>2. TypeOK'
      BY <2>1 DEF TypeOK, Migrating
    <2>3. HistoryFollows' /\ NoPartialCopyActive'
      BY <2>1 DEF HistoryFollows, NoPartialCopyActive
    <2>4. AttemptSound'
      BY <2>1, SameTarget DEF AttemptSound, NoFiles
    <2>5. QED BY <2>2, <2>3, <2>4
  <1>10. QED
    BY <1>1, <1>2, <1>3, <1>4, <1>5, <1>6, <1>7, <1>8, <1>9 DEF Next

-----------------------------------------------------------------------------
\* The inductive invariant holds in every reachable state.
THEOREM Invariance == Spec => []IInv
  BY InitLemma, NextLemma, PTL DEF Spec

\* Every variable has its type (migrate_pending, configure), for any number of
\* directories, segments, crashes, faults and outside changes.
THEOREM Types == Spec => []TypeOK
  <1>1. IInv => TypeOK BY DEF IInv
  <1>2. QED BY <1>1, Invariance, PTL

\* Footage that nobody removed is in the active directory, whatever crashes, failed
\* attempts and completed migrations lie behind (migrate_pending).
THEOREM FootageFollows == Spec => []HistoryFollows
  <1>1. IInv => HistoryFollows BY DEF IInv
  <1>2. QED BY <1>1, Invariance, PTL

\* No directory with a half-written copy becomes active (the activation at the end of
\* migrate_pending).
THEOREM WholeCopiesOnly == Spec => []NoPartialCopyActive
  <1>1. IInv => NoPartialCopyActive BY DEF IInv
  <1>2. QED BY <1>1, Invariance, PTL

\* The directory that becomes active holds exactly the old one's recordings.
THEOREM ExactActivation == Spec => ActivatesExactCopy
  <1>1. IInv /\ [Next]_vars => [active' # active => files[active'] = files[active]]_vars
    <2> SUFFICES ASSUME IInv, Next, active' # active PROVE files[active'] = files[active]
      OBVIOUS
    <2>1. Activate
      BY DEF Next, Migrate, Stop, Boot, Fault, Crash, Configure, Write, Prune, Tamper,
             Prepare, Mark, TakeInventory, Recheck, CopyNext, Link, UnlinkTemporary,
             Fail, settings
    <2>2. QED BY <2>1 DEF Activate, IInv, AttemptSound
  <1>2. QED BY <1>1, Invariance, PTL DEF Spec, ActivatesExactCopy

\* No step of a migration changes or removes a segment of any directory.
THEOREM OriginalsKept == Spec => NothingOverwritten
  <1>1. IInv /\ [Next]_vars =>
          [Migrate => \A d \in Dir, s \in Seg :
              files[d][s] # 0 => files'[d][s] = files[d][s]]_vars
    <2> SUFFICES ASSUME IInv, Migrate, NEW d \in Dir, NEW s \in Seg, files[d][s] # 0
                 PROVE  files'[d][s] = files[d][s]
      OBVIOUS
    <2>1. CASE files' = files BY <2>1
    <2>2. CASE \E r \in Seg : /\ DestinationFree(r)
                              /\ files' = [files EXCEPT ![Target][r] = inventory[r]]
      BY <2>2 DEF DestinationFree, IInv, TypeOK
    <2>3. QED
      BY <2>1, <2>2 DEF Migrate, Prepare, Mark, TakeInventory, Recheck, Activate, CopyNext,
                        Link, UnlinkTemporary, disk
  <1>2. QED BY <1>1, Invariance, PTL DEF Spec, NothingOverwritten

-----------------------------------------------------------------------------
(* Native processes.                                                       *)

\* No process exists.
LEMMA NativeInit == ASSUME Native!NatInit PROVE Native!NatInv
  BY StoppersAssumption
  DEF Native!NatInit, Native!NatInv, Native!NatType, Native!NumberReserved, Native!OneStops,
      Native!JobHolds, Native!NothingForeignStopped, Native!NothingLeftRunning

\* The start of a process, or its abort.
LEMMA NativeMake ==
    ASSUME Native!NatInv,
           Native!CreateJob \/ Native!Spawn \/ Native!Assign \/ Native!OpenGate \/ Native!AbortStart
    PROVE  Native!NatInv'
  <1> USE DEF Native!NatInv, Native!NatType, Native!NumberReserved, Native!OneStops,
      Native!JobHolds, Native!NothingForeignStopped, Native!NothingLeftRunning, Native!tree,
      Native!Aborts
  <1>1. CASE Native!CreateJob BY <1>1 DEF Native!CreateJob
  <1>2. CASE Native!Spawn BY <1>2 DEF Native!Spawn
  <1>3. CASE Native!Assign BY <1>3 DEF Native!Assign
  <1>4. CASE Native!OpenGate BY <1>4 DEF Native!OpenGate
  <1>5. CASE Native!AbortStart BY <1>5 DEF Native!AbortStart
  <1> QED BY <1>1, <1>2, <1>3, <1>4, <1>5

\* What the process, its children and the owner do by themselves.
LEMMA NativeLives ==
    ASSUME Native!NatInv,
           \/ Native!StartsChild \/ Native!ChildExits \/ Native!LeaderExits \/ Native!NumberReused
           \/ Native!OwnerDies \/ Native!Poll
    PROVE  Native!NatInv'
  <1> USE DEF Native!NatInv, Native!NatType, Native!NumberReserved, Native!OneStops,
      Native!JobHolds, Native!NothingForeignStopped, Native!NothingLeftRunning
  <1>1. CASE Native!StartsChild BY <1>1 DEF Native!StartsChild, Native!GateOpened
  <1>2. CASE Native!ChildExits BY <1>2 DEF Native!ChildExits
  <1>3. CASE Native!LeaderExits BY <1>3 DEF Native!LeaderExits
  <1>4. CASE Native!NumberReused BY <1>4 DEF Native!NumberReused
  <1>5. CASE Native!OwnerDies
    <2>1. Native!NatType' /\ Native!NumberReserved'
      <3>1. Native!NumberReserved' BY <1>5 DEF Native!OwnerDies
      <3>2. s8' = s8 \/ s8' = (s8 \/ s5 = "alive")
        BY <1>5 DEF Native!OwnerDies, Native!KilledWithJob
      <3>3. s8' \in BOOLEAN BY ONLY <3>2, s8 \in BOOLEAN
      <3>4. s9' \in {"none", "alive", "dead"} BY <1>5 DEF Native!OwnerDies, Native!KilledWithJob
      <3> QED BY <1>5, <3>1, <3>3, <3>4 DEF Native!OwnerDies
    <2>2. Native!OneStops' BY <1>5 DEF Native!OwnerDies, Native!KilledWithJob
    <2>3. Native!JobHolds' BY <1>5 DEF Native!OwnerDies, Native!KilledWithJob
    <2>4. Native!NothingLeftRunning' BY <1>5 DEF Native!OwnerDies, Native!KilledWithJob
    <2> QED BY <1>5, <2>1, <2>2, <2>3, <2>4 DEF Native!OwnerDies
  <1>6. CASE Native!Poll BY <1>6 DEF Native!Poll, Native!KeepsNumber
  <1> QED BY <1>1, <1>2, <1>3, <1>4, <1>5, <1>6

\* The steps of a caller that stops it.
LEMMA NativeStop ==
    ASSUME Native!NatInv, NEW s \in Stoppers,
           \/ Native!StopBegins(s) \/ Native!StopKills(s) \/ Native!StopRefused(s)
           \/ Native!StopReaps(s) \/ Native!AskAgain(s)
    PROVE  Native!NatInv'
  <1> USE StoppersAssumption
      DEF Native!NatInv, Native!NatType, Native!NumberReserved, Native!OneStops,
      Native!JobHolds, Native!NothingForeignStopped, Native!NothingLeftRunning, Native!tree,
      Native!Goto, Native!Raise
  <1>1. CASE Native!StopBegins(s) BY <1>1 DEF Native!StopBegins, Native!Ready, Native!Signal
  <1>2. CASE Native!StopKills(s) BY <1>2 DEF Native!StopKills, Native!Signal, Native!KilledWithJob
  <1>3. CASE Native!StopRefused(s) BY <1>3 DEF Native!StopRefused
  <1>4. CASE Native!StopReaps(s)
    <2>1. Native!NatType' /\ Native!NumberReserved' BY <1>4 DEF Native!StopReaps
    <2>2. Native!OneStops' BY <1>4 DEF Native!StopReaps
    <2>3. Native!JobHolds' BY <1>4 DEF Native!StopReaps
    <2>4. Native!NothingLeftRunning' BY <1>4 DEF Native!StopReaps
    <2> QED BY <1>4, <2>1, <2>2, <2>3, <2>4 DEF Native!StopReaps
  <1>5. CASE Native!AskAgain(s) BY <1>5 DEF Native!AskAgain
  <1> QED BY <1>1, <1>2, <1>3, <1>4, <1>5

\* Every step of a service keeps its invariant.
LEMMA NativeStep ==
    ASSUME Native!NatInv, [Native!NatNext]_(Native!natvars) PROVE Native!NatInv'
  <1>1. CASE UNCHANGED Native!natvars
    BY <1>1 DEF Native!natvars, Native!tree, Native!NatInv, Native!NatType, Native!NumberReserved,
       Native!OneStops, Native!JobHolds, Native!NothingForeignStopped, Native!NothingLeftRunning
  <1>2. CASE Native!NatNext
    BY Zenon, <1>2, NativeMake, NativeLives, NativeStop DEF Native!NatNext
  <1>3. QED
    BY <1>1, <1>2

-----------------------------------------------------------------------------
(* Reads and snapshots of the provider.                                    *)

\* MediaProvider counts with the same Cardinality.
LEMMA SlotCount == \A S : Provider!Cardinality(S) = Cardinality(S)
  BY Zenon DEF Provider!Cardinality, Cardinality

\* There are finitely many threads to count.
LEMMA ThreadsFinite == IsFiniteSet(Provider!Threads)
  <1>1. 1 \in Int /\ MaxThreads \in Int BY ProviderAssumption
  <1>2. IsFiniteSet(1..MaxThreads) BY <1>1, FS_Interval
  <1> QED BY <1>2 DEF Provider!Threads

\* A thread without a slot in a bounded set of threads can be given the last slot.
LEMMA OneMoreSlot ==
    ASSUME NEW S, S \subseteq Provider!Threads, NEW t \in Provider!Threads,
           Provider!Cardinality(S) < ReadSlots
    PROVE  Provider!Cardinality(S \cup {t}) <= ReadSlots
  <1>1. IsFiniteSet(S)
    BY ThreadsFinite, FS_Subset
  <1>2. Cardinality(S) \in Nat /\ IsFiniteSet(S \cup {t})
        /\ Cardinality(S \cup {t}) \in {Cardinality(S), Cardinality(S) + 1}
    BY <1>1, FS_CardinalityType, FS_AddElement
  <1>3. Cardinality(S \cup {t}) <= ReadSlots
    BY <1>2, SlotCount, ProviderAssumption
  <1> QED BY <1>3, SlotCount

\* A thread that gives its slot back leaves a bounded set.
LEMMA OneLessSlot ==
    ASSUME NEW S, S \subseteq Provider!Threads, NEW t,
           Provider!Cardinality(S) <= ReadSlots
    PROVE  Provider!Cardinality(S \ {t}) <= ReadSlots
  <1>1. IsFiniteSet(S)
    BY ThreadsFinite, FS_Subset
  <1>2. Cardinality(S) \in Nat /\ Cardinality(S \ {t}) \in Nat /\ Cardinality(S \ {t}) <= Cardinality(S)
    BY <1>1, FS_CardinalityType, FS_Subset, FS_RemoveElement
  <1>3. Cardinality(S \ {t}) <= ReadSlots
    BY <1>2, SlotCount, ProviderAssumption
  <1> QED BY <1>3, SlotCount

\* What every step keeps of the threads: the running ones have slots, the slots are bounded.
LEMMA ReadStep ==
    ASSUME Provider!ProvType, Provider!SlotsHeld, NEW a \in Provider!Actors,
           (Provider!Admits /\ Provider!Launched(a)) \/ Provider!NotLaunched(a)
    PROVE  Provider!ReadType' /\ Provider!SlotsHeld' /\ (~Provider!Admits => Provider!Running' = Provider!Running)
  <1>1. CASE Provider!NotLaunched(a)
    BY <1>1 DEF Provider!NotLaunched, Provider!ProvType, Provider!ReadType, Provider!SlotsHeld,
       Provider!Running
  <1>2. CASE Provider!Admits /\ Provider!Launched(a)
    <2>1. PICK t \in Provider!Threads : Provider!Starts(t, a)
      BY <1>2 DEF Provider!Launched, Provider!Fresh
    <2>2. Provider!ReadType' /\ Provider!Running' \subseteq Provider!Running \cup {t}
      BY <2>1 DEF Provider!Starts, Provider!ProvType, Provider!ReadType, Provider!Running
    <2>3. Provider!SlotsHeld'
      BY <2>1, <2>2, <1>2, OneMoreSlot
      DEF Provider!Starts, Provider!ProvType, Provider!ReadType, Provider!SlotsHeld, Provider!Admits
    <2> QED BY <1>2, <2>2, <2>3
  <1> QED BY <1>1, <1>2

\* The bounds, the closing and the shares, as a step that touches only the reads leaves them.
LEMMA ProvInitial == ASSUME Provider!ProvInit PROVE Provider!ProvInv
  <1>1. Provider!Cardinality({}) = 0 BY SlotCount, FS_EmptySet
  <1>2. Provider!ProvType
    BY DEF Provider!ProvInit, Provider!ProvType, Provider!ReadType
  <1>3. Provider!Running = {}
    BY DEF Provider!ProvInit, Provider!Running
  <1>4. Provider!SlotsHeld
    BY <1>1, <1>3, ProviderAssumption DEF Provider!ProvInit, Provider!SlotsHeld
  <1> QED BY <1>2, <1>3, <1>4
     DEF Provider!ProvInit, Provider!ProvInv, Provider!ReadsOwned, Provider!JoinHolds, Provider!SharesLive,
         Provider!SnapshotsFresh

\* The slots and the join make what a caller may rely on.
LEMMA OwnedFromJoin ==
    ASSUME Provider!SlotsHeld', Provider!JoinHolds', Provider!ProvType'
    PROVE  Provider!ReadsOwned'
  BY DEF Provider!ReadsOwned, Provider!JoinHolds

\* A returned thread runs no more.
LEMMA KeepThreadReturns ==
    ASSUME Provider!ProvInv, NEW t \in Provider!Threads, Provider!ThreadReturns(t)
    PROVE  Provider!ProvInv'
  <1> USE DEF Provider!ProvInv, Provider!ProvType, Provider!ThreadReturns, Provider!snapvars, Provider!closevars, Provider!readervars
  <1>1. Provider!ProvType'
    BY DEF Provider!ReadType
  <1>2. Provider!SlotsHeld' /\ Provider!Running' \subseteq Provider!Running
    BY DEF Provider!ReadType, Provider!ReadsOwned, Provider!SlotsHeld, Provider!Running
  <1>3. Provider!JoinHolds'
    BY <1>2 DEF Provider!ReadsOwned, Provider!SlotsHeld, Provider!JoinHolds
  <1>4. Provider!SharesLive' /\ Provider!SnapshotsFresh'
    BY DEF Provider!SharesLive, Provider!SnapshotsFresh
  <1> QED BY <1>1, <1>2, <1>3, <1>4, OwnedFromJoin

\* A slot is given back by a thread that has returned.
LEMMA KeepCompleted ==
    ASSUME Provider!ProvInv, NEW t \in Provider!Threads, Provider!Completed(t)
    PROVE  Provider!ProvInv'
  <1> USE DEF Provider!ProvInv, Provider!ProvType, Provider!Completed, Provider!snapvars, Provider!closevars, Provider!readervars
  <1>1. Provider!ProvType'
    BY DEF Provider!ReadType
  <1>2. Provider!SlotsHeld' /\ Provider!Running' = Provider!Running
    BY OneLessSlot DEF Provider!ReadType, Provider!ReadsOwned, Provider!SlotsHeld, Provider!Running
  <1>3. Provider!JoinHolds'
    BY <1>2 DEF Provider!ReadsOwned, Provider!SlotsHeld, Provider!JoinHolds
  <1>4. Provider!SharesLive' /\ Provider!SnapshotsFresh'
    BY DEF Provider!SharesLive, Provider!SnapshotsFresh
  <1> QED BY <1>1, <1>2, <1>3, <1>4, OwnedFromJoin

\* A request is admitted or refused.
LEMMA KeepCall ==
    ASSUME Provider!ProvInv, NEW r \in Readers, NEW g \in {"info", "read"}, Provider!Call(r, g)
    PROVE  Provider!ProvInv'
  <1> USE DEF Provider!Call, Provider!Idle, Provider!Waits
  <1>0. Provider!R(r) \in Provider!Actors
    BY DEF Provider!Actors, Provider!R, Provider!T, Provider!Tasks
  <1>1. (Provider!Admits /\ Provider!Launched(Provider!R(r))) \/ Provider!NotLaunched(Provider!R(r))
    BY DEF Provider!R, Provider!T
  <1>2. Provider!ReadType' /\ Provider!SlotsHeld' /\ (~Provider!Admits => Provider!Running' = Provider!Running)
    BY <1>0, <1>1, ReadStep DEF Provider!ProvInv, Provider!ReadsOwned
  <1>3. Provider!ProvType'
    BY <1>2 DEF Provider!ProvInv, Provider!ProvType, Provider!snapvars, Provider!closevars,
       Provider!readervars
  <1>4. Provider!JoinHolds'
    BY <1>2 DEF Provider!ProvInv, Provider!ProvType, Provider!JoinHolds, Provider!Admits,
       Provider!snapvars, Provider!closevars, Provider!readervars
  <1>5. Provider!SharesLive' /\ Provider!SnapshotsFresh'
    BY DEF Provider!ProvInv, Provider!ProvType, Provider!SharesLive, Provider!SnapshotsFresh,
       Provider!snapvars, Provider!closevars, Provider!readervars
  <1> QED BY <1>2, <1>3, <1>4, <1>5, OwnedFromJoin DEF Provider!ProvInv

\* An answer may lead to the second request.
LEMMA KeepAnswered ==
    ASSUME Provider!ProvInv, NEW r \in Readers, Provider!Answered(r)
    PROVE  Provider!ProvInv'
  <1> USE DEF Provider!Answered, Provider!Idle, Provider!Waits
  <1>0. Provider!R(r) \in Provider!Actors
    BY DEF Provider!Actors, Provider!R, Provider!T, Provider!Tasks
  <1>1. (Provider!Admits /\ Provider!Launched(Provider!R(r))) \/ Provider!NotLaunched(Provider!R(r))
    BY DEF Provider!R, Provider!T
  <1>2. Provider!ReadType' /\ Provider!SlotsHeld' /\ (~Provider!Admits => Provider!Running' = Provider!Running)
    BY <1>0, <1>1, ReadStep DEF Provider!ProvInv, Provider!ReadsOwned
  <1>3. Provider!ProvType'
    BY <1>2 DEF Provider!ProvInv, Provider!ProvType, Provider!snapvars, Provider!closevars,
       Provider!readervars
  <1>4. Provider!JoinHolds'
    BY <1>2 DEF Provider!ProvInv, Provider!ProvType, Provider!JoinHolds, Provider!Admits,
       Provider!snapvars, Provider!closevars, Provider!readervars
  <1>5. Provider!SharesLive' /\ Provider!SnapshotsFresh'
    BY DEF Provider!ProvInv, Provider!ProvType, Provider!SharesLive, Provider!SnapshotsFresh,
       Provider!snapvars, Provider!closevars, Provider!readervars
  <1> QED BY <1>2, <1>3, <1>4, <1>5, OwnedFromJoin DEF Provider!ProvInv

\* A caller that gives up leaves the slot to the thread.
LEMMA KeepGivesUp ==
    ASSUME Provider!ProvInv, NEW r \in Readers, Provider!GivesUp(r)
    PROVE  Provider!ProvInv'
  <1> USE DEF Provider!ProvInv, Provider!GivesUp, Provider!Idle, Provider!KeepsSlot, Provider!Actors, Provider!R, Provider!snapvars, Provider!closevars, Provider!readervars
  <1>1. Provider!ProvType'
    BY DEF Provider!ProvType, Provider!ReadType
  <1>2. Provider!SlotsHeld' /\ Provider!Running' = Provider!Running
    BY DEF Provider!ReadsOwned, Provider!SlotsHeld, Provider!Running
  <1>3. Provider!JoinHolds'
    BY <1>2 DEF Provider!ProvType, Provider!ReadsOwned, Provider!SlotsHeld, Provider!JoinHolds
  <1>4. Provider!SharesLive' /\ Provider!SnapshotsFresh'
    BY DEF Provider!ProvType, Provider!SharesLive, Provider!SnapshotsFresh
  <1> QED BY <1>1, <1>2, <1>3, <1>4, OwnedFromJoin

\* A snapshot is shared or begun.
LEMMA KeepSnapshot ==
    ASSUME Provider!ProvInv, NEW r \in Readers, NEW s \in Selections, Provider!Snapshot(r, s)
    PROVE  Provider!ProvInv'
  <1> USE DEF Provider!ProvInv, Provider!Snapshot, Provider!Over, Provider!NewTasks, Provider!snapvars, Provider!closevars, Provider!readervars
  <1>1. Provider!ProvType'
    BY DEF Provider!ProvType, Provider!ReadType
  <1>2. Provider!SlotsHeld' /\ Provider!Running' = Provider!Running
    BY DEF Provider!ReadsOwned, Provider!SlotsHeld, Provider!Running
  <1>3. Provider!JoinHolds'
    BY <1>2 DEF Provider!ProvType, Provider!ReadsOwned, Provider!SlotsHeld, Provider!JoinHolds
  <1>4. Provider!SharesLive' /\ Provider!SnapshotsFresh'
    BY DEF Provider!ProvType, Provider!SharesLive, Provider!SnapshotsFresh
  <1> QED BY <1>1, <1>2, <1>3, <1>4, OwnedFromJoin

\* A reader is given what it shared.
LEMMA KeepShared ==
    ASSUME Provider!ProvInv, NEW r \in Readers, Provider!Shared(r)
    PROVE  Provider!ProvInv'
  <1> USE DEF Provider!ProvInv, Provider!Shared, Provider!Idle, Provider!snapvars, Provider!closevars, Provider!readervars
  <1>1. Provider!ProvType'
    BY DEF Provider!ProvType, Provider!ReadType
  <1>2. Provider!SlotsHeld' /\ Provider!Running' = Provider!Running
    BY DEF Provider!ReadsOwned, Provider!SlotsHeld, Provider!Running
  <1>3. Provider!JoinHolds'
    BY <1>2 DEF Provider!ProvType, Provider!ReadsOwned, Provider!SlotsHeld, Provider!JoinHolds
  <1>4. Provider!SharesLive' /\ Provider!SnapshotsFresh'
    BY DEF Provider!ProvType, Provider!SharesLive, Provider!SnapshotsFresh
  <1> QED BY <1>1, <1>2, <1>3, <1>4, OwnedFromJoin

\* A reader leaves a task to the others.
LEMMA KeepLeavesShared ==
    ASSUME Provider!ProvInv, NEW r \in Readers, Provider!LeavesShared(r)
    PROVE  Provider!ProvInv'
  <1> USE DEF Provider!ProvInv, Provider!LeavesShared, Provider!Idle, Provider!snapvars, Provider!closevars, Provider!readervars
  <1>1. Provider!ProvType'
    BY DEF Provider!ProvType, Provider!ReadType
  <1>2. Provider!SlotsHeld' /\ Provider!Running' = Provider!Running
    BY DEF Provider!ReadsOwned, Provider!SlotsHeld, Provider!Running
  <1>3. Provider!JoinHolds'
    BY <1>2 DEF Provider!ProvType, Provider!ReadsOwned, Provider!SlotsHeld, Provider!JoinHolds
  <1>4. Provider!SharesLive' /\ Provider!SnapshotsFresh'
    BY DEF Provider!ProvType, Provider!SharesLive, Provider!SnapshotsFresh
  <1> QED BY <1>1, <1>2, <1>3, <1>4, OwnedFromJoin

\* A task sends its first request.
LEMMA KeepTaskStarts ==
    ASSUME Provider!ProvInv, NEW n \in Provider!Tasks, Provider!TaskStarts(n)
    PROVE  Provider!ProvInv'
  <1> USE DEF Provider!TaskStarts, Provider!TaskGets, Provider!TaskMoves
  <1>0. Provider!T(n) \in Provider!Actors
    BY DEF Provider!Actors, Provider!R, Provider!T, Provider!Tasks
  <1>1. (Provider!Admits /\ Provider!Launched(Provider!T(n))) \/ Provider!NotLaunched(Provider!T(n))
    BY DEF Provider!R, Provider!T
  <1>2. Provider!ReadType' /\ Provider!SlotsHeld' /\ (~Provider!Admits => Provider!Running' = Provider!Running)
    BY <1>0, <1>1, ReadStep DEF Provider!ProvInv, Provider!ReadsOwned
  <1>3. Provider!ProvType'
    BY <1>2 DEF Provider!ProvInv, Provider!ProvType, Provider!snapvars, Provider!closevars,
       Provider!readervars
  <1>4. Provider!JoinHolds'
    BY <1>2 DEF Provider!ProvInv, Provider!ProvType, Provider!JoinHolds, Provider!Admits,
       Provider!snapvars, Provider!closevars, Provider!readervars
  <1>5. Provider!SharesLive' /\ Provider!SnapshotsFresh'
    BY DEF Provider!ProvInv, Provider!ProvType, Provider!SharesLive, Provider!SnapshotsFresh,
       Provider!snapvars, Provider!closevars, Provider!readervars
  <1> QED BY <1>2, <1>3, <1>4, <1>5, OwnedFromJoin DEF Provider!ProvInv

\* A task sends its next request or ends.
LEMMA KeepTaskAnswered ==
    ASSUME Provider!ProvInv, NEW n \in Provider!Tasks, Provider!TaskAnswered(n)
    PROVE  Provider!ProvInv'
  <1>0. Provider!T(n) \in Provider!Actors
    BY DEF Provider!Actors, Provider!R, Provider!T, Provider!Tasks
  <1>1. (Provider!Admits /\ Provider!Launched(Provider!T(n))) \/ Provider!NotLaunched(Provider!T(n))
    BY DEF Provider!TaskAnswered, Provider!TaskGets, Provider!TaskMoves, Provider!TaskFails,
       Provider!R, Provider!T
  <1>2. Provider!ReadType' /\ Provider!SlotsHeld' /\ (~Provider!Admits => Provider!Running' = Provider!Running)
    BY <1>0, <1>1, ReadStep DEF Provider!ProvInv, Provider!ReadsOwned
  <1>3. Provider!ProvType'
    <2>1. UNCHANGED <<s1, s5, s8, s10, s11, s12, s13, s14, s15, s16, s17>>
      BY DEF Provider!TaskAnswered, Provider!readervars, Provider!closevars
    <2>2. s2' \in BOOLEAN
      BY Zenon DEF Provider!TaskAnswered, Provider!ProvInv, Provider!ProvType
    <2>3. \E to \in {"states", "configs", "done"} : s6' = [s6 EXCEPT ![n] = to]
      BY DEF Provider!TaskAnswered, Provider!TaskGets, Provider!TaskMoves,
         Provider!TaskFails
    <2>4. s7' = s7 \/ s7' = [s7 EXCEPT ![n] = TRUE]
      BY DEF Provider!TaskAnswered, Provider!TaskGets, Provider!TaskMoves,
         Provider!TaskFails
    <2>5. s7' \in [Provider!Tasks -> BOOLEAN]
      BY <2>4 DEF Provider!ProvInv, Provider!ProvType
    <2>6. QED
      BY <1>2, <2>1, <2>2, <2>3, <2>5 DEF Provider!ProvInv, Provider!ProvType
  <1>4. Provider!JoinHolds'
    BY <1>2 DEF Provider!ProvInv, Provider!ProvType, Provider!JoinHolds, Provider!Admits,
       Provider!TaskAnswered, Provider!TaskGets, Provider!TaskMoves, Provider!TaskFails,
       Provider!snapvars, Provider!closevars, Provider!readervars
  <1>5. Provider!SharesLive' /\ Provider!SnapshotsFresh'
    BY DEF Provider!ProvInv, Provider!ProvType, Provider!SharesLive, Provider!SnapshotsFresh,
       Provider!TaskAnswered, Provider!TaskGets, Provider!TaskMoves, Provider!TaskFails,
       Provider!snapvars, Provider!closevars, Provider!readervars
  <1> QED BY <1>2, <1>3, <1>4, <1>5, OwnedFromJoin DEF Provider!ProvInv

\* A task that times out leaves the slot to the thread.
LEMMA KeepTaskTimesOut ==
    ASSUME Provider!ProvInv, NEW n \in Provider!Tasks, Provider!TaskTimesOut(n)
    PROVE  Provider!ProvInv'
  <1> USE DEF Provider!ProvInv, Provider!TaskTimesOut, Provider!TaskMoves, Provider!KeepsSlot, Provider!Actors, Provider!T, Provider!snapvars, Provider!closevars, Provider!readervars
  <1>1. Provider!ProvType'
    BY DEF Provider!ProvType, Provider!ReadType
  <1>2. Provider!SlotsHeld' /\ Provider!Running' = Provider!Running
    BY DEF Provider!ReadsOwned, Provider!SlotsHeld, Provider!Running
  <1>3. Provider!JoinHolds'
    BY <1>2 DEF Provider!ProvType, Provider!ReadsOwned, Provider!SlotsHeld, Provider!JoinHolds
  <1>4. Provider!SharesLive' /\ Provider!SnapshotsFresh'
    BY DEF Provider!ProvType, Provider!SharesLive, Provider!SnapshotsFresh
  <1> QED BY <1>1, <1>2, <1>3, <1>4, OwnedFromJoin

\* A task that is over is no longer shared.
LEMMA KeepSnapshotCompleted ==
    ASSUME Provider!ProvInv, NEW n \in Provider!Tasks, Provider!SnapshotCompleted(n)
    PROVE  Provider!ProvInv'
  <1> USE DEF Provider!ProvInv, Provider!SnapshotCompleted, Provider!TaskMoves, Provider!Forgotten, Provider!snapvars, Provider!closevars, Provider!readervars
  <1>1. Provider!ProvType'
    BY DEF Provider!ProvType, Provider!ReadType
  <1>2. Provider!SlotsHeld' /\ Provider!Running' = Provider!Running
    BY DEF Provider!ReadsOwned, Provider!SlotsHeld, Provider!Running
  <1>3. Provider!JoinHolds'
    BY <1>2 DEF Provider!ProvType, Provider!ReadsOwned, Provider!SlotsHeld, Provider!JoinHolds
  <1>4. Provider!SharesLive' /\ Provider!SnapshotsFresh'
    BY DEF Provider!ProvType, Provider!SharesLive, Provider!SnapshotsFresh
  <1> QED BY <1>1, <1>2, <1>3, <1>4, OwnedFromJoin

\* The close cancels a task, not its thread.
LEMMA KeepCancelTask ==
    ASSUME Provider!ProvInv, NEW n \in Provider!Tasks, Provider!CancelTask(n)
    PROVE  Provider!ProvInv'
  <1> USE DEF Provider!ProvInv, Provider!CancelTask, Provider!TaskMoves, Provider!Actors, Provider!T, Provider!snapvars, Provider!closevars, Provider!readervars
  <1>1. Provider!ProvType'
    BY DEF Provider!ProvType, Provider!ReadType
  <1>2. Provider!SlotsHeld' /\ Provider!Running' = Provider!Running
    BY DEF Provider!ReadsOwned, Provider!SlotsHeld, Provider!Running
  <1>3. Provider!JoinHolds'
    BY <1>2 DEF Provider!ProvType, Provider!ReadsOwned, Provider!SlotsHeld, Provider!JoinHolds
  <1>4. Provider!SharesLive' /\ Provider!SnapshotsFresh'
    BY DEF Provider!ProvType, Provider!SharesLive, Provider!SnapshotsFresh
  <1> QED BY <1>1, <1>2, <1>3, <1>4, OwnedFromJoin

\* A close refuses what comes after it.
LEMMA KeepClose ==
    ASSUME Provider!ProvInv, NEW k \in Closers, Provider!Close(k)
    PROVE  Provider!ProvInv'
  <1> USE DEF Provider!ProvInv, Provider!Close, Provider!snapvars, Provider!closevars, Provider!readervars
  <1>1. Provider!ProvType'
    BY DEF Provider!ProvType, Provider!ReadType
  <1>2. Provider!SlotsHeld' /\ Provider!Running' = Provider!Running
    BY DEF Provider!ReadsOwned, Provider!SlotsHeld, Provider!Running
  <1>3. Provider!JoinHolds'
    BY <1>2 DEF Provider!ProvType, Provider!ReadsOwned, Provider!SlotsHeld, Provider!JoinHolds
  <1>4. Provider!SharesLive' /\ Provider!SnapshotsFresh'
    BY DEF Provider!ProvType, Provider!SharesLive, Provider!SnapshotsFresh
  <1> QED BY <1>1, <1>2, <1>3, <1>4, OwnedFromJoin

\* A cancelled close goes on waiting.
LEMMA KeepInterrupt ==
    ASSUME Provider!ProvInv, NEW k \in Closers, Provider!Interrupt(k)
    PROVE  Provider!ProvInv'
  <1> USE DEF Provider!ProvInv, Provider!Interrupt, Provider!WaitsOn, Provider!snapvars, Provider!closevars, Provider!readervars
  <1>1. Provider!ProvType'
    BY DEF Provider!ProvType, Provider!ReadType
  <1>2. Provider!SlotsHeld' /\ Provider!Running' = Provider!Running
    BY DEF Provider!ReadsOwned, Provider!SlotsHeld, Provider!Running
  <1>3. Provider!JoinHolds'
    BY <1>2 DEF Provider!ProvType, Provider!ReadsOwned, Provider!SlotsHeld, Provider!JoinHolds
  <1>4. Provider!SharesLive' /\ Provider!SnapshotsFresh'
    BY DEF Provider!ProvType, Provider!SharesLive, Provider!SnapshotsFresh
  <1> QED BY <1>1, <1>2, <1>3, <1>4, OwnedFromJoin

\* A close ends when the join has.
LEMMA KeepCloseReturns ==
    ASSUME Provider!ProvInv, NEW k \in Closers, Provider!CloseReturns(k)
    PROVE  Provider!ProvInv'
  <1> USE DEF Provider!ProvInv, Provider!CloseReturns, Provider!snapvars, Provider!closevars, Provider!readervars
  <1>1. Provider!ProvType'
    BY DEF Provider!ProvType, Provider!ReadType
  <1>2. Provider!SlotsHeld' /\ Provider!Running' = Provider!Running
    BY DEF Provider!ReadsOwned, Provider!SlotsHeld, Provider!Running
  <1>3. Provider!JoinHolds'
    BY <1>2 DEF Provider!ProvType, Provider!ReadsOwned, Provider!SlotsHeld, Provider!JoinHolds
  <1>4. Provider!SharesLive' /\ Provider!SnapshotsFresh'
    BY DEF Provider!ProvType, Provider!SharesLive, Provider!SnapshotsFresh
  <1> QED BY <1>1, <1>2, <1>3, <1>4, OwnedFromJoin

\* The join takes every thread with a slot.
LEMMA KeepJoinsReads ==
    ASSUME Provider!ProvInv, Provider!JoinsReads
    PROVE  Provider!ProvInv'
  <1> USE DEF Provider!ProvInv, Provider!JoinsReads, Provider!snapvars, Provider!closevars, Provider!readervars
  <1>1. Provider!ProvType'
    BY DEF Provider!ProvType, Provider!ReadType
  <1>2. Provider!SlotsHeld' /\ Provider!Running' = Provider!Running
    BY DEF Provider!ReadsOwned, Provider!SlotsHeld, Provider!Running
  <1>3. Provider!JoinHolds'
    BY <1>2 DEF Provider!ProvType, Provider!ReadsOwned, Provider!SlotsHeld, Provider!JoinHolds
  <1>4. Provider!SharesLive' /\ Provider!SnapshotsFresh'
    BY DEF Provider!ProvType, Provider!SharesLive, Provider!SnapshotsFresh
  <1> QED BY <1>1, <1>2, <1>3, <1>4, OwnedFromJoin

\* The join is over when its threads have returned.
LEMMA KeepJoined ==
    ASSUME Provider!ProvInv, Provider!Joined
    PROVE  Provider!ProvInv'
  <1> USE DEF Provider!ProvInv, Provider!Joined, Provider!Running, Provider!snapvars, Provider!closevars, Provider!readervars
  <1>1. Provider!ProvType'
    BY DEF Provider!ProvType, Provider!ReadType
  <1>2. Provider!SlotsHeld' /\ Provider!Running' = Provider!Running
    BY DEF Provider!ReadsOwned, Provider!SlotsHeld
  <1>3. Provider!JoinHolds'
    BY <1>2 DEF Provider!ProvType, Provider!ReadsOwned, Provider!SlotsHeld, Provider!JoinHolds
  <1>4. Provider!SharesLive' /\ Provider!SnapshotsFresh'
    BY DEF Provider!ProvType, Provider!SharesLive, Provider!SnapshotsFresh
  <1> QED BY <1>1, <1>2, <1>3, <1>4, OwnedFromJoin

\* Every step of the provider keeps its invariant.
LEMMA ProviderStep == ASSUME Provider!ProvInv, [Provider!ProvNext]_(Provider!provvars) PROVE Provider!ProvInv'
  <1>1. CASE UNCHANGED Provider!provvars
    BY <1>1 DEF Provider!provvars, Provider!snapvars, Provider!closevars, Provider!readervars,
       Provider!ProvInv,
       Provider!ProvType, Provider!ReadType, Provider!SlotsHeld, Provider!ReadsOwned, Provider!JoinHolds,
       Provider!SharesLive, Provider!SnapshotsFresh, Provider!Running
  <1>2. CASE Provider!ProvNext
    BY <1>2, KeepThreadReturns, KeepCompleted, KeepCall, KeepAnswered, KeepGivesUp, KeepSnapshot,
       KeepShared,
       KeepLeavesShared, KeepTaskStarts, KeepTaskAnswered, KeepTaskTimesOut, KeepSnapshotCompleted,
       KeepCancelTask, KeepClose, KeepInterrupt, KeepCloseReturns, KeepJoinsReads, KeepJoined
    DEF Provider!ProvNext
  <1> QED BY <1>1, <1>2

-----------------------------------------------------------------------------
(* Delivery of a multi-view run.                                           *)

\* Nothing was delivered.
LEMMA DeliveryInit == ASSUME Delivery!DelInit PROVE Delivery!DelInv
  BY DeliveryAssumption
  DEF Delivery!DelInit, Delivery!DelInv, Delivery!DelType, Delivery!OneConsumes, Delivery!BackendsOwned,
      Delivery!NativeExclusive

\* The threads: what they run under, and what they leave.
LEMMA DeliveryThreads ==
    ASSUME Delivery!DelInv, NEW s \in Slots,
           \/ Delivery!Made(s) \/ Delivery!PullEnters(s) \/ Delivery!PullReturns(s)
           \/ Delivery!CloseEnters(s) \/ Delivery!CloseReturns(s)
    PROVE  Delivery!DelInv'
  <1> USE DEF Delivery!DelInv, Delivery!DelType, Delivery!OneConsumes, Delivery!BackendsOwned,
              Delivery!NativeExclusive, Delivery!taskvars, Delivery!NativeLockFree
  <1>1. CASE Delivery!Made(s) BY <1>1 DEF Delivery!Made
  <1>2. CASE Delivery!PullEnters(s) BY <1>2 DEF Delivery!PullEnters
  <1>3. CASE Delivery!PullReturns(s) BY <1>3 DEF Delivery!PullReturns
  <1>4. CASE Delivery!CloseEnters(s) BY <1>4 DEF Delivery!CloseEnters
  <1>5. CASE Delivery!CloseReturns(s) BY <1>5 DEF Delivery!CloseReturns
  <1> QED BY <1>1, <1>2, <1>3, <1>4, <1>5

\* The task of one slot.
LEMMA DeliveryTask ==
    ASSUME Delivery!DelInv, NEW s \in Slots,
           \/ Delivery!Begin(s) \/ Delivery!OpenFails(s) \/ Delivery!Opened(s) \/ Delivery!Pulled(s)
           \/ Delivery!Deliver(s) \/ Delivery!Consumed(s) \/ Delivery!ConsumerFails(s)
           \/ Delivery!Closed(s)
    PROVE  Delivery!DelInv'
  <1> USE DeliveryAssumption
      DEF Delivery!DelInv, Delivery!DelType, Delivery!OneConsumes, Delivery!BackendsOwned,
          Delivery!NativeExclusive, Delivery!Goto, Delivery!Pulling, Delivery!Closing
  <1>1. CASE Delivery!Begin(s) BY <1>1 DEF Delivery!Begin
  <1>2. CASE Delivery!OpenFails(s) BY <1>2 DEF Delivery!OpenFails
  <1>3. CASE Delivery!Opened(s) BY <1>3 DEF Delivery!Opened
  <1>4. CASE Delivery!Pulled(s) BY <1>4 DEF Delivery!Pulled
  <1>5. CASE Delivery!Deliver(s)
    BY <1>5 DEF Delivery!Deliver, Delivery!ConsumerLockFree, Delivery!Consuming
  <1>6. CASE Delivery!Consumed(s) BY <1>6 DEF Delivery!Consumed
  <1>7. CASE Delivery!ConsumerFails(s) BY <1>7 DEF Delivery!ConsumerFails
  <1>8. CASE Delivery!Closed(s) BY <1>8 DEF Delivery!Closed, Delivery!nativevars
  <1> QED BY <1>1, <1>2, <1>3, <1>4, <1>5, <1>6, <1>7, <1>8


\* The run.
LEMMA DeliveryRun ==
    ASSUME Delivery!DelInv,
           \/ Delivery!RunStarts \/ Delivery!TaskFailed \/ Delivery!CancelRun \/ Delivery!CancelAgain
           \/ Delivery!RunEnds
    PROVE  Delivery!DelInv'
  <1> USE DEF Delivery!DelInv, Delivery!DelType, Delivery!OneConsumes, Delivery!BackendsOwned,
              Delivery!NativeExclusive, Delivery!taskvars, Delivery!nativevars
  <1>1. CASE Delivery!RunStarts BY <1>1 DEF Delivery!RunStarts
  <1>2. CASE Delivery!TaskFailed
    BY <1>2 DEF Delivery!TaskFailed, Delivery!CancelTasks, Delivery!InLoop
  <1>3. CASE Delivery!CancelRun
    BY <1>3 DEF Delivery!CancelRun, Delivery!CancelTasks, Delivery!InLoop
  <1>4. CASE Delivery!CancelAgain
    BY <1>4 DEF Delivery!CancelAgain, Delivery!CancelTasks, Delivery!InLoop
  <1>5. CASE Delivery!RunEnds BY <1>5 DEF Delivery!RunEnds, Delivery!TasksDone, Delivery!Gathered
  <1> QED BY <1>1, <1>2, <1>3, <1>4, <1>5

\* Every step of a delivery run keeps its invariant.
LEMMA DeliveryStep ==
    ASSUME Delivery!DelInv, [Delivery!DelNext]_(Delivery!delvars) PROVE Delivery!DelInv'
  <1>1. CASE UNCHANGED Delivery!delvars
    BY <1>1 DEF Delivery!delvars, Delivery!taskvars, Delivery!nativevars, Delivery!DelInv,
       Delivery!DelType, Delivery!OneConsumes, Delivery!BackendsOwned, Delivery!NativeExclusive
  <1>2. CASE Delivery!DelNext
    BY <1>2, DeliveryThreads, DeliveryTask, DeliveryRun DEF Delivery!DelNext
  <1> QED BY <1>1, <1>2

\* What the invariant says of a run.
LEMMA DeliveryClean ==
    ASSUME Delivery!DelInv
    PROVE  Delivery!RunLeavesNothing /\ Delivery!FrameBoundKept /\ Delivery!NativeExclusive
  <1>1. Delivery!RunLeavesNothing /\ Delivery!NativeExclusive
    BY DEF Delivery!DelInv, Delivery!BackendsOwned, Delivery!RunLeavesNothing
  <1>2. Delivery!Consuming = {} \/ \E s \in Slots : Delivery!Consuming = {s}
    BY DEF Delivery!DelInv, Delivery!OneConsumes, Delivery!Consuming
  <1>3. \A S : Delivery!Cardinality(S) = Cardinality(S)
    BY Zenon DEF Delivery!Cardinality, Cardinality
  <1>4. Cardinality(Delivery!Consuming) \in {0, 1}
    BY <1>2, FS_EmptySet, FS_Singleton
  <1>5. Delivery!FrameBoundKept
    BY <1>3, <1>4 DEF Delivery!DelInv, Delivery!OneConsumes, Delivery!FrameBoundKept
  <1> QED BY <1>1, <1>5

-----------------------------------------------------------------------------
(* The live view.                                                          *)

\* No run of a view.
LEMMA ViewBegins == ASSUME View!ViewInit PROVE View!ViewInv
  BY DEF View!ViewInit, View!ViewInv, View!ViewType, View!OneCall, View!Busy, View!ThreadsServe,
         View!LeasesSeeTheirSource, View!BoundaryTracksSession

\* A new thread, field by field, and what becomes of it.
LEMMA NewThread ==
    ASSUME View!ViewType, NEW k \in {"start", "stop"}, NEW s \in Sources \cup {0},
           NEW c \in Consumers, NEW t, t = View!Thread(k, s, c), s11' = s11 + 1
    PROVE  t \in View!Threads' /\ t.owner = c /\ t.kind = k /\ t.src = s /\ t.at = "begin"
  BY DEF View!Thread, View!Threads, View!ViewType
\* A thread of a view that moves stays the thread it was.
LEMMA MovedThread ==
    ASSUME View!ViewType, NEW t \in View!Threads, NEW at \in {"begin", "make", "end"}, NEW ok \in BOOLEAN,
           NEW u, u = View!Now(t, at, ok)
    PROVE  u \in View!Threads /\ u.owner = t.owner /\ u.kind = t.kind /\ u.src = t.src /\ u.at = at
           /\ u.ok = ok /\ u.id = t.id
  BY DEF View!Now, View!Threads, View!ViewType

\* Unless a call was given up, a thread serves the one call that waits.
LEMMA ThreadOfCall ==
    ASSUME View!ViewInv, ~s13, NEW t \in s10
    PROVE  \E c \in Consumers : View!Busy(c) /\ s10 = {t} /\ t \in View!Threads /\ View!Serves(t, c)
  <1>1. View!ThreadsServe /\ View!ViewType
    BY Zenon DEF View!ViewInv
  <1> QED BY <1>1 DEF View!ViewType, View!ThreadsServe, View!Quiet, View!Busy

\* What the pipeline does concerns no lease and no call's state.
LEMMA ViewThreads ==
    ASSUME View!ViewInv, NEW t \in s10, View!StartLooks(t) \/ View!StartMakes(t) \/ View!StopCloses(t)
    PROVE  View!ViewInv'
  <1>1. UNCHANGED <<s1, s2, s3, s4, s5, s6, s7, s11, s12, s13>>
    BY DEF View!StartLooks, View!StartMakes, View!StopCloses
  <1>2. View!ViewType' /\ View!OneCall' /\ View!BoundaryTracksSession'
    BY <1>1 DEF View!ViewInv, View!ViewType, View!OneCall, View!Busy, View!BoundaryTracksSession,
       View!Quiet
  <1>3. ASSUME ~s13 PROVE View!ThreadsServe' /\ ~View!Quiet /\ ~View!Quiet'
    <2>1. PICK c \in Consumers : View!Busy(c) /\ s10 = {t} /\ t \in View!Threads /\ View!Serves(t, c)
      BY <1>3, ThreadOfCall
    <2>2. ~View!Quiet /\ ~View!Quiet'
      BY <1>1, <2>1 DEF View!Quiet, View!Busy
    <2>3. View!ThreadsServe /\ View!ViewType /\ View!OneCall
      BY Zenon, <1>3 DEF View!ViewInv
    <2>4. \A d \in Consumers : View!Busy(d)' => d = c
      BY <1>1, <2>1, <2>3 DEF View!OneCall, View!Busy
    <2>5. View!Threads' = View!Threads /\ t.owner = c /\ c # 0 /\ t.ok \in BOOLEAN
      BY <1>1, <2>1, ViewAssumption DEF View!Threads, View!Serves
    <2>6. CASE View!StartLooks(t)
      <3>1. PICK u : u = View!Now(t, "make", t.ok)
        OBVIOUS
      <3>2. u \in View!Threads /\ u.owner = c /\ u.kind = t.kind /\ u.src = t.src /\ u.at = "make"
        <4>1. u \in View!Threads /\ u.owner = t.owner /\ u.kind = t.kind /\ u.src = t.src /\ u.at = "make"
          BY ONLY <2>1, <3>1 DEF View!Now, View!Threads
        <4> QED BY Zenon, <2>5, <4>1
      <3>3. t.kind = "start" /\ t.at = "begin" /\ s8 = View!None /\ s1[c] = "start" /\ t.src = s3[c]
        BY <2>1, <2>6 DEF View!StartLooks, View!Serves, View!Busy
      <3>4. s10' = {u} /\ s8' = s8 /\ s9' = s9
        BY <2>1, <2>6, <3>1, <3>3 DEF View!StartLooks, View!Moved
      <3>5. View!Serves(u, c)'
        BY <1>1, <2>1, <3>2, <3>3, <3>4 DEF View!Serves, View!Busy
      <3> QED BY <2>2, <2>3, <2>4, <2>5, <3>2, <3>4, <3>5 DEF View!ThreadsServe
    <2>7. CASE View!StartMakes(t)
      <3>1. PICK ok \in BOOLEAN : View!Ended(t, ok)
           /\ \/ ok /\ s8' = <<t.id, t.src>> /\ s9' = s9 \cup {s8'}
              \/ ~ok /\ s8' = View!None /\ s9' = s9
        BY <2>7 DEF View!StartMakes
      <3>2. PICK u : u = View!Now(t, "end", ok)
        OBVIOUS
      <3>3. u \in View!Threads /\ u.owner = c /\ u.kind = t.kind /\ u.src = t.src /\ u.at = "end" /\ u.ok = ok
        <4>1. ASSUME NEW b \in BOOLEAN, NEW v, v = View!Now(t, "end", b)
              PROVE v \in View!Threads /\ v.owner = t.owner /\ v.kind = t.kind /\ v.src = t.src
                    /\ v.at = "end" /\ v.ok = b
          BY ONLY <2>1, <4>1 DEF View!Now, View!Threads
        <4>2. u \in View!Threads /\ u.owner = t.owner /\ u.kind = t.kind /\ u.src = t.src /\ u.at = "end"
              /\ u.ok = ok
          BY ONLY Zenon, <3>1, <3>2, <4>1
        <4> QED BY Zenon, <2>5, <4>2
      <3>4. t.kind = "start" /\ t.at = "make" /\ s8 = View!None /\ s1[c] = "start" /\ t.src = s3[c] /\ t.id # 0
        BY <2>1, <2>7 DEF View!StartMakes, View!Serves, View!Busy, View!Threads
      <3>5. s10' = {u}
        BY <2>1, <2>5, <3>1, <3>2 DEF View!Ended
      <3>6. s9' = IF s8' = View!None THEN {} ELSE {s8'}
        BY <2>3, <3>1, <3>4 DEF View!ThreadsServe, View!None
      <3>7. ok => s8'[2] = s3[c]
        BY <3>1, <3>4
      <3>8. View!Serves(u, c)'
        BY <1>1, <2>1, <3>3, <3>4, <3>7 DEF View!Serves, View!Busy
      <3> QED BY <2>2, <2>4, <2>5, <3>3, <3>5, <3>6, <3>8 DEF View!ThreadsServe
    <2>8. CASE View!StopCloses(t)
      <3>1. PICK u : u = View!Now(t, "end", TRUE)
        OBVIOUS
      <3>2. u \in View!Threads /\ u.owner = c /\ u.kind = t.kind /\ u.src = t.src /\ u.at = "end"
        <4>1. u \in View!Threads /\ u.owner = t.owner /\ u.kind = t.kind /\ u.src = t.src /\ u.at = "end"
          BY ONLY <2>1, <3>1 DEF View!Now, View!Threads
        <4> QED BY Zenon, <2>5, <4>1
      <3>3. s10' = {u} /\ s8' = View!None /\ s9' = {} /\ t.kind = "stop"
        BY <2>1, <2>3, <2>5, <2>8, <3>1 DEF View!StopCloses, View!Ended, View!ThreadsServe
      <3>4. View!Serves(u, c)'
        BY <1>1, <2>1, <3>2, <3>3 DEF View!Serves, View!Busy
      <3> QED BY <2>2, <2>4, <2>5, <3>2, <3>3, <3>4 DEF View!ThreadsServe
    <2> QED BY <2>2, <2>6, <2>7, <2>8
  <1>4. View!LeasesSeeTheirSource'
    BY <1>1, <1>3 DEF View!ViewInv, View!LeasesSeeTheirSource
  <1> QED BY Zenon, <1>1, <1>2, <1>3, <1>4 DEF View!ViewInv

\* A call that takes the lock finds no thread, and the one it starts serves it.
LEMMA SpawnServes ==
    ASSUME View!ViewInv, ~s13, View!Quiet, NEW c \in Consumers, NEW k \in {"start", "stop"},
           NEW s \in Sources \cup {0}, View!Spawn(k, s, c), View!OneCall', View!Busy(c)',
           UNCHANGED <<s8, s9>>,
           s1'[c] = "start" => k = "start" /\ s = s3'[c] /\ s8 = View!None,
           s1'[c] \in {"stop", "close"} => k = "stop"
    PROVE  View!ThreadsServe'
  <1>1. View!ThreadsServe /\ View!ViewType
    BY Zenon DEF View!ViewInv
  <1>2. PICK t : t = View!Thread(k, s, c)
    OBVIOUS
  <1>3. t \in View!Threads' /\ t.owner = c /\ t.kind = k /\ t.src = s /\ t.at = "begin"
    BY <1>1, <1>2, NewThread DEF View!Spawn
  <1>4. s10' = {t}
    BY <1>1, <1>2 DEF View!Spawn, View!ThreadsServe
  <1>5. View!Serves(t, c)'
    BY <1>3 DEF View!Serves
  <1>6. ~View!Quiet' /\ \A d \in Consumers : View!Busy(d)' => d = c
    BY DEF View!OneCall, View!Busy, View!Quiet
  <1> QED BY <1>1, <1>3, <1>4, <1>5, <1>6 DEF View!ThreadsServe

\* A call that returns takes its thread along.
LEMMA ReturnServes ==
    ASSUME View!ViewInv, ~s13, NEW c \in Consumers, View!Busy(c), NEW t \in View!Finished(c)
    PROVE  s10 = {t} /\ View!Serves(t, c) /\ t.at = "end" /\ t \in View!Threads
           /\ s9 = IF s8 = View!None THEN {} ELSE {s8}
  <1>1. View!ThreadsServe /\ View!ViewType
    BY Zenon DEF View!ViewInv
  <1> QED BY <1>1 DEF View!ThreadsServe, View!Finished

\* Nothing runs and nothing is started.
LEMMA StillServes ==
    ASSUME View!ViewInv, ~s13, View!Quiet, UNCHANGED <<s8, s9, s10>>, \A d \in Consumers : ~View!Busy(d)'
    PROVE  View!ThreadsServe'
  <1>1. View!ThreadsServe
    BY Zenon DEF View!ViewInv
  <1> QED BY <1>1 DEF View!ThreadsServe

\* A lease is joined, or the session is started for it.
LEMMA ViewAcquires ==
    ASSUME View!ViewInv, NEW c \in Consumers, NEW s \in Sources, View!Acquire(c, s)
    PROVE  View!ViewInv'
  <1> USE DEF View!ViewInv, View!ViewType, View!Acquire, View!Call, View!LockFree, View!Goto, View!SameSource, View!Granted
  <1>1. View!ViewType' /\ View!OneCall'
    BY DEF View!OneCall, View!Busy, View!Quiet, View!Spawn
  <1>2. View!BoundaryTracksSession'
    BY <1>1 DEF View!OneCall, View!BoundaryTracksSession, View!Busy, View!Quiet, View!Spawn
  <1>3. ASSUME ~s13' PROVE View!ThreadsServe'
    <2>1. ~s13 /\ View!Quiet /\ UNCHANGED <<s8, s9>>
      BY <1>3
    <2>2. CASE s1'[c] = "in"
      <3>1. UNCHANGED s10 /\ \A d \in Consumers : ~View!Busy(d)'
        BY <2>1, <2>2, <1>1 DEF View!OneCall, View!Busy, View!Quiet
      <3> QED BY <2>1, <3>1, StillServes
    <2>3. CASE s1'[c] = "start"
      <3>1. View!Spawn("start", s, c) /\ s = s3'[c] /\ s7 \in {"created", "stopped"}
        BY <2>3
      <3>2. s8 = View!None
        <4>1. View!ThreadsServe BY Zenon, <2>1
        <4>2. s9 = {}
          BY <2>1, <3>1 DEF View!BoundaryTracksSession, View!LeasesSeeTheirSource
        <4> QED BY <4>1, <4>2 DEF View!ThreadsServe
      <3> QED BY <1>1, <2>1, <2>3, <3>1, <3>2, SpawnServes DEF View!Busy
    <2> QED BY <2>2, <2>3
  <1>4. \A d \in s5' : s3'[d] = s6'
    BY <1>1 DEF View!OneCall, View!LeasesSeeTheirSource, View!Busy, View!Quiet, View!Spawn
  <1>5. View!LeasesSeeTheirSource'
    BY <1>1, <1>3, <1>4 DEF View!OneCall, View!LeasesSeeTheirSource, View!ThreadsServe,
       View!BoundaryTracksSession, View!Busy, View!Quiet, View!Spawn
  <1> QED BY Zenon, <1>1, <1>2, <1>3, <1>5

\* The start has ended, well or not.
LEMMA ViewStarted ==
    ASSUME View!ViewInv, NEW c \in Consumers, View!Started(c)
    PROVE  View!ViewInv'
  <1> USE DEF View!ViewInv, View!ViewType, View!OneCall, View!Busy, View!Started, View!Goto, View!Granted
  <1>1. View!ViewType' /\ View!OneCall'
    BY DEF View!Quiet, View!Finished
  <1>2. View!BoundaryTracksSession'
    BY <1>1 DEF View!BoundaryTracksSession, View!Quiet, View!Finished
  <1>3. ASSUME ~s13' PROVE View!ThreadsServe'
    <2>1. ~s13 /\ View!Busy(c) /\ UNCHANGED <<s8, s9>>
      BY <1>3
    <2>2. PICK t \in View!Finished(c) : s10' = s10 \ {t}
      OBVIOUS
    <2>3. s10 = {t} /\ View!Serves(t, c) /\ s9 = IF s8 = View!None THEN {} ELSE {s8}
      BY <2>1, ReturnServes
    <2>4. \A d \in Consumers : ~View!Busy(d)'
      BY <2>1
    <2> QED BY <2>1, <2>2, <2>3, <2>4 DEF View!ThreadsServe
  <1>4. \A d \in s5' : s3'[d] = s6'
    BY <1>1 DEF View!LeasesSeeTheirSource, View!Quiet, View!Finished
  <1>6. ASSUME ~s13' PROVE /\ s5' # {} => s8'[2] = s6'
                           /\ s4' \in {"idle", "closed"} /\ View!Quiet' => s9' = {}
    <2>1. ~s13 /\ View!Busy(c) /\ s5 = {} /\ UNCHANGED <<s8, s9>>
      BY <1>6
    <2>2. PICK t \in View!Finished(c) : IF t.ok THEN s6' = s3[c] ELSE s4' = "failed" /\ s5' = s5
      OBVIOUS
    <2>3. View!Serves(t, c) /\ t.at = "end" /\ s9 = IF s8 = View!None THEN {} ELSE {s8}
      BY <2>1, ReturnServes
    <2> QED BY <1>1, <2>1, <2>2, <2>3 DEF View!Serves
  <1>5. View!LeasesSeeTheirSource'
    BY <1>4, <1>6 DEF View!LeasesSeeTheirSource
  <1> QED BY Zenon, <1>1, <1>2, <1>3, <1>5

\* A lease ends, the last one with the session.
LEMMA ViewReleases ==
    ASSUME View!ViewInv, NEW c \in Consumers, View!Release(c)
    PROVE  View!ViewInv'
  <1> USE DEF View!Release, View!Call, View!LockFree, View!Goto, View!LastLeaves
  <1>1. View!ViewType' /\ View!OneCall'
    BY DEF View!ViewInv, View!ViewType, View!OneCall, View!Busy, View!Quiet, View!Spawn
  <1>2. View!BoundaryTracksSession'
    BY <1>1 DEF View!ViewInv, View!ViewType, View!OneCall, View!BoundaryTracksSession, View!Busy,
       View!Quiet, View!Spawn
  <1>3. ASSUME ~s13' PROVE View!ThreadsServe'
    <2>1. ~s13 /\ View!Quiet /\ UNCHANGED <<s8, s9>>
      BY <1>3
    <2>2. CASE s1'[c] \in {"stop", "close"}
      <3>1. View!Spawn("stop", 0, c)
        BY <2>2 DEF View!ViewInv, View!ViewType
      <3> QED BY <1>1, <2>1, <2>2, <3>1, SpawnServes DEF View!Busy
    <2>3. CASE s1'[c] = "out"
      <3>1. UNCHANGED s10 /\ \A d \in Consumers : ~View!Busy(d)'
        BY <2>1, <2>3, <1>1 DEF View!ViewInv, View!ViewType, View!OneCall, View!Busy, View!Quiet
      <3> QED BY <2>1, <3>1, StillServes
    <2> QED BY <2>2, <2>3 DEF View!ViewInv, View!ViewType
  <1>4. \A d \in s5' : s3'[d] = s6'
    BY <1>1 DEF View!ViewInv, View!ViewType, View!OneCall, View!LeasesSeeTheirSource, View!Busy,
       View!Quiet, View!Spawn
  <1>5. View!LeasesSeeTheirSource'
    BY <1>1, <1>3, <1>4 DEF View!ViewInv, View!ViewType, View!OneCall, View!LeasesSeeTheirSource,
       View!ThreadsServe, View!BoundaryTracksSession, View!Busy, View!Quiet, View!Spawn
  <1> QED BY Zenon, <1>1, <1>2, <1>3, <1>5 DEF View!ViewInv

\* A failed session is cleaned.
LEMMA ViewRecovers ==
    ASSUME View!ViewInv, NEW c \in Consumers, View!Recover(c)
    PROVE  View!ViewInv'
  <1> USE DEF View!Recover, View!Call, View!LockFree, View!Goto, View!LastLeaves, View!Voided
  <1>1. View!ViewType' /\ View!OneCall'
    BY DEF View!ViewInv, View!ViewType, View!OneCall, View!Busy, View!Quiet, View!Spawn
  <1>2. View!BoundaryTracksSession'
    BY <1>1 DEF View!ViewInv, View!ViewType, View!OneCall, View!BoundaryTracksSession, View!Busy,
       View!Quiet, View!Spawn
  <1>3. ASSUME ~s13' PROVE View!ThreadsServe'
    <2>1. ~s13 /\ View!Quiet /\ UNCHANGED <<s8, s9>>
      BY <1>3
    <2>2. CASE s1'[c] \in {"stop", "close"}
      <3>1. View!Spawn("stop", 0, c)
        BY <2>2 DEF View!ViewInv, View!ViewType
      <3> QED BY <1>1, <2>1, <2>2, <3>1, SpawnServes DEF View!Busy
    <2>3. CASE s1'[c] = "out"
      <3>1. UNCHANGED s10 /\ \A d \in Consumers : ~View!Busy(d)'
        BY <2>1, <2>3, <1>1 DEF View!ViewInv, View!ViewType, View!OneCall, View!Busy, View!Quiet
      <3> QED BY <2>1, <3>1, StillServes
    <2> QED BY <2>2, <2>3 DEF View!ViewInv, View!ViewType
  <1>4. \A d \in s5' : s3'[d] = s6'
    BY <1>1 DEF View!ViewInv, View!ViewType, View!OneCall, View!LeasesSeeTheirSource, View!Busy,
       View!Quiet, View!Spawn
  <1>5. View!LeasesSeeTheirSource'
    BY <1>1, <1>3, <1>4 DEF View!ViewInv, View!ViewType, View!OneCall, View!LeasesSeeTheirSource,
       View!ThreadsServe, View!BoundaryTracksSession, View!Busy, View!Quiet, View!Spawn
  <1> QED BY Zenon, <1>1, <1>2, <1>3, <1>5 DEF View!ViewInv

\* The boundary is closed for good.
LEMMA ViewCloses ==
    ASSUME View!ViewInv, NEW c \in Consumers, View!CloseView(c)
    PROVE  View!ViewInv'
  <1> USE DEF View!CloseView, View!Call, View!LockFree, View!Goto, View!LastLeaves, View!Voided
  <1>1. View!ViewType' /\ View!OneCall'
    BY DEF View!ViewInv, View!ViewType, View!OneCall, View!Busy, View!Quiet, View!Spawn
  <1>2. View!BoundaryTracksSession'
    BY <1>1 DEF View!ViewInv, View!ViewType, View!OneCall, View!BoundaryTracksSession, View!Busy,
       View!Quiet, View!Spawn
  <1>3. ASSUME ~s13' PROVE View!ThreadsServe'
    <2>1. ~s13 /\ View!Quiet /\ UNCHANGED <<s8, s9>>
      BY <1>3
    <2>2. CASE s1'[c] \in {"stop", "close"}
      <3>1. View!Spawn("stop", 0, c)
        BY <2>2 DEF View!ViewInv, View!ViewType
      <3> QED BY <1>1, <2>1, <2>2, <3>1, SpawnServes DEF View!Busy
    <2>3. CASE s1'[c] = "out"
      <3>1. UNCHANGED s10 /\ \A d \in Consumers : ~View!Busy(d)'
        BY <2>1, <2>3, <1>1 DEF View!ViewInv, View!ViewType, View!OneCall, View!Busy, View!Quiet
      <3> QED BY <2>1, <3>1, StillServes
    <2> QED BY <2>2, <2>3 DEF View!ViewInv, View!ViewType
  <1>4. \A d \in s5' : s3'[d] = s6'
    BY <1>1 DEF View!ViewInv, View!ViewType, View!OneCall, View!LeasesSeeTheirSource, View!Busy,
       View!Quiet, View!Spawn
  <1>5. View!LeasesSeeTheirSource'
    BY <1>1, <1>3, <1>4 DEF View!ViewInv, View!ViewType, View!OneCall, View!LeasesSeeTheirSource,
       View!ThreadsServe, View!BoundaryTracksSession, View!Busy, View!Quiet, View!Spawn
  <1> QED BY Zenon, <1>1, <1>2, <1>3, <1>5 DEF View!ViewInv

\* The session has stopped; a close goes on to close it.
LEMMA ViewStopped ==
    ASSUME View!ViewInv, NEW c \in Consumers, View!Stopped(c)
    PROVE  View!ViewInv'
  <1>1. View!ViewType' /\ View!OneCall'
    BY DEF View!ViewInv, View!ViewType, View!OneCall, View!Busy, View!Quiet, View!Stopped,
       View!Finished, View!Goto
  <1>2. View!BoundaryTracksSession'
    BY <1>1 DEF View!ViewInv, View!ViewType, View!OneCall, View!BoundaryTracksSession, View!Busy,
       View!Quiet, View!Stopped, View!Finished, View!Goto
  <1>3. ASSUME ~s13' PROVE View!ThreadsServe'
    <2>1. ~s13 /\ View!Busy(c) /\ UNCHANGED <<s8, s9>> /\ s1[c] = "stop"
      BY <1>3 DEF View!Stopped, View!Busy
    <2>2. PICK t \in View!Finished(c) :
            \/ s10' = s10 \ {t} /\ s1' = [s1 EXCEPT ![c] = "out"]
            \/ s11' = s11 + 1 /\ s10' = (s10 \ {t}) \cup {View!Thread("stop", 0, c)}
               /\ s1' = [s1 EXCEPT ![c] = "close"]
      BY DEF View!Stopped, View!Goto
    <2>3. s10 = {t} /\ View!Serves(t, c) /\ s9 = IF s8 = View!None THEN {} ELSE {s8}
      BY <2>1, ReturnServes
    <2>4. CASE s10' = s10 \ {t} /\ s1' = [s1 EXCEPT ![c] = "out"]
      <3>1. \A d \in Consumers : ~View!Busy(d)'
        BY <2>1, <2>4 DEF View!ViewInv, View!ViewType, View!OneCall, View!Busy
      <3> QED BY <2>1, <2>3, <2>4, <3>1 DEF View!ThreadsServe
    <2>5. CASE s11' = s11 + 1 /\ s10' = (s10 \ {t}) \cup {View!Thread("stop", 0, c)}
               /\ s1' = [s1 EXCEPT ![c] = "close"]
      <3>1. PICK u : u = View!Thread("stop", 0, c)
        OBVIOUS
      <3>2. u \in View!Threads' /\ u.owner = c /\ u.kind = "stop" /\ u.src = 0 /\ u.at = "begin"
        BY <2>5, <3>1, NewThread DEF View!ViewInv
      <3>3. s10' = {u} /\ s1'[c] = "close"
        BY <2>3, <2>5, <3>1 DEF View!ViewInv, View!ViewType
      <3>4. ~View!Quiet' /\ \A d \in Consumers : View!Busy(d)' => d = c
        BY <1>1, <3>3 DEF View!OneCall, View!Busy, View!Quiet
      <3>5. View!Serves(u, c)'
        BY <3>2, <3>3 DEF View!Serves
      <3> QED BY <2>1, <2>3, <3>2, <3>3, <3>4, <3>5 DEF View!ThreadsServe
    <2> QED BY <2>2, <2>4, <2>5
  <1>4. \A d \in s5' : s3'[d] = s6'
    BY <1>1 DEF View!ViewInv, View!ViewType, View!OneCall, View!LeasesSeeTheirSource, View!Busy,
       View!Quiet, View!Stopped, View!Finished, View!Goto
  <1>6. ASSUME ~s13' PROVE /\ s5' # {} => s8'[2] = s6'
                           /\ s4' \in {"idle", "closed"} /\ View!Quiet' => s9' = {}
    <2>1. ~s13 /\ View!Busy(c) /\ s5 = {} /\ UNCHANGED <<s8, s9>>
      BY <1>6 DEF View!ViewInv, View!OneCall, View!Stopped, View!Busy
    <2>2. PICK t \in View!Finished(c) : TRUE
      BY DEF View!Stopped
    <2>3. View!Serves(t, c) /\ t.at = "end" /\ s9 = IF s8 = View!None THEN {} ELSE {s8}
      BY <2>1, ReturnServes
    <2> QED BY <1>1, <2>1, <2>2, <2>3 DEF View!Stopped, View!Serves, View!Goto, View!OneCall, View!ViewInv, View!ViewType, View!Busy, View!Quiet
  <1>5. View!LeasesSeeTheirSource'
    BY <1>4, <1>6 DEF View!LeasesSeeTheirSource
  <1> QED BY Zenon, <1>1, <1>2, <1>3, <1>5 DEF View!ViewInv

\* The session is closed.
LEMMA ViewClosed ==
    ASSUME View!ViewInv, NEW c \in Consumers, View!Closed(c)
    PROVE  View!ViewInv'
  <1> USE DEF View!ViewInv, View!ViewType, View!OneCall, View!Busy, View!Closed, View!Goto
  <1>1. View!ViewType' /\ View!OneCall'
    BY DEF View!Quiet, View!Finished
  <1>2. View!BoundaryTracksSession'
    BY <1>1 DEF View!BoundaryTracksSession, View!Quiet, View!Finished
  <1>3. ASSUME ~s13' PROVE View!ThreadsServe'
    <2>1. ~s13 /\ View!Busy(c) /\ UNCHANGED <<s8, s9>>
      BY <1>3
    <2>2. PICK t \in View!Finished(c) : s10' = s10 \ {t}
      OBVIOUS
    <2>3. s10 = {t} /\ View!Serves(t, c) /\ s9 = IF s8 = View!None THEN {} ELSE {s8}
      BY <2>1, ReturnServes
    <2>4. \A d \in Consumers : ~View!Busy(d)'
      BY <2>1
    <2> QED BY <2>1, <2>2, <2>3, <2>4 DEF View!ThreadsServe
  <1>4. \A d \in s5' : s3'[d] = s6'
    BY <1>1 DEF View!LeasesSeeTheirSource, View!Quiet, View!Finished
  <1>6. ASSUME ~s13' PROVE /\ s5' # {} => s8'[2] = s6'
                           /\ s4' \in {"idle", "closed"} /\ View!Quiet' => s9' = {}
    <2>1. ~s13 /\ View!Busy(c) /\ s5 = {} /\ UNCHANGED <<s8, s9>>
      BY <1>6
    <2>2. PICK t \in View!Finished(c) : TRUE
      OBVIOUS
    <2>3. View!Serves(t, c) /\ t.at = "end" /\ s9 = IF s8 = View!None THEN {} ELSE {s8}
      BY <2>1, ReturnServes
    <2> QED BY <1>1, <2>1, <2>2, <2>3 DEF View!Serves
  <1>5. View!LeasesSeeTheirSource'
    BY <1>4, <1>6 DEF View!LeasesSeeTheirSource
  <1> QED BY Zenon, <1>1, <1>2, <1>3, <1>5

\* A call is given up; its thread is not, unless it had ended.
LEMMA ViewCut ==
    ASSUME View!ViewInv, NEW c \in Consumers, View!Cut(c)
    PROVE  View!ViewInv'
  <1> USE DEF View!ViewInv, View!ViewType, View!OneCall, View!Busy, View!Cut, View!Goto
  <1>1. View!ViewType' /\ View!OneCall'
    BY DEF View!Quiet, View!CutFails
  <1>2. View!BoundaryTracksSession'
    BY <1>1 DEF View!BoundaryTracksSession, View!Quiet, View!CutFails
  <1>3. ASSUME ~s13' PROVE View!ThreadsServe'
    <2>1. ~s13 /\ View!Busy(c) /\ UNCHANGED <<s8, s9>>
      BY <1>3
    <2>2. PICK t : t \in View!Finished(c)
      BY <1>3
    <2>3. s10 = {t} /\ s9 = IF s8 = View!None THEN {} ELSE {s8}
      BY <2>1, <2>2, ReturnServes
    <2>4. s10' = {}
      BY <2>2, <2>3
    <2>5. \A d \in Consumers : ~View!Busy(d)'
      BY <2>1
    <2> QED BY <2>1, <2>3, <2>4, <2>5 DEF View!ThreadsServe
  <1>4. \A d \in s5' : s3'[d] = s6'
    BY <1>1 DEF View!LeasesSeeTheirSource, View!Quiet, View!CutFails
  <1>5. View!LeasesSeeTheirSource'
    BY <1>1, <1>3, <1>4 DEF View!LeasesSeeTheirSource, View!ThreadsServe,
       View!BoundaryTracksSession, View!Quiet, View!CutFails
  <1> QED BY Zenon, <1>1, <1>2, <1>3, <1>5

\* Every step of the boundary keeps its invariant.
LEMMA ViewStep == ASSUME View!ViewInv, [View!ViewNext]_(View!viewvars) PROVE View!ViewInv'
  <1>1. CASE UNCHANGED View!viewvars
    <2>1. UNCHANGED <<s1, s2, s3, s4, s5, s6, s7, s8, s9, s10, s11, s12, s13>>
      BY <1>1 DEF View!viewvars
    <2>2. View!Quiet' = View!Quiet /\ View!ThreadsServe' = View!ThreadsServe /\ View!ViewType' = View!ViewType
      BY <2>1 DEF View!Quiet, View!ThreadsServe, View!Serves, View!Busy, View!Threads, View!ViewType
    <2>3. View!OneCall' /\ View!LeasesSeeTheirSource' /\ View!BoundaryTracksSession'
      BY <2>1, <2>2 DEF View!ViewInv, View!OneCall, View!Busy, View!LeasesSeeTheirSource,
         View!BoundaryTracksSession
    <2> QED BY Zenon, <2>1, <2>2, <2>3 DEF View!ViewInv
  <1>2. CASE View!ViewNext
    BY <1>2, ViewThreads, ViewAcquires, ViewStarted, ViewReleases, ViewRecovers, ViewCloses,
       ViewStopped,
       ViewClosed, ViewCut DEF View!ViewNext
  <1> QED BY <1>1, <1>2

-----------------------------------------------------------------------------
(* Exports and playbacks.                                                  *)

\* RecordingReaders counts, and calls finite, what FiniteSets does.
LEMMA ExportCounts ==
    \A S : Export!Cardinality(S) = Cardinality(S) /\ (Export!IsFiniteSet(S) <=> IsFiniteSet(S))
  <1>1. \A S : Export!Cardinality(S) = Cardinality(S)
    BY Zenon DEF Export!Cardinality, Cardinality
  <1>2. \A S : Export!IsFiniteSet(S) <=> IsFiniteSet(S)
    BY Zenon DEF Export!IsFiniteSet, IsFiniteSet
  <1> QED BY <1>1, <1>2
\* The module of the players counts sets as FiniteSets does.
LEMMA PlayCounts ==
    \A S : Play!Cardinality(S) = Cardinality(S) /\ (Play!IsFiniteSet(S) <=> IsFiniteSet(S))
  <1>1. \A S : Play!Cardinality(S) = Cardinality(S)
    BY Zenon DEF Play!Cardinality, Cardinality
  <1>2. \A S : Play!IsFiniteSet(S) <=> IsFiniteSet(S)
    BY Zenon DEF Play!IsFiniteSet, IsFiniteSet
  <1> QED BY <1>1, <1>2

\* A bounded set of reservations, with one more while there is room, and with one less.
LEMMA ExportLease ==
    ASSUME NEW S, NEW r, Export!IsFiniteSet(S), Export!Cardinality(S) <= MaxExports
    PROVE  /\ Export!IsFiniteSet(S \ {r}) /\ Export!Cardinality(S \ {r}) <= MaxExports
           /\ Export!Cardinality(S) < MaxExports =>
                Export!IsFiniteSet(S \cup {r}) /\ Export!Cardinality(S \cup {r}) <= MaxExports
           /\ ~(Export!Cardinality(S) >= MaxExports) => Export!Cardinality(S) < MaxExports
  <1>1. IsFiniteSet(S) /\ Cardinality(S) <= MaxExports /\ Cardinality(S) \in Nat
    BY ExportCounts, FS_CardinalityType
  <1>2. IsFiniteSet(S \ {r}) /\ Cardinality(S \ {r}) \in Nat /\ Cardinality(S \ {r}) <= Cardinality(S)
    BY <1>1, FS_Subset, FS_CardinalityType
  <1>3. IsFiniteSet(S \cup {r}) /\ Cardinality(S \cup {r}) \in {Cardinality(S), Cardinality(S) + 1}
    BY <1>1, FS_AddElement
  <1> QED BY <1>1, <1>2, <1>3, ExportCounts, ReadersAssumption

\* No export has begun.
LEMMA ExportBegins == ASSUME Export!RdInit PROVE Export!ExportInv
  <1>1. Export!IsFiniteSet({}) /\ Export!Cardinality({}) = 0
    BY ExportCounts, FS_EmptySet
  <1> QED BY <1>1, ReadersAssumption
      DEF Export!RdInit, Export!ExportInv, Export!ExportType, Export!ExportStages, Export!ExportSlotsExact,
          Export!SentWasVerified

\* What touches no export.
LEMMA ExportElsewhere ==
    ASSUME Export!ExportInv, UNCHANGED Export!exvars, s1' \in Nat PROVE Export!ExportInv'
  BY DEF Export!exvars, Export!ExportInv, Export!ExportType, Export!ExportStages,
     Export!ExportSlotsExact,
         Export!SentWasVerified

\* The request that asks for an export: its reservation, validation and cancellation.
LEMMA ExportRequest ==
    ASSUME Export!ExportInv, NEW r \in Exports,
           \/ Export!LoadForExport(r) \/ Export!ExportRefused(r) \/ Export!ReserveExport(r)
           \/ Export!Validated(r) \/ Export!ExportCancelled(r) \/ Export!ValidationFinished(r)
    PROVE  Export!ExportInv'
  <1> USE DEF Export!ExportInv, Export!ExportType, Export!ExportStages, Export!ExportSlotsExact,
              Export!SentWasVerified, Export!Go, Export!plvars
  <1>0. /\ Export!IsFiniteSet(s3 \ {r}) /\ Export!Cardinality(s3 \ {r}) <= MaxExports
        /\ ~(Export!Cardinality(s3) >= MaxExports) =>
             Export!IsFiniteSet(s3 \cup {r}) /\ Export!Cardinality(s3 \cup {r}) <= MaxExports
    BY ExportLease
  <1>1. CASE Export!LoadForExport(r) BY <1>1 DEF Export!LoadForExport
  <1>2. CASE Export!ExportRefused(r) BY <1>2 DEF Export!ExportRefused
  <1>3. CASE Export!ReserveExport(r)
    <2>1. CASE Export!Cardinality(s3) >= MaxExports
      <3>1. s2[r] = "loaded" /\ s2' = [s2 EXCEPT ![r] = "ended"] /\ UNCHANGED <<s1, s3, s4, s5, s6, s7, s8>>
        BY <1>3, <2>1 DEF Export!ReserveExport
      <3>2. Export!ExportType'
        BY <1>0, <3>1
      <3>3. Export!ExportStages' /\ Export!SentWasVerified'
        BY <3>1
      <3>4. Export!ExportSlotsExact'
        BY <1>0, <3>1
      <3> QED BY <3>2, <3>3, <3>4
    <2>2. CASE ~(Export!Cardinality(s3) >= MaxExports)
      <3>1. /\ s2[r] = "loaded" /\ s2' = [s2 EXCEPT ![r] = "validating"] /\ s3' = s3 \cup {r}
            /\ s4' = [s4 EXCEPT ![r] = "started"] /\ UNCHANGED <<s1, s5, s6, s7, s8>>
        BY <1>3, <2>2 DEF Export!ReserveExport
      <3>2. Export!ExportType'
        BY <1>0, <2>2, <3>1
      <3>3. Export!ExportStages' /\ Export!SentWasVerified'
        BY <3>1
      <3>4. Export!ExportSlotsExact'
        BY <1>0, <2>2, <3>1
      <3> QED BY <3>2, <3>3, <3>4
    <2> QED BY <2>1, <2>2
  <1>4. CASE Export!Validated(r)
    <2>1. CASE s4[r] = "ok"
      <3>1. /\ s2[r] = "validating" /\ s2' = [s2 EXCEPT ![r] = "streaming"] /\ s4' = [s4 EXCEPT ![r] = "none"]
            /\ s6' = [s6 EXCEPT ![r] = s5[r]] /\ UNCHANGED <<s1, s3, s5, s7, s8>>
        BY <1>4, <2>1 DEF Export!Validated
      <3>2. Export!ExportType'
        BY <1>0, <3>1
      <3>3. Export!ExportStages' /\ Export!SentWasVerified'
        BY <3>1
      <3>4. Export!ExportSlotsExact'
        BY <1>0, <3>1
      <3> QED BY <3>2, <3>3, <3>4
    <2>2. CASE s4[r] # "ok"
      <3>1. /\ s2[r] = "validating" /\ s2' = [s2 EXCEPT ![r] = "ended"] /\ s4' = [s4 EXCEPT ![r] = "none"]
            /\ s3' = s3 \ {r} /\ UNCHANGED <<s1, s5, s6, s7, s8>>
        BY <1>4, <2>2 DEF Export!Validated
      <3>2. Export!ExportType'
        BY <1>0, <3>1
      <3>3. Export!ExportStages' /\ Export!SentWasVerified'
        BY <3>1
      <3>4. Export!ExportSlotsExact'
        BY <1>0, <3>1
      <3> QED BY <3>2, <3>3, <3>4
    <2> QED BY <2>1, <2>2
  <1>5. CASE Export!ExportCancelled(r) BY <1>0, <1>5 DEF Export!ExportCancelled, Export!CanDiscard, Export!Settled
  <1>6. CASE Export!ValidationFinished(r) BY <1>0, <1>6 DEF Export!ValidationFinished
  <1> QED BY <1>1, <1>2, <1>3, <1>4, <1>5, <1>6

\* The worker that checks the file.
LEMMA ExportChecker ==
    ASSUME Export!ExportInv, NEW r \in Exports,
           Export!CheckerStarts(r) \/ Export!CheckerEnds(r) \/ Export!CheckerRejects(r)
    PROVE  Export!ExportInv'
  <1> USE DEF Export!ExportInv, Export!ExportType, Export!ExportStages, Export!ExportSlotsExact,
              Export!SentWasVerified, Export!plvars
  <1>1. CASE Export!CheckerStarts(r) BY <1>1 DEF Export!CheckerStarts
  <1>2. CASE Export!CheckerEnds(r) BY <1>2 DEF Export!CheckerEnds
  <1>3. CASE Export!CheckerRejects(r) BY <1>3 DEF Export!CheckerRejects
  <1> QED BY <1>1, <1>2, <1>3

\* The response that streams it.
LEMMA ExportStream ==
    ASSUME Export!ExportInv, NEW r \in Exports,
           \/ Export!StreamLooks(r) \/ Export!StreamOpens(r) \/ Export!StreamChunk(r)
           \/ Export!StreamEnds(r) \/ Export!StreamFails(r)
    PROVE  Export!ExportInv'
  <1> USE DEF Export!ExportInv, Export!ExportType, Export!ExportStages, Export!ExportSlotsExact,
              Export!SentWasVerified, Export!Go, Export!Release, Export!plvars
  <1>0. Export!IsFiniteSet(s3 \ {r}) /\ Export!Cardinality(s3 \ {r}) <= MaxExports
    BY ExportLease
  <1>1. CASE Export!StreamLooks(r) BY <1>1 DEF Export!StreamLooks
  <1>2. CASE Export!StreamOpens(r) BY <1>2 DEF Export!StreamOpens, Export!OpenedVerified
  <1>3. CASE Export!StreamChunk(r)
    <2>1. s2[r] = "reading" /\ s8' = [s8 EXCEPT ![r] = Append(@, s7[r])]
          /\ UNCHANGED <<s1, s2, s3, s4, s5, s6, s7, s9, s10, s11, s12, s13>>
      BY <1>3 DEF Export!StreamChunk
    <2>2. s8[r] \in Seq(Nat) /\ s7[r] \in Nat /\ s7[r] = s6[r] /\ s6[r] = s5[r] /\ s4[r] = "none"
      BY <2>1
    <2>3. /\ Append(s8[r], s7[r]) \in Seq(Nat)
          /\ \A i \in 1..Len(Append(s8[r], s7[r])) : i \in 1..Len(s8[r]) \/ Append(s8[r], s7[r])[i] = s7[r]
          /\ \A i \in 1..Len(s8[r]) : Append(s8[r], s7[r])[i] = s8[r][i]
      BY <2>2
    <2>4. \A q \in Exports : s8'[q] = IF q = r THEN Append(s8[r], s7[r]) ELSE s8[q]
      BY <2>1
    <2>5. s8' \in [Exports -> Seq(Nat)]
      BY <2>1, <2>3
    <2>6. Export!SentWasVerified'
      BY <2>1, <2>2, <2>3, <2>4
    <2>7. Export!ExportStages'
      BY <2>1, <2>2, <2>4
    <2>8. QED
      BY <2>1, <2>5, <2>6, <2>7
  <1>4. CASE Export!StreamEnds(r) BY <1>0, <1>4 DEF Export!StreamEnds
  <1>5. CASE Export!StreamFails(r) BY <1>0, <1>5 DEF Export!StreamFails
  <1> QED BY <1>1, <1>2, <1>3, <1>4, <1>5

\* Every step of the readers keeps what is said of the exports.
LEMMA ExportStep == ASSUME Export!ExportInv, [Export!RdNext]_(Export!rdvars) PROVE Export!ExportInv'
  <1>0. s1 \in Nat BY DEF Export!ExportInv, Export!ExportType
  <1>1. CASE UNCHANGED Export!rdvars
    BY <1>0, <1>1, ExportElsewhere DEF Export!rdvars
  <1>2. CASE Export!ReplaceFile \/ Export!DeleteFile
    BY <1>0, <1>2, ExportElsewhere DEF Export!ReplaceFile, Export!DeleteFile
  <1>3. ASSUME NEW r \in {1}, \/ Export!LoadForPlay(r) \/ Export!PlayRefused(r) \/ Export!ReservePlay(r)
               \/ Export!SourceResolved(r) \/ Export!SourceUnavailable(r) \/ Export!PlayReturns(r)
        PROVE  Export!ExportInv'
    <2>1. UNCHANGED <<s1, Export!exvars>>
      BY <1>3 DEF Export!LoadForPlay, Export!PlayRefused, Export!ReservePlay, Export!SourceResolved,
         Export!SourceUnavailable, Export!PlayReturns, Export!PlayOver
    <2> QED BY <1>0, <2>1, ExportElsewhere
  <1>4. ASSUME NEW u \in {1}, NEW i \in {1}, NEW p \in BOOLEAN, Export!Control(u, i, p)
        PROVE  Export!ExportInv'
    BY <1>0, <1>4, ExportElsewhere DEF Export!Control
  <1>5. ASSUME NEW r \in Exports,
               \/ Export!LoadForExport(r) \/ Export!ExportRefused(r) \/ Export!ReserveExport(r)
               \/ Export!CheckerStarts(r) \/ Export!CheckerEnds(r) \/ Export!CheckerRejects(r)
               \/ Export!Validated(r) \/ Export!ExportCancelled(r) \/ Export!ValidationFinished(r)
               \/ Export!StreamLooks(r) \/ Export!StreamOpens(r) \/ Export!StreamChunk(r)
               \/ Export!StreamEnds(r) \/ Export!StreamFails(r)
        PROVE  Export!ExportInv'
    BY <1>5, ExportRequest, ExportChecker, ExportStream
  <1>6. CASE Export!RdNext
    BY Zenon, <1>2, <1>3, <1>4, <1>5, <1>6 DEF Export!RdNext
  <1> QED BY <1>1, <1>6

-----------------------------------------------------------------------------
\* No playback has begun.
LEMMA PlayBegins == ASSUME Play!RdInit PROVE Play!PlayInv
  <1>1. Play!IsFiniteSet({}) /\ Play!Cardinality({}) = 0
    BY PlayCounts, FS_EmptySet
  <1>2. Play!Presenting = {}
    BY DEF Play!RdInit, Play!Presenting
  <1>3. Play!PlayType /\ Play!IdsApart
    BY <1>1, <1>2 DEF Play!RdInit, Play!PlayType, Play!IdsApart
  <1> QED BY <1>1, <1>2, <1>3, ReadersAssumption DEF Play!RdInit, Play!PlayInv, Play!ControlReachesPlay

\* The controls of the playbacks that present, one by one.
LEMMA ControlsListed ==
    Play!ControlReachesPlay <=>
      /\ s11 = Play!Cardinality(Play!Presenting) /\ s11 <= MaxPlays
      /\ \A c : c \in s12 <=> \E p \in Play!Presenting : s10[p].id # 0 /\ c = Play!ControlOf(p)
  BY DEF Play!ControlReachesPlay
\* A control keeps the identity of its session.
LEMMA ControlField == ASSUME NEW p PROVE Play!ControlOf(p).id = s10[p].id
  BY DEF Play!ControlOf

\* A step that keeps who presents, what they asked for and the controls.
LEMMA PlayElsewhere ==
    ASSUME Play!PlayInv, Play!PlayType', Play!Presenting' = Play!Presenting,
           \A p \in Play!Presenting : s10'[p] = s10[p], UNCHANGED <<s11, s12>>
    PROVE  Play!PlayInv'
  <1>1. \A p \in Play!Presenting : Play!ControlOf(p)' = Play!ControlOf(p)
    BY DEF Play!ControlOf
  <1>2. Play!IdsApart'
    BY DEF Play!PlayInv, Play!IdsApart
  <1>3. Play!ControlReachesPlay'
    BY <1>1 DEF Play!PlayInv, Play!ControlReachesPlay
  <1> QED BY <1>2, <1>3 DEF Play!PlayInv

\* A playback is reserved, and its control is the first under its identifier.
LEMMA PlayReserved ==
    ASSUME Play!PlayInv, NEW r \in Plays, Play!ReservePlay(r) PROVE Play!PlayInv'
  <1>1. CASE s11 >= MaxPlays \/ Play!Conflicts(s10[r].id)
    <2>1. s9[r] = "loaded" /\ s9' = [s9 EXCEPT ![r] = "ended"] /\ UNCHANGED <<s10, s11, s12>>
      BY <1>1 DEF Play!ReservePlay, Play!At
    <2>2. Play!Presenting' = Play!Presenting
      BY <2>1 DEF Play!PlayInv, Play!PlayType, Play!Presenting
    <2>3. Play!PlayType'
      BY <2>1, <2>2 DEF Play!PlayInv, Play!PlayType
    <2> QED BY <2>1, <2>2, <2>3, PlayElsewhere
  <1>2. CASE ~(s11 >= MaxPlays \/ Play!Conflicts(s10[r].id))
    <2>1. /\ s9[r] = "loaded" /\ s9' = [s9 EXCEPT ![r] = "resolving"] /\ UNCHANGED s10 /\ s11' = s11 + 1
          /\ s12' = IF s10[r].id = 0 THEN s12
                    ELSE {c \in s12 : c.id # s10[r].id} \cup {Play!ControlOf(r)}
      BY <1>2 DEF Play!ReservePlay, Play!At
    <2>2. r \notin Play!Presenting /\ Play!Presenting' = Play!Presenting \cup {r}
      BY <2>1 DEF Play!PlayInv, Play!PlayType, Play!Presenting
    <2>3. IsFiniteSet(Play!Presenting) /\ IsFiniteSet(Play!Presenting')
          /\ Cardinality(Play!Presenting) \in Nat
          /\ Cardinality(Play!Presenting') = Cardinality(Play!Presenting) + 1
      BY <2>2, PlayCounts, FS_AddElement, FS_CardinalityType DEF Play!PlayInv, Play!PlayType
    <2>4. Play!PlayType'
      BY <2>1, <2>3, PlayCounts DEF Play!PlayInv, Play!PlayType
    <2>5. s11 = Cardinality(Play!Presenting) /\ s11 <= MaxPlays /\ ~(s11 >= MaxPlays)
      BY <1>2, PlayCounts DEF Play!PlayInv, Play!ControlReachesPlay
    <2>6. s11' = Play!Cardinality(Play!Presenting') /\ s11' <= MaxPlays
      <3>1. s11' = Cardinality(Play!Presenting') /\ s11' <= MaxPlays
        BY <2>1, <2>3, <2>5, ReadersAssumption
      <3> QED BY <3>1, PlayCounts
    <2>7. \A p : Play!ControlOf(p)' = Play!ControlOf(p)
      BY <2>1 DEF Play!ControlOf
    <2>8. \A c : c \in s12 <=> \E p \in Play!Presenting : s10[p].id # 0 /\ c = Play!ControlOf(p)
      BY ControlsListed DEF Play!PlayInv
    <2>9. \A p \in Play!Presenting : s10[p].id # 0 => s10[p].id # s10[r].id
      BY <1>2, <2>8, ControlField DEF Play!Conflicts
    <2>10. Play!IdsApart'
      BY <2>1, <2>2, <2>9 DEF Play!PlayInv, Play!IdsApart
    <2>11. \A c : c \in s12' <=> \E p \in Play!Presenting' : s10'[p].id # 0 /\ c = Play!ControlOf(p)'
      BY <2>1, <2>2, <2>7, <2>8, <2>9, ControlField
    <2>12. Play!ControlReachesPlay'
      BY <2>6, <2>11 DEF Play!ControlReachesPlay
    <2> QED BY <2>4, <2>10, <2>12 DEF Play!PlayInv
  <1> QED BY <1>1, <1>2

\* A playback that is over takes its own control along, and no other.
LEMMA PlayEnded ==
    ASSUME Play!PlayInv, NEW r \in Plays, r \in Play!Presenting, Play!PlayOver(r) PROVE Play!PlayInv'
  <1>1. /\ s9' = [s9 EXCEPT ![r] = "ended"] /\ UNCHANGED s10 /\ s11' = s11 - 1
        /\ s12' = {c \in s12 : c.id # s10[r].id}
    BY DEF Play!PlayOver, Play!At
  <1>2. Play!Presenting' = Play!Presenting \ {r}
    BY <1>1 DEF Play!PlayInv, Play!PlayType, Play!Presenting
  <1>3. IsFiniteSet(Play!Presenting) /\ IsFiniteSet(Play!Presenting')
        /\ Cardinality(Play!Presenting) \in Nat
        /\ Cardinality(Play!Presenting') = Cardinality(Play!Presenting) - 1
    BY <1>2, PlayCounts, FS_RemoveElement, FS_CardinalityType DEF Play!PlayInv, Play!PlayType
  <1>4. Play!PlayType'
    BY <1>1, <1>3, PlayCounts DEF Play!PlayInv, Play!PlayType
  <1>5. s11 = Cardinality(Play!Presenting) /\ s11 <= MaxPlays
    BY PlayCounts DEF Play!PlayInv, Play!ControlReachesPlay
  <1>6. s11' = Play!Cardinality(Play!Presenting') /\ s11' <= MaxPlays
    <2>1. s11' = Cardinality(Play!Presenting') /\ s11' <= MaxPlays
      BY <1>1, <1>3, <1>5, ReadersAssumption
    <2> QED BY <2>1, PlayCounts
  <1>7. \A p : Play!ControlOf(p)' = Play!ControlOf(p)
    BY <1>1 DEF Play!ControlOf
  <1>8. \A c : c \in s12 <=> \E p \in Play!Presenting : s10[p].id # 0 /\ c = Play!ControlOf(p)
    BY ControlsListed DEF Play!PlayInv
  <1>9. Play!IdsApart /\ Play!IdsApart'
    BY <1>1, <1>2 DEF Play!PlayInv, Play!IdsApart
  <1>10. \A c : c \in s12' <=> \E p \in Play!Presenting' : s10'[p].id # 0 /\ c = Play!ControlOf(p)'
    BY <1>1, <1>2, <1>7, <1>8, <1>9, ControlField DEF Play!IdsApart
  <1>11. Play!ControlReachesPlay'
    BY <1>6, <1>10 DEF Play!ControlReachesPlay
  <1> QED BY <1>4, <1>9, <1>11 DEF Play!PlayInv

\* A player that is still finding its source changes nothing of those that present.
LEMMA PlayMoves ==
    ASSUME Play!PlayInv, NEW r \in Plays,
           Play!LoadForPlay(r) \/ Play!PlayRefused(r) \/ Play!SourceResolved(r)
    PROVE  Play!PlayInv'
  <1>1. Play!Presenting' = Play!Presenting /\ (\A p \in Play!Presenting : s10'[p] = s10[p])
        /\ UNCHANGED <<s11, s12>>
    BY DEF Play!LoadForPlay, Play!PlayRefused, Play!SourceResolved, Play!At, Play!PlayInv,
       Play!PlayType,
           Play!Presenting
  <1>2. Play!PlayType'
    BY <1>1 DEF Play!LoadForPlay, Play!PlayRefused, Play!SourceResolved, Play!At, Play!PlayInv,
       Play!PlayType
  <1> QED BY <1>1, <1>2, PlayElsewhere

\* Every step of the readers keeps what is said of the playbacks.
LEMMA PlayStep == ASSUME Play!PlayInv, [Play!RdNext]_(Play!rdvars) PROVE Play!PlayInv'
  <1>0. ASSUME UNCHANGED <<s9, s10, s11, s12>> PROVE Play!PlayInv'
    <2>1. Play!Presenting' = Play!Presenting
      BY <1>0 DEF Play!Presenting
    <2>2. Play!PlayType'
      BY <1>0, <2>1 DEF Play!PlayInv, Play!PlayType
    <2> QED BY <1>0, <2>1, <2>2, PlayElsewhere
  <1>1. CASE UNCHANGED Play!rdvars
    BY <1>0, <1>1 DEF Play!rdvars, Play!plvars
  <1>2. CASE Play!ReplaceFile \/ Play!DeleteFile
    BY <1>0, <1>2 DEF Play!ReplaceFile, Play!DeleteFile, Play!plvars
  <1>3. ASSUME NEW u \in Users, NEW i \in ControlIds, NEW p \in BOOLEAN, Play!Control(u, i, p)
        PROVE  Play!PlayInv'
    BY <1>0, <1>3 DEF Play!Control
  <1>4. ASSUME NEW r \in {1},
               \/ Play!LoadForExport(r) \/ Play!ExportRefused(r) \/ Play!ReserveExport(r)
               \/ Play!CheckerStarts(r) \/ Play!CheckerEnds(r) \/ Play!CheckerRejects(r)
               \/ Play!Validated(r) \/ Play!ExportCancelled(r) \/ Play!ValidationFinished(r)
               \/ Play!StreamLooks(r) \/ Play!StreamOpens(r) \/ Play!StreamChunk(r)
               \/ Play!StreamEnds(r) \/ Play!StreamFails(r)
        PROVE  Play!PlayInv'
    <2>1. UNCHANGED Play!plvars
      BY <1>4 DEF Play!LoadForExport, Play!ExportRefused, Play!ReserveExport, Play!CheckerStarts,
         Play!CheckerEnds, Play!CheckerRejects, Play!Validated, Play!ExportCancelled,
         Play!ValidationFinished, Play!StreamLooks, Play!StreamOpens, Play!StreamChunk, Play!StreamEnds,
         Play!StreamFails
    <2> QED BY <1>0, <2>1 DEF Play!plvars
  <1>5. ASSUME NEW r \in Plays, \/ Play!LoadForPlay(r) \/ Play!PlayRefused(r) \/ Play!ReservePlay(r)
               \/ Play!SourceResolved(r) \/ Play!SourceUnavailable(r) \/ Play!PlayReturns(r)
        PROVE  Play!PlayInv'
    BY <1>5, PlayMoves, PlayReserved, PlayEnded
    DEF Play!SourceUnavailable, Play!PlayReturns, Play!Presenting
  <1>6. CASE Play!RdNext
    BY Zenon, <1>2, <1>3, <1>4, <1>5, <1>6 DEF Play!RdNext
  <1> QED BY <1>1, <1>6

-----------------------------------------------------------------------------
(* The presentation supervisor.                                            *)

\* Nothing runs and nothing is owed.
LEMMA SupBegins == ASSUME Supervisor!SupInit PROVE Supervisor!SupInv
  BY SupervisorAssumption
  DEF Supervisor!SupInit, Supervisor!SupInv, Supervisor!SupType, Supervisor!Busy, Supervisor!CallHolds,
      Supervisor!HostHolds, Supervisor!OneGenerationPresents, Supervisor!Gens

\* The host's generation, when it has one, is one of those that can be counted.
LEMMA Current == ASSUME Supervisor!SupType, s8 # 0 PROVE s8 \in Supervisor!Gens /\ s8 = s7 /\ s13[s8] \in Nat
  BY SupervisorAssumption DEF Supervisor!SupType, Supervisor!Gens

\* Accounting the host's generation changes no count that was reported.
LEMMA Accounted ==
    ASSUME Supervisor!SupType, NEW s, NEW f, Supervisor!AccountCurrent(s, f), UNCHANGED <<s7, s8, s13>>
    PROVE  /\ s9' \in 0..s7 /\ s10' \in Nat /\ (s8 # 0 => s9' = s7)
           /\ Supervisor!Snapshot' = Supervisor!Snapshot /\ Supervisor!Snapshot \in Nat
  BY Current DEF Supervisor!AccountCurrent, Supervisor!Unaccounted, Supervisor!Snapshot,
     Supervisor!SupType
\* What is not accounted for does not change with the totals and the generations as they are.
LEMMA NotAccounted ==
    ASSUME Supervisor!SupType, UNCHANGED <<s7, s8, s9, s10, s13>>
    PROVE  Supervisor!Snapshot' = Supervisor!Snapshot /\ Supervisor!Snapshot \in Nat
  BY Current DEF Supervisor!Unaccounted, Supervisor!Snapshot, Supervisor!SupType
\* A generation that is counted is let go, or followed by one that has shown nothing.
LEMMA Replaced ==
    ASSUME Supervisor!SupType, Supervisor!HostHolds, s8 # 0 => s9 = s7, UNCHANGED <<s9, s10, s13>>,
           s8' = 0 \/ (s8' = s7 + 1 /\ s7' = s7 + 1 /\ s7 < MaxGenerations)
    PROVE  Supervisor!Snapshot' = Supervisor!Snapshot /\ Supervisor!Snapshot \in Nat
  <1>1. CASE s8' = 0
    BY <1>1 DEF Supervisor!Unaccounted, Supervisor!Snapshot, Supervisor!SupType
  <1>2. CASE s8' = s7 + 1 /\ s7 < MaxGenerations
    <2>1. s7 + 1 \in Supervisor!Gens /\ s7 + 1 > s7
      BY <1>2, SupervisorAssumption DEF Supervisor!SupType, Supervisor!Gens
    <2>2. s13[s7 + 1] = 0
      BY <2>1 DEF Supervisor!HostHolds
    <2> QED BY <1>2, <2>2 DEF Supervisor!Unaccounted, Supervisor!Snapshot, Supervisor!SupType
  <1> QED BY <1>1, <1>2

\* One call holds the lock at a time.
LEMMA OneBusy ==
    ASSUME Supervisor!SupInv, NEW c \in Calls, c \in Supervisor!Busy \/ Supervisor!LockFree,
           NEW at, s1' = [s1 EXCEPT ![c] = at]
    PROVE  Supervisor!Busy' \subseteq {c} /\ (at \in {"idle", "queued"} => Supervisor!Busy' = {})
  BY DEF Supervisor!SupInv, Supervisor!SupType, Supervisor!CallHolds, Supervisor!Busy,
     Supervisor!LockFree

\* A frame is delivered.
LEMMA SupDelivers ==
    ASSUME Supervisor!SupInv, NEW g \in Supervisor!Gens, Supervisor!Deliver(g)
    PROVE  Supervisor!SupInv' /\ Supervisor!TotalsNeverDrop
  <1> USE SupervisorAssumption, Current DEF Supervisor!SupInv, Supervisor!SupType, Supervisor!HostHolds, Supervisor!OneGenerationPresents, Supervisor!CallHolds, Supervisor!Gens, Supervisor!Busy, Supervisor!Deliver, Supervisor!callvars, Supervisor!hostvars, Supervisor!runvars
  <1>1. Supervisor!Busy' \subseteq Supervisor!Busy
    OBVIOUS
  <1>2. Supervisor!SupType'
    OBVIOUS
  <1>3. \A d \in Supervisor!Busy' : Supervisor!CallHolds(d)'
    BY <1>1
  <1>4. Supervisor!HostHolds'
    OBVIOUS
  <1>5. Supervisor!OneGenerationPresents'
    OBVIOUS
  <1>6. Supervisor!TotalsNeverDrop
    <2>1. s13' = [s13 EXCEPT ![g] = s13[g] + 1] /\ UNCHANGED <<s7, s8, s9, s10>> /\ Supervisor!SupType
      OBVIOUS
    <2>2. s8 # 0 => s13[s8] \in Nat /\ s13'[s8] \in Nat /\ s13'[s8] >= s13[s8]
      BY <2>1
    <2> QED BY <2>1, <2>2 DEF Supervisor!TotalsNeverDrop, Supervisor!Snapshot, Supervisor!Unaccounted
  <1> QED BY <1>2, <1>3, <1>4, <1>5, <1>6

\* A presentation ends.
LEMMA SupEnds ==
    ASSUME Supervisor!SupInv, NEW g \in Supervisor!Gens, Supervisor!Ends(g)
    PROVE  Supervisor!SupInv' /\ Supervisor!TotalsNeverDrop
  <1> USE SupervisorAssumption, Current DEF Supervisor!SupInv, Supervisor!SupType, Supervisor!HostHolds, Supervisor!OneGenerationPresents, Supervisor!CallHolds, Supervisor!Gens, Supervisor!Busy, Supervisor!Ends, Supervisor!callvars, Supervisor!hostvars, Supervisor!runvars
  <1>1. Supervisor!Busy' \subseteq Supervisor!Busy
    OBVIOUS
  <1>2. Supervisor!SupType'
    OBVIOUS
  <1>3. \A d \in Supervisor!Busy' : Supervisor!CallHolds(d)'
    BY <1>1
  <1>4. Supervisor!HostHolds'
    OBVIOUS
  <1>5. Supervisor!OneGenerationPresents'
    OBVIOUS
  <1>6. Supervisor!TotalsNeverDrop
    BY NotAccounted DEF Supervisor!TotalsNeverDrop
  <1> QED BY <1>2, <1>3, <1>4, <1>5, <1>6

\* A call queues for the lock.
LEMMA SupRequests ==
    ASSUME Supervisor!SupInv, NEW c \in Calls, NEW op \in Supervisor!Ops, Supervisor!Request(c, op)
    PROVE  Supervisor!SupInv' /\ Supervisor!TotalsNeverDrop
  <1> USE DEF Supervisor!Request, Supervisor!Goto, Supervisor!Busy, Supervisor!SupInv, Supervisor!SupType, Supervisor!callvars, Supervisor!hostvars, Supervisor!runvars
  <1>1. Supervisor!Busy' \subseteq Supervisor!Busy
    OBVIOUS
  <1>2. Supervisor!SupType'
    BY SupervisorAssumption, Current DEF Supervisor!HostHolds, Supervisor!OneGenerationPresents,
       Supervisor!CallHolds, Supervisor!Gens
  <1>3. \A d \in Supervisor!Busy' : Supervisor!CallHolds(d)'
    BY <1>1, SupervisorAssumption, Current DEF Supervisor!HostHolds,
       Supervisor!OneGenerationPresents, Supervisor!CallHolds, Supervisor!Gens
  <1>4. Supervisor!HostHolds'
    BY SupervisorAssumption, Current DEF Supervisor!HostHolds, Supervisor!OneGenerationPresents,
       Supervisor!CallHolds, Supervisor!Gens
  <1>5. Supervisor!OneGenerationPresents'
    BY SupervisorAssumption, Current DEF Supervisor!HostHolds, Supervisor!OneGenerationPresents,
       Supervisor!CallHolds, Supervisor!Gens
  <1>6. Supervisor!TotalsNeverDrop
    BY NotAccounted, SupervisorAssumption DEF Supervisor!TotalsNeverDrop
  <1> QED BY <1>2, <1>3, <1>4, <1>5, <1>6

\* A wait holds the lock.
LEMMA SupWaits ==
    ASSUME Supervisor!SupInv, NEW c \in Calls, Supervisor!Wait(c)
    PROVE  Supervisor!SupInv' /\ Supervisor!TotalsNeverDrop
  <1> USE SupervisorAssumption DEF Supervisor!SupInv, Supervisor!Wait, Supervisor!Enter, Supervisor!Refuse, Supervisor!Done, Supervisor!Goto, Supervisor!FailCall, Supervisor!callvars, Supervisor!hostvars, Supervisor!runvars
  <1>0. PICK at : s1' = [s1 EXCEPT ![c] = at]
    OBVIOUS
  <1>1. Supervisor!Busy' \subseteq {c} /\ (at = "idle" => Supervisor!Busy' = {}) /\ (c \in Supervisor!Busy \/ Supervisor!LockFree)
    BY <1>0, OneBusy DEF Supervisor!Busy
  <1>2. Supervisor!SupType'
    BY Current DEF Supervisor!SupType, Supervisor!HostHolds, Supervisor!OneGenerationPresents,
       Supervisor!CallHolds, Supervisor!Gens, Supervisor!Busy
  <1>3. \A d \in Supervisor!Busy' : Supervisor!CallHolds(d)'
    BY <1>0, <1>1, Current DEF Supervisor!SupType, Supervisor!HostHolds,
       Supervisor!OneGenerationPresents, Supervisor!CallHolds, Supervisor!Gens, Supervisor!Busy
  <1>4. Supervisor!HostHolds'
    BY Current DEF Supervisor!SupType, Supervisor!HostHolds, Supervisor!OneGenerationPresents,
       Supervisor!CallHolds, Supervisor!Gens, Supervisor!Busy
  <1>5. Supervisor!OneGenerationPresents'
    BY Current DEF Supervisor!SupType, Supervisor!HostHolds, Supervisor!OneGenerationPresents,
       Supervisor!CallHolds, Supervisor!Gens, Supervisor!Busy
  <1>6. Supervisor!TotalsNeverDrop
    BY NotAccounted DEF Supervisor!TotalsNeverDrop
  <1> QED BY <1>2, <1>3, <1>4, <1>5, <1>6

\* A stop reaches the running host.
LEMMA SupStops ==
    ASSUME Supervisor!SupInv, NEW c \in Calls, Supervisor!Stop(c)
    PROVE  Supervisor!SupInv' /\ Supervisor!TotalsNeverDrop
  <1> USE DEF Supervisor!Stop, Supervisor!Enter, Supervisor!Refuse, Supervisor!Done, Supervisor!Goto, Supervisor!FailCall, Supervisor!Synced
  <1>0. PICK at : s1' = [s1 EXCEPT ![c] = at]
    OBVIOUS
  <1>1. Supervisor!Busy' \subseteq {c} /\ (at = "idle" => Supervisor!Busy' = {}) /\ (c \in Supervisor!Busy \/ Supervisor!LockFree)
    BY <1>0, OneBusy DEF Supervisor!Busy
  <1>2. Supervisor!SupType'
    BY SupervisorAssumption, Current DEF Supervisor!SupInv, Supervisor!SupType,
       Supervisor!HostHolds, Supervisor!OneGenerationPresents, Supervisor!CallHolds,
       Supervisor!Gens, Supervisor!Busy, Supervisor!callvars, Supervisor!hostvars,
       Supervisor!runvars
  <1>3. \A d \in Supervisor!Busy' : Supervisor!CallHolds(d)'
    BY <1>0, <1>1, SupervisorAssumption, Current DEF Supervisor!SupInv, Supervisor!SupType,
       Supervisor!HostHolds, Supervisor!OneGenerationPresents, Supervisor!CallHolds,
       Supervisor!Gens, Supervisor!Busy, Supervisor!callvars, Supervisor!hostvars,
       Supervisor!runvars
  <1>4. Supervisor!HostHolds'
    BY SupervisorAssumption, Current DEF Supervisor!SupInv, Supervisor!SupType,
       Supervisor!HostHolds, Supervisor!OneGenerationPresents, Supervisor!CallHolds,
       Supervisor!Gens, Supervisor!Busy, Supervisor!callvars, Supervisor!hostvars,
       Supervisor!runvars
  <1>5. Supervisor!OneGenerationPresents'
    BY SupervisorAssumption, Current DEF Supervisor!SupInv, Supervisor!SupType,
       Supervisor!HostHolds, Supervisor!OneGenerationPresents, Supervisor!CallHolds,
       Supervisor!Gens, Supervisor!Busy, Supervisor!callvars, Supervisor!hostvars,
       Supervisor!runvars
  <1>6. Supervisor!TotalsNeverDrop
    BY NotAccounted, SupervisorAssumption DEF Supervisor!callvars, Supervisor!hostvars,
       Supervisor!runvars, Supervisor!TotalsNeverDrop, Supervisor!SupInv
  <1> QED BY <1>2, <1>3, <1>4, <1>5, <1>6 DEF Supervisor!SupInv

\* A close stops first, or accounts and releases.
LEMMA SupCloses ==
    ASSUME Supervisor!SupInv, NEW c \in Calls, Supervisor!Close(c)
    PROVE  Supervisor!SupInv' /\ Supervisor!TotalsNeverDrop
  <1> USE SupervisorAssumption, Current DEF Supervisor!SupInv, Supervisor!SupType, Supervisor!HostHolds, Supervisor!OneGenerationPresents, Supervisor!CallHolds, Supervisor!Gens, Supervisor!Busy, Supervisor!Close, Supervisor!Enter, Supervisor!Refuse, Supervisor!Done, Supervisor!Goto, Supervisor!FailCall, Supervisor!callvars, Supervisor!hostvars, Supervisor!runvars
  <1>0. PICK at : s1' = [s1 EXCEPT ![c] = at]
    OBVIOUS
  <1>1. Supervisor!Busy' \subseteq {c} /\ (at = "idle" => Supervisor!Busy' = {}) /\ (c \in Supervisor!Busy \/ Supervisor!LockFree)
    BY <1>0, OneBusy
  <1>2. Supervisor!SupType'
    BY Accounted
  <1>3. \A d \in Supervisor!Busy' : Supervisor!CallHolds(d)'
    BY <1>0, <1>1, Accounted
  <1>4. Supervisor!HostHolds'
    BY Accounted
  <1>5. Supervisor!OneGenerationPresents'
    OBVIOUS
  <1>6. Supervisor!TotalsNeverDrop
    <2>1. UNCHANGED <<s7, s8, s13>>
          /\ (UNCHANGED <<s9, s10>> \/ \E s, f : Supervisor!AccountCurrent(s, f))
      OBVIOUS
    <2>2. Supervisor!Snapshot' = Supervisor!Snapshot /\ Supervisor!Snapshot \in Nat
      BY <2>1, Accounted, NotAccounted
    <2> QED BY <2>2 DEF Supervisor!TotalsNeverDrop
  <1> QED BY <1>2, <1>3, <1>4, <1>5, <1>6

\* The new generation runs.
LEMMA SupStarted ==
    ASSUME Supervisor!SupInv, NEW c \in Calls, Supervisor!Started(c)
    PROVE  Supervisor!SupInv' /\ Supervisor!TotalsNeverDrop
  <1> USE SupervisorAssumption DEF Supervisor!SupInv, Supervisor!Started, Supervisor!Done, Supervisor!Goto, Supervisor!callvars, Supervisor!hostvars, Supervisor!runvars
  <1>0. PICK at : s1' = [s1 EXCEPT ![c] = at]
    OBVIOUS
  <1>1. Supervisor!Busy' \subseteq {c} /\ (at = "idle" => Supervisor!Busy' = {}) /\ (c \in Supervisor!Busy \/ Supervisor!LockFree)
    BY <1>0, OneBusy DEF Supervisor!Busy
  <1>2. Supervisor!SupType'
    BY Current DEF Supervisor!SupType, Supervisor!HostHolds, Supervisor!OneGenerationPresents,
       Supervisor!CallHolds, Supervisor!Gens, Supervisor!Busy
  <1>3. \A d \in Supervisor!Busy' : Supervisor!CallHolds(d)'
    BY <1>0, <1>1, Current DEF Supervisor!SupType, Supervisor!HostHolds,
       Supervisor!OneGenerationPresents, Supervisor!CallHolds, Supervisor!Gens, Supervisor!Busy
  <1>4. Supervisor!HostHolds'
    BY Current DEF Supervisor!SupType, Supervisor!HostHolds, Supervisor!OneGenerationPresents,
       Supervisor!CallHolds, Supervisor!Gens, Supervisor!Busy
  <1>5. Supervisor!OneGenerationPresents'
    BY Current DEF Supervisor!SupType, Supervisor!HostHolds, Supervisor!OneGenerationPresents,
       Supervisor!CallHolds, Supervisor!Gens, Supervisor!Busy
  <1>6. Supervisor!TotalsNeverDrop
    BY NotAccounted DEF Supervisor!TotalsNeverDrop
  <1> QED BY <1>2, <1>3, <1>4, <1>5, <1>6

\* The start fails with its generation kept.
LEMMA SupStartFails ==
    ASSUME Supervisor!SupInv, NEW c \in Calls, Supervisor!StartFails(c)
    PROVE  Supervisor!SupInv' /\ Supervisor!TotalsNeverDrop
  <1> USE SupervisorAssumption DEF Supervisor!SupInv, Supervisor!StartFails, Supervisor!FailHost, Supervisor!FailCall, Supervisor!Done, Supervisor!Goto, Supervisor!callvars, Supervisor!hostvars, Supervisor!runvars
  <1>0. PICK at : s1' = [s1 EXCEPT ![c] = at]
    OBVIOUS
  <1>1. Supervisor!Busy' \subseteq {c} /\ (at = "idle" => Supervisor!Busy' = {}) /\ (c \in Supervisor!Busy \/ Supervisor!LockFree)
    BY <1>0, OneBusy DEF Supervisor!Busy
  <1>2. Supervisor!SupType'
    BY Current DEF Supervisor!SupType, Supervisor!HostHolds, Supervisor!OneGenerationPresents,
       Supervisor!CallHolds, Supervisor!Gens, Supervisor!Busy
  <1>3. \A d \in Supervisor!Busy' : Supervisor!CallHolds(d)'
    BY <1>0, <1>1, Current DEF Supervisor!SupType, Supervisor!HostHolds,
       Supervisor!OneGenerationPresents, Supervisor!CallHolds, Supervisor!Gens, Supervisor!Busy
  <1>4. Supervisor!HostHolds'
    BY Current DEF Supervisor!SupType, Supervisor!HostHolds, Supervisor!OneGenerationPresents,
       Supervisor!CallHolds, Supervisor!Gens, Supervisor!Busy
  <1>5. Supervisor!OneGenerationPresents'
    BY Current DEF Supervisor!SupType, Supervisor!HostHolds, Supervisor!OneGenerationPresents,
       Supervisor!CallHolds, Supervisor!Gens, Supervisor!Busy
  <1>6. Supervisor!TotalsNeverDrop
    BY NotAccounted DEF Supervisor!TotalsNeverDrop
  <1> QED BY <1>2, <1>3, <1>4, <1>5, <1>6

\* A prior generation that is not released stays.
LEMMA SupPriorFails ==
    ASSUME Supervisor!SupInv, NEW c \in Calls, Supervisor!PriorFails(c)
    PROVE  Supervisor!SupInv' /\ Supervisor!TotalsNeverDrop
  <1> USE SupervisorAssumption DEF Supervisor!SupInv, Supervisor!PriorFails, Supervisor!KeepPrior, Supervisor!FailHost, Supervisor!FailCall, Supervisor!Done, Supervisor!Goto, Supervisor!callvars, Supervisor!hostvars, Supervisor!runvars
  <1>0. PICK at : s1' = [s1 EXCEPT ![c] = at]
    OBVIOUS
  <1>1. Supervisor!Busy' \subseteq {c} /\ (at = "idle" => Supervisor!Busy' = {}) /\ (c \in Supervisor!Busy \/ Supervisor!LockFree)
    BY <1>0, OneBusy DEF Supervisor!Busy
  <1>2. Supervisor!SupType'
    BY Current DEF Supervisor!SupType, Supervisor!HostHolds, Supervisor!OneGenerationPresents,
       Supervisor!CallHolds, Supervisor!Gens, Supervisor!Busy
  <1>3. \A d \in Supervisor!Busy' : Supervisor!CallHolds(d)'
    BY <1>0, <1>1, Current DEF Supervisor!SupType, Supervisor!HostHolds,
       Supervisor!OneGenerationPresents, Supervisor!CallHolds, Supervisor!Gens, Supervisor!Busy
  <1>4. Supervisor!HostHolds'
    BY Current DEF Supervisor!SupType, Supervisor!HostHolds, Supervisor!OneGenerationPresents,
       Supervisor!CallHolds, Supervisor!Gens, Supervisor!Busy
  <1>5. Supervisor!OneGenerationPresents'
    BY Current DEF Supervisor!SupType, Supervisor!HostHolds, Supervisor!OneGenerationPresents,
       Supervisor!CallHolds, Supervisor!Gens, Supervisor!Busy
  <1>6. Supervisor!TotalsNeverDrop
    BY NotAccounted DEF Supervisor!TotalsNeverDrop
  <1> QED BY <1>2, <1>3, <1>4, <1>5, <1>6

\* A generation begins, the one before it counted and released.
LEMMA SupNewGeneration ==
    ASSUME Supervisor!SupInv, NEW c \in Calls, c \in Supervisor!Busy \/ Supervisor!LockFree,
           s6 # "running", s4 # "closed", s8 # 0 => s9 = s7, s7 < MaxGenerations,
           s1' = [s1 EXCEPT ![c] = "start"], s7' = s7 + 1, s8' = s7 + 1, UNCHANGED <<s4, s6, s9, s10, s13>>,
           s12' = [g \in Supervisor!Gens |->
                    IF g = s7 + 1 THEN "ready" ELSE IF s8 # 0 /\ g = s8 THEN "closed" ELSE s12[g]]
    PROVE  Supervisor!SupInv' /\ Supervisor!TotalsNeverDrop
  <1>1. s7 \in Nat /\ s7 + 1 \in Supervisor!Gens /\ MaxGenerations \in Nat
    BY SupervisorAssumption DEF Supervisor!SupInv, Supervisor!SupType, Supervisor!Gens
  <1>2. Supervisor!SupType'
    BY <1>1 DEF Supervisor!SupInv, Supervisor!SupType, Supervisor!Gens
  <1>3. \A d \in Supervisor!Busy' : Supervisor!CallHolds(d)'
      <2>1. Supervisor!Busy' \subseteq {c} /\ s1'[c] = "start"
        BY <1>1, OneBusy DEF Supervisor!SupInv, Supervisor!SupType
      <2> QED BY <2>1, <1>1, SupervisorAssumption DEF Supervisor!SupInv, Supervisor!SupType, Supervisor!CallHolds, Supervisor!HostHolds
  <1>4. Supervisor!HostHolds'
    BY <1>1 DEF Supervisor!SupInv, Supervisor!SupType, Supervisor!HostHolds, Supervisor!Gens
  <1>5. Supervisor!OneGenerationPresents'
    BY <1>1 DEF Supervisor!SupInv, Supervisor!SupType, Supervisor!OneGenerationPresents,
       Supervisor!Gens
  <1>6. Supervisor!Snapshot' = Supervisor!Snapshot /\ Supervisor!Snapshot \in Nat
    BY Replaced DEF Supervisor!SupInv
  <1> QED BY <1>2, <1>3, <1>4, <1>5, <1>6 DEF Supervisor!SupInv, Supervisor!TotalsNeverDrop

\* A call fails: the host as it is, or failed, its generation kept or released.
LEMMA SupCallFails ==
    ASSUME Supervisor!SupInv, NEW c \in Calls, c \in Supervisor!Busy \/ Supervisor!LockFree,
           s4 # "closed", s6 # "running", s1' = [s1 EXCEPT ![c] = "idle"], s4' = "failed",
           s6' = "failed" \/ s6' = s6, UNCHANGED <<s7, s9, s10, s13>>,
           \/ UNCHANGED <<s8, s12>>
           \/ s8 # 0 /\ s9 = s7 /\ s8' = 0 /\ s12' = [s12 EXCEPT ![s8] = "closed"]
    PROVE  Supervisor!SupInv' /\ Supervisor!TotalsNeverDrop
  <1>0. /\ Supervisor!SupType /\ Supervisor!HostHolds /\ Supervisor!OneGenerationPresents
        /\ s8 # 0 => s8 \in Supervisor!Gens /\ s8 = s7
    BY Current DEF Supervisor!SupInv
  <1>1. Supervisor!SupType'
    <2>1. CASE UNCHANGED <<s8, s12>>
      BY <1>0, <2>1, SMTT(30) DEF Supervisor!SupType
    <2>2. CASE s8 # 0 /\ s9 = s7 /\ s8' = 0 /\ s12' = [s12 EXCEPT ![s8] = "closed"]
      BY <1>0, <2>2, SMTT(30) DEF Supervisor!SupType
    <2>3. QED
      BY <2>1, <2>2
  <1>2. Supervisor!Busy' = {}
    BY OneBusy
  <1>3. Supervisor!HostHolds' /\ Supervisor!OneGenerationPresents'
    <2>1. CASE UNCHANGED <<s8, s12>>
      BY <1>0, <2>1, SMTT(30) DEF Supervisor!HostHolds, Supervisor!OneGenerationPresents
    <2>2. CASE s8 # 0 /\ s9 = s7 /\ s8' = 0 /\ s12' = [s12 EXCEPT ![s8] = "closed"]
      <3>1. \A g \in Supervisor!Gens : s12'[g] = IF g = s8 THEN "closed" ELSE s12[g]
        BY <1>0, <2>2 DEF Supervisor!SupType
      <3>2. \A g \in Supervisor!Gens : g > s7 => g # s8
        BY <1>0, SupervisorAssumption DEF Supervisor!Gens, Supervisor!SupType
      <3>3. QED
        BY <1>0, <2>2, <3>1, <3>2, SMTT(30) DEF Supervisor!HostHolds, Supervisor!OneGenerationPresents
    <2>3. QED
      BY <2>1, <2>2
  <1>4. Supervisor!Snapshot' = Supervisor!Snapshot /\ Supervisor!Snapshot \in Nat
    BY NotAccounted, Replaced DEF Supervisor!SupInv
  <1> QED BY <1>1, <1>2, <1>3, <1>4 DEF Supervisor!SupInv, Supervisor!TotalsNeverDrop

\* A prior generation is released, and the next one begins or is refused.
LEMMA SupPriorClosed ==
    ASSUME Supervisor!SupInv, NEW c \in Calls, Supervisor!PriorClosed(c)
    PROVE  Supervisor!SupInv' /\ Supervisor!TotalsNeverDrop
  <1>1. c \in Supervisor!Busy /\ s8 # 0 /\ s9 = s7 /\ s7 < MaxGenerations /\ s6 # "running" /\ s4 # "closed"
    BY DEF Supervisor!PriorClosed, Supervisor!SupInv, Supervisor!CallHolds, Supervisor!Busy
  <1>2. s8 = s7 /\ s7 \in Nat /\ s7 + 1 \in Supervisor!Gens /\ s12 = [g \in Supervisor!Gens |-> s12[g]]
    BY <1>1, Current, SupervisorAssumption DEF Supervisor!SupInv, Supervisor!SupType,
       Supervisor!Gens
  <1>3. CASE /\ s12' = [s12 EXCEPT ![s8] = "closed", ![s7 + 1] = "ready"]
             /\ s1' = [s1 EXCEPT ![c] = "start"] /\ s7' = s7 + 1 /\ s8' = s7 + 1
             /\ UNCHANGED <<s6, s9, s10, s11, s4>> /\ UNCHANGED s13
    <2>1. s12' = [g \in Supervisor!Gens |->
                    IF g = s7 + 1 THEN "ready" ELSE IF s8 # 0 /\ g = s8 THEN "closed" ELSE s12[g]]
      BY <1>1, <1>2, <1>3
    <2> QED BY <1>1, <1>3, <2>1, SupNewGeneration
  <1>4. CASE /\ s12' = [s12 EXCEPT ![s8] = "closed"] /\ s8' = 0 /\ s4' = "failed"
             /\ s1' = [s1 EXCEPT ![c] = "idle"] /\ s6' = "failed" /\ UNCHANGED <<s7, s9, s10, s13>>
    BY <1>1, <1>4, SupCallFails
  <1> QED BY <1>3, <1>4
      DEF Supervisor!PriorClosed, Supervisor!Goto, Supervisor!FailCall, Supervisor!Done, Supervisor!FailHost

\* host.start, whoever asks for it.
LEMMA SupStartHost ==
    ASSUME Supervisor!SupInv, NEW c \in Calls, c \in Supervisor!Busy \/ Supervisor!LockFree,
           s6 # "running", s4 # "closed", Supervisor!StartHost(c), UNCHANGED s13
    PROVE  Supervisor!SupInv' /\ Supervisor!TotalsNeverDrop
  <1>1. CASE Supervisor!FailCall(c) /\ UNCHANGED <<Supervisor!hostvars, s12>>
    BY <1>1, SupCallFails DEF Supervisor!FailCall, Supervisor!Done, Supervisor!Goto,
       Supervisor!hostvars
  <1>2. CASE /\ ~Supervisor!StartRefused /\ s8 # 0 /\ Supervisor!Goto(c, "prior")
             /\ Supervisor!AccountCurrent(s6, 0) /\ UNCHANGED <<s6, s7, s8, s4, s12>>
    <2>1. /\ s9' \in 0..s7 /\ s10' \in Nat /\ s9' = s7 /\ s7 < MaxGenerations
          /\ Supervisor!Snapshot' = Supervisor!Snapshot /\ Supervisor!Snapshot \in Nat
      BY <1>2, Accounted, SupervisorAssumption DEF Supervisor!SupInv, Supervisor!SupType,
         Supervisor!StartRefused
    <2>2. s1' = [s1 EXCEPT ![c] = "prior"]
      BY <1>2 DEF Supervisor!Goto
    <2>3. Supervisor!SupType' /\ Supervisor!HostHolds' /\ Supervisor!OneGenerationPresents'
      BY <1>2, <2>1, <2>2 DEF Supervisor!SupInv, Supervisor!SupType, Supervisor!HostHolds,
         Supervisor!OneGenerationPresents
    <2>4. \A d \in Supervisor!Busy' : Supervisor!CallHolds(d)'
        <3>1. Supervisor!Busy' \subseteq {c} /\ s1'[c] = "prior"
          BY <1>2, <2>1, <2>2, OneBusy DEF Supervisor!SupInv, Supervisor!SupType
        <3> QED BY <3>1, <1>2, <2>1, <2>2, SupervisorAssumption DEF Supervisor!SupInv, Supervisor!SupType, Supervisor!CallHolds, Supervisor!HostHolds
    <2> QED BY <2>1, <2>3, <2>4 DEF Supervisor!SupInv, Supervisor!TotalsNeverDrop
  <1>3. CASE /\ ~Supervisor!StartRefused /\ s8 = 0 /\ Supervisor!Goto(c, "start") /\ s7' = s7 + 1
             /\ s8' = s7 + 1 /\ s12' = [s12 EXCEPT ![s7 + 1] = "ready"] /\ UNCHANGED <<s6, s9, s10, s11, s4>>
    <2>1. s7 < MaxGenerations /\ s12 = [g \in Supervisor!Gens |-> s12[g]]
      BY <1>3, SupervisorAssumption DEF Supervisor!SupInv, Supervisor!SupType,
         Supervisor!StartRefused
    <2>2. s12' = [g \in Supervisor!Gens |->
                    IF g = s7 + 1 THEN "ready" ELSE IF s8 # 0 /\ g = s8 THEN "closed" ELSE s12[g]]
      BY <1>3, <2>1
    <2> QED BY <1>3, <2>1, <2>2, SupNewGeneration DEF Supervisor!Goto
  <1>4. CASE Supervisor!FailCall(c) /\ Supervisor!FailHost /\ UNCHANGED <<s7, s8, s12>>
    BY <1>4, SupCallFails DEF Supervisor!FailCall, Supervisor!Done, Supervisor!Goto,
       Supervisor!FailHost
  <1> QED BY <1>1, <1>2, <1>3, <1>4 DEF Supervisor!StartHost

\* A refused call gives the lock back.
LEMMA SupRefused ==
    ASSUME Supervisor!SupInv, NEW c \in Calls, Supervisor!LockFree, Supervisor!Refuse(c), UNCHANGED s13
    PROVE  Supervisor!SupInv' /\ Supervisor!TotalsNeverDrop
  <1>1. s1' = [s1 EXCEPT ![c] = "idle"] /\ UNCHANGED <<s4, s6, s7, s8, s9, s10, s12, s13>>
    BY DEF Supervisor!Refuse, Supervisor!Done, Supervisor!Goto, Supervisor!hostvars
  <1>2. Supervisor!Busy' = {}
    BY <1>1, OneBusy
  <1>3. Supervisor!SupType' /\ Supervisor!HostHolds' /\ Supervisor!OneGenerationPresents'
    BY <1>1 DEF Supervisor!SupInv, Supervisor!SupType, Supervisor!HostHolds,
       Supervisor!OneGenerationPresents
  <1> QED BY <1>1, <1>2, <1>3, NotAccounted DEF Supervisor!SupInv, Supervisor!TotalsNeverDrop

\* A first presentation is refused or starts the host.
LEMMA SupPresents ==
    ASSUME Supervisor!SupInv, NEW c \in Calls, Supervisor!Present(c)
    PROVE  Supervisor!SupInv' /\ Supervisor!TotalsNeverDrop
  <1>1. Supervisor!LockFree /\ UNCHANGED s13
        /\ (Supervisor!Refuse(c) \/ (s4 = "ready" /\ Supervisor!StartHost(c)))
    BY DEF Supervisor!Present, Supervisor!Enter
  <1>2. s4 = "ready" => s6 # "running"
    BY DEF Supervisor!SupInv, Supervisor!HostHolds
  <1> QED BY <1>1, <1>2, SupRefused, SupStartHost

\* A replacement is refused, starts the host, or stops the one that runs first.
LEMMA SupReplaces ==
    ASSUME Supervisor!SupInv, NEW c \in Calls, Supervisor!Replace(c)
    PROVE  Supervisor!SupInv' /\ Supervisor!TotalsNeverDrop
  <1>1. Supervisor!LockFree /\ UNCHANGED s13
    BY DEF Supervisor!Replace, Supervisor!Enter
  <1>2. CASE Supervisor!Refuse(c)
    BY <1>1, <1>2, SupRefused
  <1>3. CASE Supervisor!CanReplace /\ s6 # "running" /\ Supervisor!StartHost(c)
    BY <1>1, <1>3, SupStartHost DEF Supervisor!CanReplace
  <1>4. CASE /\ Supervisor!CanReplace /\ s6 = "running" /\ Supervisor!Goto(c, "stop")
             /\ UNCHANGED <<s4, Supervisor!hostvars, s12>>
    <2>1. s1' = [s1 EXCEPT ![c] = "stop"] /\ UNCHANGED <<s4, s6, s7, s8, s9, s10, s12, s13>> /\ s4 # "closed"
      BY <1>1, <1>4 DEF Supervisor!Goto, Supervisor!hostvars, Supervisor!CanReplace
    <2>2. Supervisor!SupType' /\ Supervisor!HostHolds' /\ Supervisor!OneGenerationPresents'
      BY <2>1 DEF Supervisor!SupInv, Supervisor!SupType, Supervisor!HostHolds,
         Supervisor!OneGenerationPresents
    <2>3. \A d \in Supervisor!Busy' : Supervisor!CallHolds(d)'
        <3>1. Supervisor!Busy' \subseteq {c} /\ s1'[c] = "stop"
          BY <1>1, <1>4, <2>1, OneBusy DEF Supervisor!SupInv, Supervisor!SupType
        <3> QED BY <3>1, <1>1, <1>4, <2>1, SupervisorAssumption DEF Supervisor!SupInv, Supervisor!SupType, Supervisor!CallHolds, Supervisor!HostHolds
    <2> QED BY <2>1, <2>2, <2>3, NotAccounted DEF Supervisor!SupInv, Supervisor!TotalsNeverDrop
  <1> QED BY <1>2, <1>3, <1>4 DEF Supervisor!Replace

\* It then starts its own.
LEMMA SupReplaceStarts ==
    ASSUME Supervisor!SupInv, NEW c \in Calls, Supervisor!ReplaceStart(c)
    PROVE  Supervisor!SupInv' /\ Supervisor!TotalsNeverDrop
  <1>1. c \in Supervisor!Busy /\ s6 # "running" /\ s4 # "closed"
    BY DEF Supervisor!ReplaceStart, Supervisor!SupInv, Supervisor!Busy, Supervisor!CallHolds
  <1> QED BY <1>1, SupStartHost DEF Supervisor!ReplaceStart

\* The presentation that was waited for has ended.
LEMMA SupWaited ==
    ASSUME Supervisor!SupInv, NEW c \in Calls, Supervisor!Waited(c)
    PROVE  Supervisor!SupInv' /\ Supervisor!TotalsNeverDrop
  <1> USE SupervisorAssumption DEF Supervisor!SupInv, Supervisor!Waited, Supervisor!Synced, Supervisor!Done, Supervisor!Goto, Supervisor!callvars, Supervisor!hostvars, Supervisor!runvars
  <1>0. PICK at : s1' = [s1 EXCEPT ![c] = at]
    OBVIOUS
  <1>1. Supervisor!Busy' \subseteq {c} /\ (at = "idle" => Supervisor!Busy' = {}) /\ (c \in Supervisor!Busy \/ Supervisor!LockFree)
    BY <1>0, OneBusy DEF Supervisor!Busy
  <1>2. Supervisor!SupType'
    BY Accounted, Current DEF Supervisor!SupType, Supervisor!HostHolds,
       Supervisor!OneGenerationPresents, Supervisor!CallHolds, Supervisor!Gens, Supervisor!Busy
  <1>3. \A d \in Supervisor!Busy' : Supervisor!CallHolds(d)'
    BY <1>0, <1>1, Accounted, Current DEF Supervisor!SupType, Supervisor!HostHolds,
       Supervisor!OneGenerationPresents, Supervisor!CallHolds, Supervisor!Gens, Supervisor!Busy
  <1>4. Supervisor!HostHolds'
    BY Accounted, Current DEF Supervisor!SupType, Supervisor!HostHolds,
       Supervisor!OneGenerationPresents, Supervisor!CallHolds, Supervisor!Gens, Supervisor!Busy
  <1>5. Supervisor!OneGenerationPresents'
    BY Current DEF Supervisor!SupType, Supervisor!HostHolds, Supervisor!OneGenerationPresents,
       Supervisor!CallHolds, Supervisor!Gens, Supervisor!Busy
  <1>6. Supervisor!TotalsNeverDrop
    BY Accounted DEF Supervisor!TotalsNeverDrop
  <1> QED BY <1>2, <1>3, <1>4, <1>5, <1>6

\* The host has stopped its generation.
LEMMA SupStopped ==
    ASSUME Supervisor!SupInv, NEW c \in Calls, Supervisor!Stopped(c)
    PROVE  Supervisor!SupInv' /\ Supervisor!TotalsNeverDrop
  <1> USE SupervisorAssumption DEF Supervisor!SupInv, Supervisor!Stopped, Supervisor!Halted, Supervisor!Synced, Supervisor!Done, Supervisor!Goto, Supervisor!callvars, Supervisor!hostvars, Supervisor!runvars
  <1>0. PICK at : s1' = [s1 EXCEPT ![c] = at]
    OBVIOUS
  <1>1. Supervisor!Busy' \subseteq {c} /\ (at = "idle" => Supervisor!Busy' = {}) /\ (c \in Supervisor!Busy \/ Supervisor!LockFree)
    BY <1>0, OneBusy DEF Supervisor!Busy
  <1>2. Supervisor!SupType'
    BY Accounted, Current DEF Supervisor!SupType, Supervisor!HostHolds,
       Supervisor!OneGenerationPresents, Supervisor!CallHolds, Supervisor!Gens, Supervisor!Busy
  <1>3. \A d \in Supervisor!Busy' : Supervisor!CallHolds(d)'
    BY <1>0, <1>1, Accounted, Current DEF Supervisor!SupType, Supervisor!HostHolds,
       Supervisor!OneGenerationPresents, Supervisor!CallHolds, Supervisor!Gens, Supervisor!Busy
  <1>4. Supervisor!HostHolds'
    BY Accounted, Current DEF Supervisor!SupType, Supervisor!HostHolds,
       Supervisor!OneGenerationPresents, Supervisor!CallHolds, Supervisor!Gens, Supervisor!Busy
  <1>5. Supervisor!OneGenerationPresents'
    BY Current DEF Supervisor!SupType, Supervisor!HostHolds, Supervisor!OneGenerationPresents,
       Supervisor!CallHolds, Supervisor!Gens, Supervisor!Busy
  <1>6. Supervisor!TotalsNeverDrop
    BY Accounted DEF Supervisor!TotalsNeverDrop
  <1> QED BY <1>2, <1>3, <1>4, <1>5, <1>6

\* A stop fails.
LEMMA SupStopFails ==
    ASSUME Supervisor!SupInv, NEW c \in Calls, Supervisor!StopFails(c)
    PROVE  Supervisor!SupInv' /\ Supervisor!TotalsNeverDrop
  <1> USE SupervisorAssumption DEF Supervisor!SupInv, Supervisor!StopFails, Supervisor!FailCall, Supervisor!Done, Supervisor!Goto, Supervisor!callvars, Supervisor!hostvars, Supervisor!runvars
  <1>0. PICK at : s1' = [s1 EXCEPT ![c] = at]
    OBVIOUS
  <1>1. Supervisor!Busy' \subseteq {c} /\ (at = "idle" => Supervisor!Busy' = {}) /\ (c \in Supervisor!Busy \/ Supervisor!LockFree)
    BY <1>0, OneBusy DEF Supervisor!Busy
  <1>2. Supervisor!SupType'
    BY Accounted, Current DEF Supervisor!SupType, Supervisor!HostHolds,
       Supervisor!OneGenerationPresents, Supervisor!CallHolds, Supervisor!Gens, Supervisor!Busy
  <1>3. \A d \in Supervisor!Busy' : Supervisor!CallHolds(d)'
    BY <1>0, <1>1, Accounted, Current DEF Supervisor!SupType, Supervisor!HostHolds,
       Supervisor!OneGenerationPresents, Supervisor!CallHolds, Supervisor!Gens, Supervisor!Busy
  <1>4. Supervisor!HostHolds'
    BY Accounted, Current DEF Supervisor!SupType, Supervisor!HostHolds,
       Supervisor!OneGenerationPresents, Supervisor!CallHolds, Supervisor!Gens, Supervisor!Busy
  <1>5. Supervisor!OneGenerationPresents'
    BY Current DEF Supervisor!SupType, Supervisor!HostHolds, Supervisor!OneGenerationPresents,
       Supervisor!CallHolds, Supervisor!Gens, Supervisor!Busy
  <1>6. Supervisor!TotalsNeverDrop
    BY Accounted DEF Supervisor!TotalsNeverDrop
  <1> QED BY <1>2, <1>3, <1>4, <1>5, <1>6

\* A close has stopped the generation.
LEMMA SupCloseStopped ==
    ASSUME Supervisor!SupInv, NEW c \in Calls, Supervisor!CloseStopped(c)
    PROVE  Supervisor!SupInv' /\ Supervisor!TotalsNeverDrop
  <1> USE SupervisorAssumption DEF Supervisor!SupInv, Supervisor!CloseStopped, Supervisor!Halted, Supervisor!Goto, Supervisor!callvars, Supervisor!hostvars, Supervisor!runvars
  <1>0. PICK at : s1' = [s1 EXCEPT ![c] = at]
    OBVIOUS
  <1>1. Supervisor!Busy' \subseteq {c} /\ (at = "idle" => Supervisor!Busy' = {}) /\ (c \in Supervisor!Busy \/ Supervisor!LockFree)
    BY <1>0, OneBusy DEF Supervisor!Busy
  <1>2. Supervisor!SupType'
    BY Accounted, Current DEF Supervisor!SupType, Supervisor!HostHolds,
       Supervisor!OneGenerationPresents, Supervisor!CallHolds, Supervisor!Gens, Supervisor!Busy
  <1>3. \A d \in Supervisor!Busy' : Supervisor!CallHolds(d)'
    BY <1>0, <1>1, Accounted, Current DEF Supervisor!SupType, Supervisor!HostHolds,
       Supervisor!OneGenerationPresents, Supervisor!CallHolds, Supervisor!Gens, Supervisor!Busy
  <1>4. Supervisor!HostHolds'
    BY Accounted, Current DEF Supervisor!SupType, Supervisor!HostHolds,
       Supervisor!OneGenerationPresents, Supervisor!CallHolds, Supervisor!Gens, Supervisor!Busy
  <1>5. Supervisor!OneGenerationPresents'
    BY Current DEF Supervisor!SupType, Supervisor!HostHolds, Supervisor!OneGenerationPresents,
       Supervisor!CallHolds, Supervisor!Gens, Supervisor!Busy
  <1>6. Supervisor!TotalsNeverDrop
    BY Accounted DEF Supervisor!TotalsNeverDrop
  <1> QED BY <1>2, <1>3, <1>4, <1>5, <1>6

\* A close fails to stop.
LEMMA SupCloseStopFails ==
    ASSUME Supervisor!SupInv, NEW c \in Calls, Supervisor!CloseStopFails(c)
    PROVE  Supervisor!SupInv' /\ Supervisor!TotalsNeverDrop
  <1> USE SupervisorAssumption DEF Supervisor!SupInv, Supervisor!CloseStopFails, Supervisor!FailCall, Supervisor!Done, Supervisor!Goto, Supervisor!callvars, Supervisor!hostvars, Supervisor!runvars
  <1>0. PICK at : s1' = [s1 EXCEPT ![c] = at]
    OBVIOUS
  <1>1. Supervisor!Busy' \subseteq {c} /\ (at = "idle" => Supervisor!Busy' = {}) /\ (c \in Supervisor!Busy \/ Supervisor!LockFree)
    BY <1>0, OneBusy DEF Supervisor!Busy
  <1>2. Supervisor!SupType'
    BY Accounted, Current DEF Supervisor!SupType, Supervisor!HostHolds,
       Supervisor!OneGenerationPresents, Supervisor!CallHolds, Supervisor!Gens, Supervisor!Busy
  <1>3. \A d \in Supervisor!Busy' : Supervisor!CallHolds(d)'
    BY <1>0, <1>1, Accounted, Current DEF Supervisor!SupType, Supervisor!HostHolds,
       Supervisor!OneGenerationPresents, Supervisor!CallHolds, Supervisor!Gens, Supervisor!Busy
  <1>4. Supervisor!HostHolds'
    BY Accounted, Current DEF Supervisor!SupType, Supervisor!HostHolds,
       Supervisor!OneGenerationPresents, Supervisor!CallHolds, Supervisor!Gens, Supervisor!Busy
  <1>5. Supervisor!OneGenerationPresents'
    BY Current DEF Supervisor!SupType, Supervisor!HostHolds, Supervisor!OneGenerationPresents,
       Supervisor!CallHolds, Supervisor!Gens, Supervisor!Busy
  <1>6. Supervisor!TotalsNeverDrop
    BY Accounted DEF Supervisor!TotalsNeverDrop
  <1> QED BY <1>2, <1>3, <1>4, <1>5, <1>6

\* The generation is released for good.
LEMMA SupClosed ==
    ASSUME Supervisor!SupInv, NEW c \in Calls, Supervisor!Closed(c)
    PROVE  Supervisor!SupInv' /\ Supervisor!TotalsNeverDrop
  <1> USE SupervisorAssumption, Current DEF Supervisor!SupInv, Supervisor!SupType, Supervisor!HostHolds, Supervisor!OneGenerationPresents, Supervisor!CallHolds, Supervisor!Gens, Supervisor!Busy, Supervisor!Closed, Supervisor!Done, Supervisor!Goto, Supervisor!callvars, Supervisor!hostvars, Supervisor!runvars
  <1>0. PICK at : s1' = [s1 EXCEPT ![c] = at]
    OBVIOUS
  <1>1. Supervisor!Busy' \subseteq {c} /\ (at = "idle" => Supervisor!Busy' = {}) /\ (c \in Supervisor!Busy \/ Supervisor!LockFree)
    BY <1>0, OneBusy
  <1>2. Supervisor!SupType'
    BY Replaced
  <1>3. \A d \in Supervisor!Busy' : Supervisor!CallHolds(d)'
    BY <1>0, <1>1, Replaced
  <1>4. Supervisor!HostHolds'
    BY Replaced
  <1>5. Supervisor!OneGenerationPresents'
    OBVIOUS
  <1>6. Supervisor!TotalsNeverDrop
    <2>1. s9 = s7 /\ s8' = 0 /\ UNCHANGED <<s9, s10, s13>> /\ Supervisor!SupType /\ Supervisor!HostHolds
      OBVIOUS
    <2>2. Supervisor!Snapshot' = Supervisor!Snapshot /\ Supervisor!Snapshot \in Nat
      BY <2>1, Replaced
    <2> QED BY <2>2 DEF Supervisor!TotalsNeverDrop
  <1> QED BY <1>2, <1>3, <1>4, <1>5, <1>6

\* A close fails to release.
LEMMA SupCloseFails ==
    ASSUME Supervisor!SupInv, NEW c \in Calls, Supervisor!CloseFails(c)
    PROVE  Supervisor!SupInv' /\ Supervisor!TotalsNeverDrop
  <1> USE SupervisorAssumption DEF Supervisor!SupInv, Supervisor!CloseFails, Supervisor!FailHost, Supervisor!FailCall, Supervisor!Done, Supervisor!Goto, Supervisor!callvars, Supervisor!hostvars, Supervisor!runvars
  <1>0. PICK at : s1' = [s1 EXCEPT ![c] = at]
    OBVIOUS
  <1>1. Supervisor!Busy' \subseteq {c} /\ (at = "idle" => Supervisor!Busy' = {}) /\ (c \in Supervisor!Busy \/ Supervisor!LockFree)
    BY <1>0, OneBusy DEF Supervisor!Busy
  <1>2. Supervisor!SupType'
    BY Current DEF Supervisor!SupType, Supervisor!HostHolds, Supervisor!OneGenerationPresents,
       Supervisor!CallHolds, Supervisor!Gens, Supervisor!Busy
  <1>3. \A d \in Supervisor!Busy' : Supervisor!CallHolds(d)'
    BY <1>0, <1>1, Current DEF Supervisor!SupType, Supervisor!HostHolds,
       Supervisor!OneGenerationPresents, Supervisor!CallHolds, Supervisor!Gens, Supervisor!Busy
  <1>4. Supervisor!HostHolds'
    BY Current DEF Supervisor!SupType, Supervisor!HostHolds, Supervisor!OneGenerationPresents,
       Supervisor!CallHolds, Supervisor!Gens, Supervisor!Busy
  <1>5. Supervisor!OneGenerationPresents'
    BY Current DEF Supervisor!SupType, Supervisor!HostHolds, Supervisor!OneGenerationPresents,
       Supervisor!CallHolds, Supervisor!Gens, Supervisor!Busy
  <1>6. Supervisor!TotalsNeverDrop
    BY NotAccounted DEF Supervisor!TotalsNeverDrop
  <1> QED BY <1>2, <1>3, <1>4, <1>5, <1>6

\* A cancelled start fails the host.
LEMMA SupCancelStart ==
    ASSUME Supervisor!SupInv, NEW c \in Calls, Supervisor!CancelStart(c)
    PROVE  Supervisor!SupInv' /\ Supervisor!TotalsNeverDrop
  <1> USE SupervisorAssumption DEF Supervisor!SupInv, Supervisor!CancelStart, Supervisor!FailHost, Supervisor!Done, Supervisor!Goto, Supervisor!callvars, Supervisor!hostvars, Supervisor!runvars
  <1>0. PICK at : s1' = [s1 EXCEPT ![c] = at]
    OBVIOUS
  <1>1. Supervisor!Busy' \subseteq {c} /\ (at = "idle" => Supervisor!Busy' = {}) /\ (c \in Supervisor!Busy \/ Supervisor!LockFree)
    BY <1>0, OneBusy DEF Supervisor!Busy
  <1>2. Supervisor!SupType'
    BY Current DEF Supervisor!SupType, Supervisor!HostHolds, Supervisor!OneGenerationPresents,
       Supervisor!CallHolds, Supervisor!Gens, Supervisor!Busy
  <1>3. \A d \in Supervisor!Busy' : Supervisor!CallHolds(d)'
    BY <1>0, <1>1, Current DEF Supervisor!SupType, Supervisor!HostHolds,
       Supervisor!OneGenerationPresents, Supervisor!CallHolds, Supervisor!Gens, Supervisor!Busy
  <1>4. Supervisor!HostHolds'
    <2>1. Supervisor!CallHolds(c) /\ s1[c] = "start" /\ s8 # 0
      BY DEF Supervisor!Busy, Supervisor!CallHolds
    <2>2. s8 \in Supervisor!Gens /\ s8 = s7 /\ s7 \in Nat
      BY <2>1, Current DEF Supervisor!SupType
    <2>3. s12' = [s12 EXCEPT ![s8] = "failed"] /\ s6' = "failed" /\ UNCHANGED <<s4, s7, s8, s13>>
          /\ s4 # "closed" /\ Supervisor!HostHolds /\ Supervisor!SupType
      BY <2>1 DEF Supervisor!CallHolds
    <2> QED BY <2>2, <2>3 DEF Supervisor!HostHolds, Supervisor!SupType, Supervisor!Gens
  <1>5. Supervisor!OneGenerationPresents'
    BY Current DEF Supervisor!SupType, Supervisor!HostHolds, Supervisor!OneGenerationPresents,
       Supervisor!CallHolds, Supervisor!Gens, Supervisor!Busy
  <1>6. Supervisor!TotalsNeverDrop
    BY NotAccounted DEF Supervisor!TotalsNeverDrop
  <1> QED BY <1>2, <1>3, <1>4, <1>5, <1>6

\* A call is cancelled while it waits.
LEMMA SupCancelCall ==
    ASSUME Supervisor!SupInv, NEW c \in Calls, Supervisor!CancelCall(c)
    PROVE  Supervisor!SupInv' /\ Supervisor!TotalsNeverDrop
  <1> USE DEF Supervisor!CancelCall, Supervisor!Done, Supervisor!Goto, Supervisor!SupInv, Supervisor!callvars, Supervisor!hostvars, Supervisor!runvars
  <1>1. Supervisor!Busy' \subseteq Supervisor!Busy
    BY DEF Supervisor!Busy, Supervisor!SupType
  <1>2. Supervisor!SupType'
    BY SupervisorAssumption, Current DEF Supervisor!SupType, Supervisor!HostHolds,
       Supervisor!OneGenerationPresents, Supervisor!CallHolds, Supervisor!Gens, Supervisor!Busy
  <1>3. \A d \in Supervisor!Busy' : Supervisor!CallHolds(d)'
    BY <1>1, SupervisorAssumption, Current DEF Supervisor!SupType, Supervisor!HostHolds,
       Supervisor!OneGenerationPresents, Supervisor!CallHolds, Supervisor!Gens, Supervisor!Busy
  <1>4. Supervisor!HostHolds'
    BY SupervisorAssumption, Current DEF Supervisor!SupType, Supervisor!HostHolds,
       Supervisor!OneGenerationPresents, Supervisor!CallHolds, Supervisor!Gens, Supervisor!Busy
  <1>5. Supervisor!OneGenerationPresents'
    BY SupervisorAssumption, Current DEF Supervisor!SupType, Supervisor!HostHolds,
       Supervisor!OneGenerationPresents, Supervisor!CallHolds, Supervisor!Gens, Supervisor!Busy
  <1>6. Supervisor!TotalsNeverDrop
    BY NotAccounted, SupervisorAssumption DEF Supervisor!TotalsNeverDrop
  <1> QED BY <1>2, <1>3, <1>4, <1>5, <1>6

\* Every step keeps the supervisor's invariant, and the reported count.
LEMMA SupStep ==
    ASSUME Supervisor!SupInv, [Supervisor!SupNext]_(Supervisor!supvars)
    PROVE  Supervisor!SupInv' /\ Supervisor!TotalsNeverDrop
  <1>1. CASE UNCHANGED Supervisor!supvars
    <2>1. UNCHANGED <<s1, s4, s6, s7, s8, s9, s10, s12, s13>>
      BY <1>1 DEF Supervisor!supvars, Supervisor!callvars, Supervisor!hostvars, Supervisor!runvars
    <2>2. Supervisor!SupType' /\ Supervisor!HostHolds' /\ Supervisor!OneGenerationPresents'
          /\ \A d \in Supervisor!Busy' : Supervisor!CallHolds(d)'
      BY <2>1 DEF Supervisor!SupInv, Supervisor!SupType, Supervisor!HostHolds,
         Supervisor!OneGenerationPresents, Supervisor!CallHolds, Supervisor!Busy
    <2> QED BY <2>1, <2>2, NotAccounted DEF Supervisor!SupInv, Supervisor!TotalsNeverDrop
  <1>2. CASE Supervisor!SupNext
    BY Zenon, <1>2, SupDelivers, SupEnds, SupRequests, SupWaits, SupStops, SupCloses, SupStarted,
       SupStartFails,
       SupPriorFails, SupPriorClosed, SupWaited, SupStopped, SupStopFails, SupCloseStopped, SupCloseStopFails,
       SupClosed, SupCloseFails, SupCancelStart, SupCancelCall, SupPresents, SupReplaces, SupReplaceStarts
    DEF Supervisor!SupNext
  <1> QED BY <1>1, <1>2

-----------------------------------------------------------------------------
(* Launches of the operator.                                               *)

\* OperatorLaunch counts with the same Cardinality: one launch more, one launch less.
LEMMA LaunchCounts == \A S : Launch!Cardinality(S) = Cardinality(S)
  BY Zenon DEF Launch!Cardinality, Cardinality
\* One more launch: the set grows by it.
LEMMA LaunchMore ==
    ASSUME NEW S, S \subseteq Launches, NEW l \in Launches, l \notin S
    PROVE  /\ Launch!Cardinality(S) \in Nat
           /\ Launch!Cardinality(S \cup {l}) = Launch!Cardinality(S) + 1
  <1>1. IsFiniteSet(S)
    BY LaunchAssumption, FS_Subset
  <1>2. Cardinality(S) \in Nat /\ Cardinality(S \cup {l}) = Cardinality(S) + 1
    BY <1>1, FS_CardinalityType, FS_AddElement
  <1>3. QED
    BY <1>2, LaunchCounts
\* One launch less.
LEMMA LaunchLess ==
    ASSUME NEW S, S \subseteq Launches, NEW l \in S
    PROVE  /\ Launch!Cardinality(S) \in Nat /\ Launch!Cardinality(S) > 0
           /\ Launch!Cardinality(S \ {l}) = Launch!Cardinality(S) - 1
  <1>1. IsFiniteSet(S)
    BY LaunchAssumption, FS_Subset
  <1>2. Cardinality(S) \in Nat /\ Cardinality(S \ {l}) = Cardinality(S) - 1
        /\ Cardinality(S \ {l}) \in Nat
    BY <1>1, FS_CardinalityType, FS_RemoveElement, FS_Subset
  <1>3. QED
    BY <1>2, LaunchCounts

\* The counts follow when a launch takes its slot or gives it back, and when a worker
\* takes its share or gives it back.
LEMMA StillCounted ==
    ASSUME Launch!LaunchType, Launch!SlotsCounted,
           \/ Launch!Running' = Launch!Running /\ s4' = s4
           \/ \E l \in Launches \ Launch!Running :
                Launch!Running' = Launch!Running \cup {l} /\ s4' = s4 + 1 /\ s4 < LaunchSlots
           \/ \E l \in Launch!Running : Launch!Running' = Launch!Running \ {l} /\ s4' = Launch!Slot(l),
           \/ Launch!Owners' = Launch!Owners /\ s8' = s8
           \/ \E l \in Launches \ Launch!Owners :
                Launch!Owners' = Launch!Owners \cup {l} /\ s8' = s8 - 1 /\ s8 > 0
           \/ \E l \in Launch!Owners : Launch!Owners' = Launch!Owners \ {l} /\ s8' = s8 + 1
    PROVE  Launch!SlotsCounted' /\ s4' \in Nat /\ s8' \in Nat
  <1> USE LaunchAssumption DEF Launch!LaunchType, Launch!SlotsCounted
  <1>0. MaxNative \in Nat /\ LaunchSlots \in Nat
    OBVIOUS
  <1>1. Launch!Running \subseteq Launches /\ Launch!Owners \subseteq Launches
    BY DEF Launch!Running, Launch!Owners
  <1>2. s4' = Launch!Cardinality(Launch!Running') /\ s4' \in Nat /\ s4' <= LaunchSlots
    <2>1. CASE Launch!Running' = Launch!Running /\ s4' = s4
      BY <2>1
    <2>2. CASE \E l \in Launches \ Launch!Running :
                 Launch!Running' = Launch!Running \cup {l} /\ s4' = s4 + 1 /\ s4 < LaunchSlots
      BY <1>1, <2>2, LaunchMore
    <2>3. CASE \E l \in Launch!Running : Launch!Running' = Launch!Running \ {l} /\ s4' = Launch!Slot(l)
      BY <1>1, <2>3, LaunchLess DEF Launch!Slot, Launch!Given
    <2>4. QED
      BY <2>1, <2>2, <2>3
  <1>3. s8' = MaxNative - Launch!Cardinality(Launch!Owners') /\ s8' \in Nat
    <2>1. CASE Launch!Owners' = Launch!Owners /\ s8' = s8
      BY <2>1
    <2>2. ASSUME NEW l \in Launches \ Launch!Owners,
                 Launch!Owners' = Launch!Owners \cup {l}, s8' = s8 - 1, s8 > 0
          PROVE  s8' = MaxNative - Launch!Cardinality(Launch!Owners') /\ s8' \in Nat
      <3>1. /\ Launch!Cardinality(Launch!Owners) \in Nat
            /\ Launch!Cardinality(Launch!Owners') = Launch!Cardinality(Launch!Owners) + 1
        BY <1>1, <2>2, LaunchMore
      <3>2. QED
        BY <1>0, <2>2, <3>1
    <2>3. ASSUME NEW l \in Launch!Owners,
                 Launch!Owners' = Launch!Owners \ {l}, s8' = s8 + 1
          PROVE  s8' = MaxNative - Launch!Cardinality(Launch!Owners') /\ s8' \in Nat
      <3>1. /\ Launch!Cardinality(Launch!Owners) \in Nat
            /\ Launch!Cardinality(Launch!Owners') = Launch!Cardinality(Launch!Owners) - 1
        BY <1>1, <2>3, LaunchLess
      <3>2. s8 \in Nat /\ s8 = MaxNative - Launch!Cardinality(Launch!Owners)
        OBVIOUS
      <3>3. QED
        BY ONLY <1>0, <2>3, <3>1, <3>2
    <2>4. QED
      BY <2>1, <2>2, <2>3
  <1>4. QED
    BY <1>2, <1>3

\* The counters of an overlay, and one of them counted: it goes up by one, the others stay.
Counters == [Launch!Fields -> Nat]
Adds(d, c, f) ==
  /\ d \in Counters
  /\ d.processed = c.processed + (IF f = "processed" THEN 1 ELSE 0)
  /\ d.overlay = c.overlay + (IF f = "overlay" THEN 1 ELSE 0)
  /\ d.passthrough = c.passthrough + (IF f = "passthrough" THEN 1 ELSE 0)
  /\ d.submissions = c.submissions + (IF f = "submissions" THEN 1 ELSE 0)
  /\ d.completions = c.completions + (IF f = "completions" THEN 1 ELSE 0)
  /\ d.failures = c.failures + (IF f = "failures" THEN 1 ELSE 0)
  /\ d.busy = c.busy + (IF f = "busy" THEN 1 ELSE 0)
  /\ d.capacity = c.capacity + (IF f = "capacity" THEN 1 ELSE 0)
  /\ d.dropped = c.dropped + (IF f = "dropped" THEN 1 ELSE 0)
\* The counters of a report are numbers.
LEMMA CounterTypes ==
    ASSUME NEW c \in Counters
    PROVE  /\ c.processed \in Nat /\ c.overlay \in Nat /\ c.passthrough \in Nat /\ c.submissions \in Nat
           /\ c.completions \in Nat /\ c.failures \in Nat /\ c.busy \in Nat /\ c.capacity \in Nat
           /\ c.dropped \in Nat
  BY DEF Counters, Launch!Fields
\* Counting changes the field it is about and no other.
LEMMA CountedField ==
    ASSUME NEW c \in Counters, NEW f \in Launch!Fields
    PROVE  Adds(Launch!Counted(c, f), c, f)
  <1>1. /\ Launch!Counted(c, f) \in Counters
        /\ \A g \in Launch!Fields : Launch!Counted(c, f)[g] = c[g] + (IF f = g THEN 1 ELSE 0)
    BY DEF Launch!Counted, Counters
  <1>2. QED
    BY <1>1 DEF Adds, Launch!Fields

\* How many frames are not yet counted for what was drawn over them and for what became of
\* their call, and how many calls have no outcome yet.
Balanced(c, drawn, called, awaited) ==
  /\ c \in Counters
  /\ c.processed = c.overlay + c.passthrough + drawn
  /\ c.processed = c.submissions + c.busy + c.capacity + called
  /\ c.submissions = c.completions + c.failures + c.dropped + awaited
\* What became of a submitted frame is counted.
LEMMA CountOutcome ==
    ASSUME NEW c, NEW f \in {"completions", "failures", "dropped"}, Balanced(c, 0, 0, 1)
    PROVE  /\ Balanced(Launch!Counted(c, f), 0, 0, 0)
           /\ Launch!Counted(c, f).dropped = c.dropped + (IF f = "dropped" THEN 1 ELSE 0)
  <1>1. c \in Counters /\ f \in Launch!Fields
    BY DEF Balanced, Launch!Fields
  <1>2. QED
    BY <1>1, CounterTypes, CountedField DEF Balanced, Adds
\* A processed frame is counted.
LEMMA CountFrame ==
    ASSUME NEW c, NEW z \in {0, 1}, Balanced(c, 0, 0, z)
    PROVE  /\ Balanced(Launch!Counted(c, "processed"), 1, 1, z)
           /\ Launch!Counted(c, "processed").dropped = c.dropped
  <1>1. c \in Counters /\ "processed" \in Launch!Fields
    BY DEF Balanced, Launch!Fields
  <1>2. Adds(Launch!Counted(c, "processed"), c, "processed")
    BY <1>1, CountedField
  <1>3. QED
    BY <1>1, <1>2, CounterTypes DEF Balanced, Adds
\* A submission, a busy presenter or a full one is counted.
LEMMA CountCall ==
    ASSUME NEW c, NEW z \in {0, 1}, Balanced(c, 1, 1, z),
           NEW f \in {"submissions", "busy", "capacity"}, f = "submissions" => z = 0
    PROVE  /\ Balanced(Launch!Counted(c, f), 1, 0, IF f = "submissions" THEN 1 ELSE z)
           /\ Launch!Counted(c, f).dropped = c.dropped
  <1>1. c \in Counters /\ f \in Launch!Fields
    BY DEF Balanced, Launch!Fields
  <1>2. Adds(Launch!Counted(c, f), c, f)
    BY <1>1, CountedField
  <1>3. QED
    BY <1>1, <1>2, CounterTypes DEF Balanced, Adds
\* A frame with its overlay, or passed through, is counted.
LEMMA CountDrawn ==
    ASSUME NEW c, NEW z \in {0, 1}, Balanced(c, 1, 0, z), NEW f \in {"overlay", "passthrough"}
    PROVE  /\ Balanced(Launch!Counted(c, f), 0, 0, z)
           /\ Launch!Counted(c, f).dropped = c.dropped
  <1>1. c \in Counters /\ f \in Launch!Fields
    BY DEF Balanced, Launch!Fields
  <1>2. Adds(Launch!Counted(c, f), c, f)
    BY <1>1, CountedField
  <1>3. QED
    BY <1>1, <1>2, CounterTypes DEF Balanced, Adds
\* A frame left unrendered is counted.
LEMMA CountUnrendered ==
    ASSUME NEW c, NEW z \in {0, 1}, Balanced(c, 0, 0, z)
    PROVE  /\ Balanced(Launch!Counted(c, "unrendered"), 0, 0, z)
           /\ Launch!Counted(c, "unrendered").dropped = c.dropped
  <1>1. c \in Counters /\ "unrendered" \in Launch!Fields
    BY DEF Balanced, Launch!Fields
  <1>2. Adds(Launch!Counted(c, "unrendered"), c, "unrendered")
    BY <1>1, CountedField
  <1>3. QED
    BY <1>1, <1>2, CounterTypes DEF Balanced, Adds

\* Calls whose outcome is not counted yet.
Pending(l) == IF s14[l] = "none" THEN 0 ELSE 1
\* FramesAccounted, launch by launch.
LEMMA AccountsBalance ==
    ASSUME s17 \in [Launches -> Counters]
    PROVE  Launch!FramesAccounted <=> \A l \in Launches :
             Balanced(s17[l], 0, 0, Pending(l)) /\ s18[l] <= MaxStale /\ s17[l].dropped <= 1
  <1>1. \A l \in Launches : s17[l] \in Counters
    OBVIOUS
  <1>2. QED
    BY <1>1, CounterTypes DEF Launch!FramesAccounted, Balanced, Pending

\* No launch has been asked for.
LEMMA LaunchBegins == ASSUME Launch!LaunchInit PROVE Launch!LaunchInv
  <1>1. Launch!Running = {} /\ Launch!Owners = {}
    BY DEF Launch!LaunchInit, Launch!Running, Launch!Owners, Launch!Owns
  <1>2. Launch!Cardinality({}) = 0
    BY LaunchCounts, FS_EmptySet
  <1>3. Launch!Zero \in [Launch!Fields -> Nat]
    BY DEF Launch!Zero, Launch!Fields
  <1>4. Launch!LaunchType
    BY <1>3, LaunchAssumption DEF Launch!LaunchInit, Launch!LaunchType, Launch!Places
  <1>5. Launch!SlotsCounted
    BY <1>1, <1>2, LaunchAssumption DEF Launch!LaunchInit, Launch!SlotsCounted
  <1>6. \A l \in Launches : Launch!Session(l) /\ Launch!Overlay(l)
    BY DEF Launch!LaunchInit, Launch!Session, Launch!Overlay, Launch!BusyWorker, Launch!Zero
  <1>7. Launch!FramesAccounted
    BY LaunchAssumption DEF Launch!LaunchInit, Launch!FramesAccounted, Launch!Zero
  <1>8. QED
    BY <1>4, <1>5, <1>6, <1>7 DEF Launch!LaunchInv
\* A launch is refused before it has a slot.
LEMMA LaunchRefused ==
    ASSUME Launch!LaunchInv, NEW l \in Launches, Launch!Rejected(l) \/ Launch!NotConfigured(l) \/ Launch!Busy(l) \/ Launch!Mismatch(l)
    PROVE  Launch!LaunchInv'
  <1> USE DEF Launch!LaunchInv, Launch!LaunchType, Launch!request, Launch!native, Launch!overlay, Launch!Rejected, Launch!NotConfigured, Launch!Busy, Launch!Mismatch, Launch!Refuse, Launch!Goto
  <1>0. Launch!Session(l) /\ Launch!Overlay(l)
    OBVIOUS
  <1>1. Launch!Running' = Launch!Running /\ s4' = s4
    BY <1>0 DEF Launch!Running, Launch!Session
  <1>2. Launch!Owners' = Launch!Owners /\ s8' = s8
    BY <1>0 DEF Launch!Owners, Launch!Owns, Launch!BusyWorker, Launch!Session
  <1>3. Launch!SlotsCounted' /\ s4' \in Nat /\ s8' \in Nat
    BY <1>1, <1>2, StillCounted
  <1>4. Launch!LaunchType'
    BY <1>0, <1>3 DEF Launch!Places
  <1>5. \A k \in Launches : Launch!Session(k)' /\ Launch!Overlay(k)'
    BY <1>0 DEF Launch!Session, Launch!Overlay, Launch!BusyWorker
  <1>6. Launch!FramesAccounted'
    BY DEF Launch!FramesAccounted
  <1>7. QED
    BY <1>3, <1>4, <1>5, <1>6

\* A launch takes its slot.
LEMMA LaunchReserves ==
    ASSUME Launch!LaunchInv, NEW l \in Launches, Launch!Reserve(l)
    PROVE  Launch!LaunchInv'
  <1> USE DEF Launch!LaunchInv, Launch!LaunchType, Launch!request, Launch!native, Launch!overlay, Launch!Reserve, Launch!Goto
  <1>0. Launch!Session(l) /\ Launch!Overlay(l)
    OBVIOUS
  <1>1. l \notin Launch!Running /\ Launch!Running' = Launch!Running \cup {l} /\ s4' = s4 + 1 /\ s4 < LaunchSlots
    BY <1>0 DEF Launch!Running, Launch!Session
  <1>2. Launch!Owners' = Launch!Owners /\ s8' = s8
    BY <1>0 DEF Launch!Owners, Launch!Owns, Launch!BusyWorker, Launch!Session
  <1>3. Launch!SlotsCounted' /\ s4' \in Nat /\ s8' \in Nat
    BY <1>1, <1>2, StillCounted
  <1>4. Launch!LaunchType'
    BY <1>0, <1>3 DEF Launch!Places
  <1>5. \A k \in Launches : Launch!Session(k)' /\ Launch!Overlay(k)'
    BY <1>0 DEF Launch!Session, Launch!Overlay, Launch!BusyWorker
  <1>6. Launch!FramesAccounted'
    BY DEF Launch!FramesAccounted
  <1>7. QED
    BY <1>3, <1>4, <1>5, <1>6

\* The probe ends.
LEMMA LaunchProbed ==
    ASSUME Launch!LaunchInv, NEW l \in Launches, Launch!ProbeEnds(l)
    PROVE  Launch!LaunchInv'
  <1> USE DEF Launch!LaunchInv, Launch!LaunchType, Launch!request, Launch!native, Launch!overlay, Launch!ProbeEnds
  <1>0. Launch!Session(l) /\ Launch!Overlay(l)
    OBVIOUS
  <1>1. Launch!Running' = Launch!Running /\ s4' = s4
    BY <1>0 DEF Launch!Running, Launch!Session
  <1>2. Launch!Owners' = Launch!Owners /\ s8' = s8
    BY <1>0 DEF Launch!Owners, Launch!Owns, Launch!BusyWorker, Launch!Session
  <1>3. Launch!SlotsCounted' /\ s4' \in Nat /\ s8' \in Nat
    BY <1>1, <1>2, StillCounted
  <1>4. Launch!LaunchType'
    BY <1>0, <1>3 DEF Launch!Places
  <1>5. \A k \in Launches : Launch!Session(k)' /\ Launch!Overlay(k)'
    BY <1>0 DEF Launch!Session, Launch!Overlay, Launch!BusyWorker
  <1>6. Launch!FramesAccounted'
    BY DEF Launch!FramesAccounted
  <1>7. QED
    BY <1>3, <1>4, <1>5, <1>6

\* The source is resolved, or the launch ends.
LEMMA LaunchResolves ==
    ASSUME Launch!LaunchInv, NEW l \in Launches, Launch!Authenticated(l) \/ Launch!Typed(l)
    PROVE  Launch!LaunchInv'
  <1> USE DEF Launch!LaunchInv, Launch!LaunchType, Launch!request, Launch!native, Launch!overlay, Launch!Authenticated, Launch!Typed, Launch!Goto, Launch!Finish
  <1>0. Launch!Session(l) /\ Launch!Overlay(l)
    OBVIOUS
  <1>1. (Launch!Running' = Launch!Running /\ s4' = s4) \/ (l \in Launch!Running /\ Launch!Running' = Launch!Running \ {l} /\ s4' = Launch!Slot(l))
    BY <1>0 DEF Launch!Running, Launch!Session
  <1>2. Launch!Owners' = Launch!Owners /\ s8' = s8
    BY <1>0 DEF Launch!Owners, Launch!Owns, Launch!BusyWorker, Launch!Session
  <1>3. Launch!SlotsCounted' /\ s4' \in Nat /\ s8' \in Nat
    BY <1>1, <1>2, StillCounted
  <1>4. Launch!LaunchType'
    BY <1>0, <1>3 DEF Launch!Places
  <1>5. \A k \in Launches : Launch!Session(k)' /\ Launch!Overlay(k)'
    BY <1>0 DEF Launch!Session, Launch!Overlay, Launch!BusyWorker
  <1>6. Launch!FramesAccounted'
    BY DEF Launch!FramesAccounted
  <1>7. QED
    BY <1>3, <1>4, <1>5, <1>6

\* A worker is started, or there is no share left.
LEMMA LaunchAcquires ==
    ASSUME Launch!LaunchInv, NEW l \in Launches, Launch!Acquire(l)
    PROVE  Launch!LaunchInv'
  <1> USE DEF Launch!LaunchInv, Launch!LaunchType, Launch!request, Launch!native, Launch!overlay, Launch!Acquire, Launch!Goto, Launch!Finish
  <1>0. Launch!Session(l) /\ Launch!Overlay(l)
    OBVIOUS
  <1>1. (Launch!Running' = Launch!Running /\ s4' = s4) \/ (l \in Launch!Running /\ Launch!Running' = Launch!Running \ {l} /\ s4' = Launch!Slot(l))
    BY <1>0 DEF Launch!Running, Launch!Session
  <1>2. (Launch!Owners' = Launch!Owners /\ s8' = s8) \/ (l \notin Launch!Owners /\ Launch!Owners' = Launch!Owners \cup {l} /\ s8' = s8 - 1 /\ s8 > 0)
    BY <1>0 DEF Launch!Owners, Launch!Owns, Launch!BusyWorker, Launch!Session
  <1>3. Launch!SlotsCounted' /\ s4' \in Nat /\ s8' \in Nat
    BY <1>1, <1>2, StillCounted
  <1>4. Launch!LaunchType'
    BY <1>0, <1>3 DEF Launch!Places
  <1>5. \A k \in Launches : Launch!Session(k)' /\ Launch!Overlay(k)'
    BY <1>0 DEF Launch!Session, Launch!Overlay, Launch!BusyWorker
  <1>6. Launch!FramesAccounted'
    BY DEF Launch!FramesAccounted
  <1>7. QED
    BY <1>3, <1>4, <1>5, <1>6

\* The runtime is built, or cannot be.
LEMMA LaunchBuilds ==
    ASSUME Launch!LaunchInv, NEW l \in Launches, Launch!Build(l) \/ Launch!Ready(l)
    PROVE  Launch!LaunchInv'
  <1> USE DEF Launch!LaunchInv, Launch!LaunchType, Launch!request, Launch!native, Launch!overlay, Launch!Build, Launch!Ready, Launch!Built, Launch!Goto, Launch!Finish
  <1>0. Launch!Session(l) /\ Launch!Overlay(l)
    OBVIOUS
  <1>1. (Launch!Running' = Launch!Running /\ s4' = s4) \/ (l \in Launch!Running /\ Launch!Running' = Launch!Running \ {l} /\ s4' = Launch!Slot(l))
    BY <1>0 DEF Launch!Running, Launch!Session
  <1>2. Launch!Owners' = Launch!Owners /\ s8' = s8
    BY <1>0 DEF Launch!Owners, Launch!Owns, Launch!BusyWorker, Launch!Session
  <1>3. Launch!SlotsCounted' /\ s4' \in Nat /\ s8' \in Nat
    BY <1>1, <1>2, StillCounted
  <1>4. Launch!LaunchType'
    BY <1>0, <1>3 DEF Launch!Places
  <1>5. \A k \in Launches : Launch!Session(k)' /\ Launch!Overlay(k)'
    BY <1>0 DEF Launch!Session, Launch!Overlay, Launch!BusyWorker
  <1>6. Launch!FramesAccounted'
    BY DEF Launch!FramesAccounted
  <1>7. QED
    BY <1>3, <1>4, <1>5, <1>6

\* The worker did not start.
LEMMA LaunchNotReady ==
    ASSUME Launch!LaunchInv, NEW l \in Launches, Launch!NotReady(l)
    PROVE  Launch!LaunchInv'
  <1> USE DEF Launch!LaunchInv, Launch!LaunchType, Launch!request, Launch!native, Launch!overlay, Launch!NotReady, Launch!Goto
  <1>0. Launch!Session(l) /\ Launch!Overlay(l)
    OBVIOUS
  <1>1. Launch!Running' = Launch!Running /\ s4' = s4
    BY <1>0 DEF Launch!Running, Launch!Session
  <1>2. Launch!Owners' = Launch!Owners /\ s8' = s8
    BY <1>0 DEF Launch!Owners, Launch!Owns, Launch!BusyWorker, Launch!Session
  <1>3. Launch!SlotsCounted' /\ s4' \in Nat /\ s8' \in Nat
    BY <1>1, <1>2, StillCounted
  <1>4. Launch!LaunchType'
    BY <1>0, <1>3 DEF Launch!Places
  <1>5. \A k \in Launches : Launch!Session(k)' /\ Launch!Overlay(k)'
    BY <1>0 DEF Launch!Session, Launch!Overlay, Launch!BusyWorker
  <1>6. Launch!FramesAccounted'
    BY DEF Launch!FramesAccounted
  <1>7. QED
    BY <1>3, <1>4, <1>5, <1>6

\* The session is shut; its share is given back now, or by the end of the call.
LEMMA LaunchCloses ==
    ASSUME Launch!LaunchInv, NEW l \in Launches, Launch!Unstarted(l) \/ Launch!ProviderClosed(l)
    PROVE  Launch!LaunchInv'
  <1> USE DEF Launch!LaunchInv, Launch!LaunchType, Launch!request, Launch!native, Launch!overlay, Launch!Unstarted, Launch!ProviderClosed, Launch!ReleaseCompleted, Launch!AtCallback, Launch!BusyWorker, Launch!Goto, Launch!Finish
  <1>0. Launch!Session(l) /\ Launch!Overlay(l)
    OBVIOUS
  <1>1. l \in Launch!Running /\ Launch!Running' = Launch!Running \ {l} /\ s4' = Launch!Slot(l)
    BY <1>0 DEF Launch!Running, Launch!Session
  <1>2. (Launch!Owners' = Launch!Owners /\ s8' = s8) \/ (l \in Launch!Owners /\ Launch!Owners' = Launch!Owners \ {l} /\ s8' = s8 + 1)
    BY <1>0 DEF Launch!Owners, Launch!Owns, Launch!BusyWorker, Launch!Session
  <1>3. Launch!SlotsCounted' /\ s4' \in Nat /\ s8' \in Nat
    BY <1>1, <1>2, StillCounted
  <1>4. Launch!LaunchType'
    BY <1>0, <1>3 DEF Launch!Places
  <1>5. \A k \in Launches : Launch!Session(k)' /\ Launch!Overlay(k)'
    BY <1>0 DEF Launch!Session, Launch!Overlay, Launch!BusyWorker
  <1>6. Launch!FramesAccounted'
    BY DEF Launch!FramesAccounted
  <1>7. QED
    BY <1>3, <1>4, <1>5, <1>6

\* A call of the worker ends.
LEMMA WorkerSettles ==
    ASSUME Launch!LaunchInv, NEW l \in Launches, Launch!Initialized(l) \/ Launch!Inferred(l)
    PROVE  Launch!LaunchInv'
  <1> USE DEF Launch!LaunchInv, Launch!LaunchType, Launch!request, Launch!native, Launch!overlay, Launch!Initialized, Launch!Inferred, Launch!Settled, Launch!BusyWorker
  <1>0. Launch!Session(l) /\ Launch!Overlay(l)
    OBVIOUS
  <1>1. Launch!Running' = Launch!Running /\ s4' = s4
    BY <1>0 DEF Launch!Running, Launch!Session
  <1>2. (Launch!Owners' = Launch!Owners /\ s8' = s8) \/ (l \in Launch!Owners /\ Launch!Owners' = Launch!Owners \ {l} /\ s8' = s8 + 1)
    BY <1>0 DEF Launch!Owners, Launch!Owns, Launch!BusyWorker, Launch!Session
  <1>3. Launch!SlotsCounted' /\ s4' \in Nat /\ s8' \in Nat
    BY <1>1, <1>2, StillCounted
  <1>4. Launch!LaunchType'
    BY <1>0, <1>3 DEF Launch!Places
  <1>5. \A k \in Launches : Launch!Session(k)' /\ Launch!Overlay(k)'
    BY <1>0 DEF Launch!Session, Launch!Overlay, Launch!BusyWorker
  <1>6. Launch!FramesAccounted'
    BY DEF Launch!FramesAccounted
  <1>7. QED
    BY <1>3, <1>4, <1>5, <1>6

\* A call of the provider begins, or is abandoned.
LEMMA WorkerAsked ==
    ASSUME Launch!LaunchInv, NEW l \in Launches, Launch!Ask(l) \/ Launch!Deadline(l)
    PROVE  Launch!LaunchInv'
  <1> USE DEF Launch!LaunchInv, Launch!LaunchType, Launch!request, Launch!native, Launch!overlay, Launch!Ask, Launch!Deadline, Launch!Usable, Launch!BusyWorker
  <1>0. Launch!Session(l) /\ Launch!Overlay(l)
    OBVIOUS
  <1>1. Launch!Running' = Launch!Running /\ s4' = s4
    BY <1>0 DEF Launch!Running, Launch!Session
  <1>2. Launch!Owners' = Launch!Owners /\ s8' = s8
    BY <1>0 DEF Launch!Owners, Launch!Owns, Launch!BusyWorker, Launch!Session
  <1>3. Launch!SlotsCounted' /\ s4' \in Nat /\ s8' \in Nat
    BY <1>1, <1>2, StillCounted
  <1>4. Launch!LaunchType'
    BY <1>0, <1>3 DEF Launch!Places
  <1>5. \A k \in Launches : Launch!Session(k)' /\ Launch!Overlay(k)'
    BY <1>0 DEF Launch!Session, Launch!Overlay, Launch!BusyWorker
  <1>6. Launch!FramesAccounted'
    BY DEF Launch!FramesAccounted
  <1>7. QED
    BY <1>3, <1>4, <1>5, <1>6

\* The runtime starts, or ends by itself.
LEMMA RuntimeBegins ==
    ASSUME Launch!LaunchInv, NEW l \in Launches, Launch!RuntimeStarts(l) \/ Launch!RuntimeWaited(l)
    PROVE  Launch!LaunchInv'
  <1> USE DEF Launch!LaunchInv, Launch!LaunchType, Launch!request, Launch!native, Launch!overlay, Launch!RuntimeStarts, Launch!RuntimeWaited, Launch!Goto
  <1>0. Launch!Session(l) /\ Launch!Overlay(l)
    OBVIOUS
  <1>1. Launch!Running' = Launch!Running /\ s4' = s4
    BY <1>0 DEF Launch!Running, Launch!Session
  <1>2. Launch!Owners' = Launch!Owners /\ s8' = s8
    BY <1>0 DEF Launch!Owners, Launch!Owns, Launch!BusyWorker, Launch!Session
  <1>3. Launch!SlotsCounted' /\ s4' \in Nat /\ s8' \in Nat
    BY <1>1, <1>2, StillCounted
  <1>4. Launch!LaunchType'
    BY <1>0, <1>3 DEF Launch!Places
  <1>5. \A k \in Launches : Launch!Session(k)' /\ Launch!Overlay(k)'
    BY <1>0 DEF Launch!Session, Launch!Overlay, Launch!BusyWorker
  <1>6. Launch!FramesAccounted'
    BY DEF Launch!FramesAccounted
  <1>7. QED
    BY <1>3, <1>4, <1>5, <1>6

\* The runtime is left, its delivery perhaps running.
LEMMA RuntimeLeft ==
    ASSUME Launch!LaunchInv, NEW l \in Launches, Launch!CloseFails(l)
    PROVE  Launch!LaunchInv'
  <1> USE DEF Launch!LaunchInv, Launch!LaunchType, Launch!request, Launch!native, Launch!overlay, Launch!CloseFails, Launch!Onward, Launch!Goto, Launch!Finish
  <1>0. Launch!Session(l) /\ Launch!Overlay(l)
    OBVIOUS
  <1>1. (Launch!Running' = Launch!Running /\ s4' = s4) \/ (l \in Launch!Running /\ Launch!Running' = Launch!Running \ {l} /\ s4' = Launch!Slot(l))
    BY <1>0 DEF Launch!Running, Launch!Session
  <1>2. Launch!Owners' = Launch!Owners /\ s8' = s8
    BY <1>0 DEF Launch!Owners, Launch!Owns, Launch!BusyWorker, Launch!Session
  <1>3. Launch!SlotsCounted' /\ s4' \in Nat /\ s8' \in Nat
    BY <1>1, <1>2, StillCounted
  <1>4. Launch!LaunchType'
    BY <1>0, <1>3 DEF Launch!Places
  <1>5. \A k \in Launches : Launch!Session(k)' /\ Launch!Overlay(k)'
    BY <1>0 DEF Launch!Session, Launch!Overlay, Launch!BusyWorker
  <1>6. Launch!FramesAccounted'
    BY DEF Launch!FramesAccounted
  <1>7. QED
    BY <1>3, <1>4, <1>5, <1>6

\* A launch is cancelled.
LEMMA LaunchCancelled ==
    ASSUME Launch!LaunchInv, NEW l \in Launches, Launch!Cancel(l)
    PROVE  Launch!LaunchInv'
  <1> USE DEF Launch!LaunchInv, Launch!LaunchType, Launch!request, Launch!native, Launch!overlay, Launch!Cancel, Launch!Goto, Launch!Finish
  <1>0. Launch!Session(l) /\ Launch!Overlay(l)
    OBVIOUS
  <1>1. (Launch!Running' = Launch!Running /\ s4' = s4) \/ (l \in Launch!Running /\ Launch!Running' = Launch!Running \ {l} /\ s4' = Launch!Slot(l))
    BY <1>0 DEF Launch!Running, Launch!Session
  <1>2. Launch!Owners' = Launch!Owners /\ s8' = s8
    BY <1>0 DEF Launch!Owners, Launch!Owns, Launch!BusyWorker, Launch!Session
  <1>3. Launch!SlotsCounted' /\ s4' \in Nat /\ s8' \in Nat
    BY <1>1, <1>2, StillCounted
  <1>4. Launch!LaunchType'
    BY <1>0, <1>3 DEF Launch!Places
  <1>5. \A k \in Launches : Launch!Session(k)' /\ Launch!Overlay(k)'
    BY <1>0 DEF Launch!Session, Launch!Overlay, Launch!BusyWorker
  <1>6. Launch!FramesAccounted'
    BY DEF Launch!FramesAccounted
  <1>7. QED
    BY <1>3, <1>4, <1>5, <1>6

\* What the end of a delivery leaves: no provider task, and every call counted once.
LEMMA DeliveryCounted ==
    ASSUME Launch!LaunchInv, NEW l \in Launches, s13[l] = "running", Launch!DeliveryOver(l)
    PROVE  /\ s13' = [s13 EXCEPT ![l] = "ended"] /\ s14' = [s14 EXCEPT ![l] = "none"]
           /\ s17' \in [Launches -> Counters] /\ s18' = s18
           /\ \A k \in Launches \ {l} : s17'[k] = s17[k]
           /\ Launch!FramesAccounted'
  <1> DEFINE c == s17[l]
             d == s17'[l]
  <1>1. /\ s13' = [s13 EXCEPT ![l] = "ended"] /\ s14' = [s14 EXCEPT ![l] = "none"] /\ s18' = s18
        /\ s17 \in [Launches -> Counters] /\ c \in Counters /\ c.dropped = 0
        /\ s14 \in [Launches -> {"none", "new", "called", "ok", "bad"}]
    BY DEF Launch!DeliveryOver, Launch!LaunchInv, Launch!LaunchType, Launch!Overlay, Counters
  <1>2. \A k \in Launches :
          Balanced(s17[k], 0, 0, Pending(k)) /\ s18[k] <= MaxStale /\ s17[k].dropped <= 1
    BY <1>1, AccountsBalance DEF Launch!LaunchInv
  <1>3. s17' = [s17 EXCEPT ![l] = d]
    BY <1>1 DEF Launch!DeliveryOver
  <1>4. \/ s14[l] \in {"new", "called"} /\ d = Launch!Counted(c, "dropped")
        \/ s14[l] = "ok" /\ d = Launch!Counted(c, "completions")
        \/ s14[l] = "bad" /\ d = Launch!Counted(c, "failures")
        \/ s14[l] = "none" /\ d = c
    BY <1>1 DEF Launch!DeliveryOver, Launch!Harvested
  <1>5. Balanced(d, 0, 0, 0) /\ d.dropped <= 1
    <2>1. s14[l] # "none" => Balanced(c, 0, 0, 1)
      BY <1>2 DEF Pending
    <2>2. CASE s14[l] \in {"new", "called"} /\ d = Launch!Counted(c, "dropped")
      BY <1>1, <2>1, <2>2, CountOutcome
    <2>3. CASE s14[l] = "ok" /\ d = Launch!Counted(c, "completions")
      BY <1>1, <2>1, <2>3, CountOutcome
    <2>4. CASE s14[l] = "bad" /\ d = Launch!Counted(c, "failures")
      BY <1>1, <2>1, <2>4, CountOutcome
    <2>5. CASE s14[l] = "none" /\ d = c
      BY <1>1, <1>2, <2>5 DEF Pending
    <2>6. QED
      BY <1>4, <2>2, <2>3, <2>4, <2>5
  <1> HIDE DEF d
  <1>6. s17' \in [Launches -> Counters] /\ \A k \in Launches \ {l} : s17'[k] = s17[k]
    BY <1>1, <1>3, <1>5 DEF Balanced
  <1>7. \A k \in Launches :
          /\ Balanced(s17'[k], 0, 0, IF s14'[k] = "none" THEN 0 ELSE 1)
          /\ s18'[k] <= MaxStale /\ s17'[k].dropped <= 1
    BY <1>1, <1>2, <1>3, <1>5 DEF Pending
  <1>8. Launch!FramesAccounted'
    BY <1>7, CounterTypes DEF Launch!FramesAccounted, Balanced
  <1>9. QED
    BY <1>1, <1>6, <1>8

\* A delivery ends by itself.
LEMMA DeliveryDone ==
    ASSUME Launch!LaunchInv, NEW l \in Launches, Launch!DeliveryEnds(l)
    PROVE  Launch!LaunchInv'
  <1> USE DEF Launch!LaunchInv, Launch!LaunchType, Launch!request, Launch!native, Launch!DeliveryEnds
  <1>0. Launch!Session(l) /\ Launch!Overlay(l)
    OBVIOUS
  <1>d. \/ /\ s13' = [s13 EXCEPT ![l] = "ended"] /\ s14' = [s14 EXCEPT ![l] = "none"]
           /\ s13[l] = "running"
           /\ \A k \in Launches \ {l} : s17'[k] = s17[k]
        \/ UNCHANGED <<s13, s14, s17>>
    BY DeliveryCounted
  <1>6. /\ Launch!FramesAccounted' /\ s18' = s18
        /\ s17' \in [Launches -> Counters]
    BY <1>0, DeliveryCounted DEF Launch!FramesAccounted, Counters
  <1>1. Launch!Running' = Launch!Running /\ s4' = s4
    BY <1>0 DEF Launch!Running, Launch!Session
  <1>2. Launch!Owners' = Launch!Owners /\ s8' = s8
    BY <1>0 DEF Launch!Owners, Launch!Owns, Launch!BusyWorker, Launch!Session
  <1>3. Launch!SlotsCounted' /\ s4' \in Nat /\ s8' \in Nat
    BY <1>1, <1>2, StillCounted
  <1>4. Launch!LaunchType'
    BY <1>0, <1>3, <1>d, <1>6 DEF Launch!Places, Counters
  <1>5. \A k \in Launches : Launch!Session(k)' /\ Launch!Overlay(k)'
    BY <1>0, <1>d DEF Launch!Session, Launch!Overlay, Launch!BusyWorker
  <1>7. QED
    BY <1>3, <1>4, <1>5, <1>6

\* The runtime is closed.
LEMMA RuntimeShut ==
    ASSUME Launch!LaunchInv, NEW l \in Launches, Launch!RuntimeClosed(l)
    PROVE  Launch!LaunchInv'
  <1> USE DEF Launch!LaunchInv, Launch!LaunchType, Launch!request, Launch!native, Launch!overlay, Launch!RuntimeClosed, Launch!Onward, Launch!Goto, Launch!Finish
  <1>0. Launch!Session(l) /\ Launch!Overlay(l)
    OBVIOUS
  <1>d. \/ /\ s13' = [s13 EXCEPT ![l] = "ended"] /\ s14' = [s14 EXCEPT ![l] = "none"]
           /\ s13[l] = "running"
           /\ \A k \in Launches \ {l} : s17'[k] = s17[k]
        \/ UNCHANGED <<s13, s14, s17>>
    BY DeliveryCounted
  <1>6. /\ Launch!FramesAccounted' /\ s18' = s18
        /\ s17' \in [Launches -> Counters]
    BY <1>0, DeliveryCounted DEF Launch!FramesAccounted, Counters
  <1>1. (Launch!Running' = Launch!Running /\ s4' = s4) \/ (l \in Launch!Running /\ Launch!Running' = Launch!Running \ {l} /\ s4' = Launch!Slot(l))
    BY <1>0 DEF Launch!Running, Launch!Session
  <1>2. Launch!Owners' = Launch!Owners /\ s8' = s8
    BY <1>0 DEF Launch!Owners, Launch!Owns, Launch!BusyWorker, Launch!Session
  <1>3. Launch!SlotsCounted' /\ s4' \in Nat /\ s8' \in Nat
    BY <1>1, <1>2, StillCounted
  <1>4. Launch!LaunchType'
    BY <1>0, <1>3, <1>d, <1>6 DEF Launch!Places, Counters
  <1>5. \A k \in Launches : Launch!Session(k)' /\ Launch!Overlay(k)'
    BY <1>0, <1>d DEF Launch!Session, Launch!Overlay, Launch!BusyWorker
  <1>7. QED
    BY <1>3, <1>4, <1>5, <1>6

\* A frame is counted once for what is drawn over it and once for what becomes of its call,
\* and what is drawn is at most MaxStale old.
LEMMA FrameCounted ==
    ASSUME Launch!LaunchInv, NEW l \in Launches, Launch!Frame(l)
    PROVE  Launch!LaunchInv'
  <1> DEFINE taken == s14[l] \in {"ok", "bad", "none"}
             c == s17[l]
             h == Launch!Harvest(l)
             p == Launch!Counted(h, "processed")
             calls == taken /\ p.submissions < MaxCalls
             call == IF ~taken THEN "busy" ELSE IF calls THEN "submissions" ELSE "capacity"
             d == Launch!Counted(p, call)
             fresh == IF s14[l] = "ok" THEN s15[l] ELSE s16[l]
             age == Launch!Shown(l) - fresh
             to == IF calls THEN "new" ELSE IF taken THEN "none" ELSE s14[l]
  <1>1. /\ s13[l] = "running" /\ UNCHANGED <<s1, s2, s3, s4, s5, s6, s7, s8, s9, s10, s11, s12, s13>>
        /\ s14' = [s14 EXCEPT ![l] = to]
        /\ \/ /\ age \in 0..MaxStale /\ s17' = [s17 EXCEPT ![l] = Launch!Counted(d, "overlay")]
              /\ s18' = [s18 EXCEPT ![l] = IF age > s18[l] THEN age ELSE s18[l]]
           \/ s17' = [s17 EXCEPT ![l] = Launch!Counted(d, "passthrough")] /\ s18' = s18
           \/ /\ s17' = [s17 EXCEPT ![l] = Launch!Counted(Launch!Counted(d, "passthrough"), "unrendered")]
              /\ s18' = s18
    BY DEF Launch!Frame, Launch!request, Launch!native
  <1>2. /\ Launch!LaunchType /\ Launch!SlotsCounted /\ Launch!FramesAccounted
        /\ \A k \in Launches : Launch!Session(k) /\ Launch!Overlay(k)
    BY DEF Launch!LaunchInv
  <1>3. /\ s17 \in [Launches -> Counters] /\ s14[l] \in {"none", "new", "called", "ok", "bad"}
        /\ c.dropped = 0 /\ s18[l] \in Nat
    BY <1>1, <1>2 DEF Launch!LaunchType, Launch!Overlay, Counters
  <1>4. \A k \in Launches :
          Balanced(s17[k], 0, 0, Pending(k)) /\ s18[k] <= MaxStale /\ s17[k].dropped <= 1
    BY <1>2, <1>3, AccountsBalance
  <1>5. Balanced(h, 0, 0, IF taken THEN 0 ELSE 1) /\ h.dropped = 0
    <2>1. s14[l] # "none" => Balanced(c, 0, 0, 1)
      BY <1>4 DEF Pending
    <2>2. CASE s14[l] = "ok"
      <3>1. h = Launch!Counted(c, "completions")
        BY <2>2 DEF Launch!Harvest, Launch!Harvested
      <3>2. QED
        BY <1>3, <2>1, <2>2, <3>1, CountOutcome
    <2>3. CASE s14[l] = "bad"
      <3>1. h = Launch!Counted(c, "failures")
        BY <2>3 DEF Launch!Harvest, Launch!Harvested
      <3>2. QED
        BY <1>3, <2>1, <2>3, <3>1, CountOutcome
    <2>4. CASE s14[l] \notin {"ok", "bad"}
      <3>1. h = c
        BY <2>4 DEF Launch!Harvest, Launch!Harvested
      <3>2. QED
        BY <1>3, <1>4, <2>1, <2>4, <3>1 DEF Pending
    <2>5. QED
      BY <2>2, <2>3, <2>4
  <1> HIDE DEF h
  <1>6. Balanced(p, 1, 1, IF taken THEN 0 ELSE 1) /\ p.dropped = 0
    BY <1>5, CountFrame
  <1> HIDE DEF p
  <1>7. Balanced(d, 1, 0, IF to = "none" THEN 0 ELSE 1) /\ d.dropped = 0
    <2>1. CASE ~taken
      BY <1>3, <1>6, <2>1, CountCall
    <2>2. CASE taken /\ calls
      BY <1>6, <2>2, CountCall
    <2>3. CASE taken /\ ~calls
      BY <1>6, <2>3, CountCall
    <2>4. QED
      BY <2>1, <2>2, <2>3
  <1> HIDE DEF d, age
  <1>8. /\ s17' = [s17 EXCEPT ![l] = s17'[l]]
        /\ Balanced(s17'[l], 0, 0, IF to = "none" THEN 0 ELSE 1) /\ s17'[l].dropped = 0
    <2> DEFINE z == IF to = "none" THEN 0 ELSE 1
    <2>0. z \in {0, 1}
      OBVIOUS
    <2> HIDE DEF z, to
    <2>1. Balanced(d, 1, 0, z)
      BY <1>7 DEF z
    <2>2. \A f \in {"overlay", "passthrough"} :
            Balanced(Launch!Counted(d, f), 0, 0, z) /\ Launch!Counted(d, f).dropped = 0
      BY <1>7, <2>0, <2>1, CountDrawn
    <2>3. CASE s17' = [s17 EXCEPT ![l] = Launch!Counted(d, "overlay")]
      BY <1>3, <2>2, <2>3 DEF z
    <2>4. CASE s17' = [s17 EXCEPT ![l] = Launch!Counted(d, "passthrough")]
      BY <1>3, <2>2, <2>4 DEF z
    <2>5. CASE s17' = [s17 EXCEPT ![l] = Launch!Counted(Launch!Counted(d, "passthrough"), "unrendered")]
      BY <1>3, <2>0, <2>2, <2>5, CountUnrendered DEF z
    <2>6. QED
      BY <1>1, <2>3, <2>4, <2>5
  <1> HIDE DEF to
  <1>9. s18' \in [Launches -> Nat] /\ s18'[l] <= MaxStale /\ \A k \in Launches \ {l} : s18'[k] = s18[k]
    <2>1. MaxStale \in Nat /\ s18 \in [Launches -> Nat] /\ s18[l] <= MaxStale
      BY <1>2, <1>4, LaunchAssumption DEF Launch!LaunchType
    <2>2. CASE s18' = s18
      BY <2>1, <2>2
    <2>3. CASE age \in 0..MaxStale /\ s18' = [s18 EXCEPT ![l] = IF age > s18[l] THEN age ELSE s18[l]]
      <3>1. PICK a \in 0..MaxStale : a = age
        BY <2>3
      <3>2. s18' = [s18 EXCEPT ![l] = IF a > s18[l] THEN a ELSE s18[l]]
        BY <2>3, <3>1
      <3>3. QED
        BY <2>1, <3>1, <3>2
    <2>4. QED
      BY <1>1, <2>2, <2>3
  <1>10. to \in {"none", "new", "called", "ok", "bad"}
    BY <1>2 DEF to, Launch!LaunchType
  <1>11. s17' \in [Launches -> Counters]
    BY <1>3, <1>8 DEF Balanced
  <1>12. Launch!LaunchType'
    BY <1>1, <1>2, <1>9, <1>10, <1>11 DEF Launch!LaunchType, Counters
  <1>13. Launch!SlotsCounted' /\ \A k \in Launches : Launch!Session(k)' /\ Launch!Overlay(k)'
    <2>1. Launch!SlotsCounted'
      BY <1>1, <1>2 DEF Launch!SlotsCounted, Launch!Running, Launch!Owners, Launch!Owns
    <2>2. \A k \in Launches : s17'[k].dropped = s17[k].dropped /\ s14'[k] = (IF k = l THEN to ELSE s14[k])
      BY <1>1, <1>2, <1>3, <1>8 DEF Launch!LaunchType
    <2>3. \A k \in Launches : Launch!Session(k)' /\ Launch!Overlay(k)'
      BY <1>1, <1>2, <2>2 DEF Launch!Session, Launch!Overlay, Launch!BusyWorker
    <2>4. QED
      BY <2>1, <2>3
  <1>14. Launch!FramesAccounted'
    <2>1. \A k \in Launches :
            /\ Balanced(s17'[k], 0, 0, IF s14'[k] = "none" THEN 0 ELSE 1)
            /\ s18'[k] <= MaxStale /\ s17'[k].dropped <= 1
      BY <1>1, <1>2, <1>4, <1>8, <1>9 DEF Pending, Launch!LaunchType
    <2>2. QED
      BY <2>1, CounterTypes DEF Launch!FramesAccounted, Balanced
  <1>15. QED
    BY <1>12, <1>13, <1>14 DEF Launch!LaunchInv

\* Every step of the launches keeps their invariant.
LEMMA LaunchStep ==
    ASSUME Launch!LaunchInv, [Launch!LaunchNext]_(Launch!launchvars) PROVE Launch!LaunchInv'
  <1>1. CASE UNCHANGED Launch!launchvars
    BY <1>1 DEF Launch!launchvars, Launch!request, Launch!native, Launch!overlay, Launch!LaunchInv,
       Launch!LaunchType, Launch!SlotsCounted, Launch!Running, Launch!Owners, Launch!Owns, Launch!Session,
       Launch!Overlay, Launch!BusyWorker, Launch!FramesAccounted
  <1>2. CASE Launch!LaunchNext
    BY Zenon, <1>2, LaunchRefused, LaunchReserves, LaunchProbed, LaunchResolves, LaunchAcquires,
       LaunchBuilds,
       LaunchNotReady, LaunchCloses, WorkerSettles, WorkerAsked, RuntimeBegins, RuntimeLeft, LaunchCancelled,
       DeliveryDone, RuntimeShut, FrameCounted DEF Launch!LaunchNext, Launch!Launched, Launch!Worked
  <1>3. QED
    BY <1>1, <1>2

\* What the invariant says of the launches.
LEMMA LaunchesExact == ASSUME Launch!LaunchInv PROVE Launch!CapacityExact /\ Launch!FramesAccounted
  BY DEF Launch!LaunchInv, Launch!SlotsCounted, Launch!Running, Launch!Owners, Launch!Session,
     Launch!BusyWorker,
     Launch!Owns, Launch!CapacityExact

-----------------------------------------------------------------------------
(* Native windows and surfaces.                                            *)

\* A runtime begins with nothing.
LEMMA WindowsBegin == ASSUME Windows!Init PROVE Windows!WinInv
  BY DEF Windows!Init, Windows!WinInv, Windows!HandlesSound, Windows!HandlesApart, Windows!OneToOne,
     Windows!Held, Windows!Bitmaps, Windows!Values, Windows!NoOrphanWindows, Windows!CountersTruthful,
     Windows!PaintCoversClient

\* A quotient is no larger than what its dividend has room for.
LEMMA QuotientBound ==
    ASSUME NEW a \in Nat, NEW b \in Nat \ {0}, NEW c \in Nat, a <= c * b
    PROVE  a \div b \in Nat /\ a \div b <= c
  <1> DEFINE q == a \div b
  <1>1. q \in Nat /\ q * b <= a
    OBVIOUS
  <1> HIDE DEF q
  <1>2. ASSUME q > c PROVE FALSE
    <2>1. PICK k \in Nat : q = c + 1 + k
      BY <1>1, <1>2
    <2>2. q * b = c * b + b + k * b /\ k * b >= 0
      BY <2>1
    <2>3. QED
      BY <1>1, <2>2
  <1>3. QED
    BY <1>1, <1>2 DEF q

\* The image fits the client area, one side exactly.
LEMMA ImageFits ==
    ASSUME NEW img \in Windows!Sizes, NEW client \in (Nat \ {0}) \X (Nat \ {0})
    PROVE  LET fit == Windows!AspectFit(img, client)
           IN  /\ {fit.x, fit.y} \subseteq Nat /\ {fit.w, fit.h} \subseteq Nat \ {0}
               /\ fit.x + fit.w <= client[1] /\ fit.y + fit.h <= client[2]
  <1> DEFINE i1 == img[1]
             i2 == img[2]
             c1 == client[1]
             c2 == client[2]
             wide == c1 * i2 <= c2 * i1
             w == IF wide THEN c1 ELSE Windows!AtLeastOne((i1 * c2) \div i2)
             h == IF wide THEN Windows!AtLeastOne((i2 * c1) \div i1) ELSE c2
  <1>1. i1 \in Nat \ {0} /\ i2 \in Nat \ {0} /\ c1 \in Nat \ {0} /\ c2 \in Nat \ {0}
    BY WindowsAssumption DEF Windows!Sizes
  <1>2. Windows!AspectFit(img, client) = [x |-> (c1 - w) \div 2, y |-> (c2 - h) \div 2, w |-> w, h |-> h]
    BY DEF Windows!AspectFit
  <1> HIDE DEF i1, i2, c1, c2
  <1>3. w \in Nat \ {0} /\ h \in Nat \ {0} /\ w <= c1 /\ h <= c2
    <2>1. CASE wide
      <3>1. i2 * c1 \in Nat /\ i2 * c1 <= c2 * i1
        BY <1>1, <2>1
      <3>2. (i2 * c1) \div i1 \in Nat /\ (i2 * c1) \div i1 <= c2
        BY <1>1, <3>1, QuotientBound
      <3>3. QED
        BY <1>1, <2>1, <3>2 DEF Windows!AtLeastOne
    <2>2. CASE ~wide
      <3>1. i1 * c2 \in Nat /\ i1 * c2 <= c1 * i2
        BY <1>1, <2>2
      <3>2. (i1 * c2) \div i2 \in Nat /\ (i1 * c2) \div i2 <= c1
        BY <1>1, <3>1, QuotientBound
      <3>3. QED
        BY <1>1, <2>2, <3>2 DEF Windows!AtLeastOne
    <2>3. QED
      BY <2>1, <2>2
  <1> HIDE DEF w, h
  <1>4. (c1 - w) \div 2 \in Nat /\ (c1 - w) \div 2 + w <= c1 /\ (c2 - h) \div 2 \in Nat /\ (c2 - h) \div 2 + h <= c2
    BY <1>1, <1>3
  <1>5. QED
    BY <1>2, <1>3, <1>4 DEF c1, c2

\* The image and the four blackened regions leave nothing of the client area uncovered.
LEMMA NothingUncovered ==
    ASSUME NEW client \in (Nat \ {0}) \X (Nat \ {0}), NEW x \in Nat, NEW y \in Nat,
           NEW w \in Nat \ {0}, NEW h \in Nat \ {0}, x + w <= client[1], y + h <= client[2],
           NEW px \in 0..(client[1] - 1), NEW py \in 0..(client[2] - 1)
    PROVE  LET fit == [x |-> x, y |-> y, w |-> w, h |-> h]
           IN  \E r \in Windows!Bars(fit, client) \cup {fit} :
                 r.x <= px /\ px < r.x + r.w /\ r.y <= py /\ py < r.y + r.h
  <1> DEFINE fit == [x |-> x, y |-> y, w |-> w, h |-> h]
             Covers(r) == r.x <= px /\ px < r.x + r.w /\ r.y <= py /\ py < r.y + r.h
             R == Windows!Bars(fit, client) \cup {fit}
             top == [x |-> 0, y |-> 0, w |-> client[1], h |-> y]
             bottom == [x |-> 0, y |-> y + h, w |-> client[1], h |-> client[2] - y - h]
             near == [x |-> 0, y |-> y, w |-> x, h |-> h]
             far == [x |-> x + w, y |-> y, w |-> client[1] - x - w, h |-> h]
  <1>1. {fit, top, bottom, near, far} \subseteq R
    BY DEF Windows!Bars
  <1>2. Covers(fit) \/ Covers(top) \/ Covers(bottom) \/ Covers(near) \/ Covers(far)
    <2>1. client[1] \in Nat /\ client[2] \in Nat /\ px \in Nat /\ py \in Nat /\ px < client[1] /\ py < client[2]
      OBVIOUS
    <2>2. QED
      BY <2>1
  <1> HIDE DEF R, Covers, fit, top, bottom, near, far
  <1>3. \E r \in R : Covers(r)
    BY <1>1, <1>2
  <1>4. QED
    BY <1>3 DEF R, Covers, fit

\* A painted frame covers the client area.
LEMMA PaintCovers ==
    ASSUME NEW img \in Windows!Sizes, NEW client \in Extents \X Extents, 0 \notin {client[1], client[2]},
           s13' = [client |-> client, fit |-> Windows!AspectFit(img, client)]
    PROVE  Windows!PaintCoversClient'
  <1> DEFINE fit == Windows!AspectFit(img, client)
  <1>1. client \in (Nat \ {0}) \X (Nat \ {0})
    BY WindowsAssumption
  <1>2. /\ {fit.x, fit.y} \subseteq Nat /\ {fit.w, fit.h} \subseteq Nat \ {0}
        /\ fit.x + fit.w <= client[1] /\ fit.y + fit.h <= client[2]
    BY <1>1, ImageFits
  <1>3. fit = [x |-> fit.x, y |-> fit.y, w |-> fit.w, h |-> fit.h]
    BY DEF Windows!AspectFit
  <1>4. s13'.client = client /\ s13'.fit = fit
    OBVIOUS
  <1> HIDE DEF fit
  <1>5. \A px \in 0..(client[1] - 1), py \in 0..(client[2] - 1) :
          \E r \in Windows!Bars(fit, client) \cup {fit} :
             r.x <= px /\ px < r.x + r.w /\ r.y <= py /\ py < r.y + r.h
    BY <1>1, <1>2, <1>3, NothingUncovered
  <1>6. fit.w >= 1 /\ fit.h >= 1
    BY <1>2
  <1>7. QED
    BY <1>2, <1>4, <1>5, <1>6 DEF Windows!PaintCoversClient

\* A call that gives up, and close, leave nothing but what the system refused to destroy.
LEMMA WindowsReleased ==
    ASSUME Windows!WinInv, NEW failed, Windows!CloseResources(failed), s1' \in {"closed", "failed"},
           UNCHANGED <<s9, s10, s11, s12, s16>>
    PROVE  Windows!WinInv'
  <1>1. /\ s4' = [s \in {} |-> 0] /\ s5' = [s \in {} |-> 0] /\ s6' = [s \in {} |-> 0] /\ s3' = "idle"
        /\ s13' = Windows!NoPaint
    BY DEF Windows!CloseResources
  <1>2. failed \subseteq Windows!Held /\ s14' = s14 \ (Windows!Held \ failed) /\ s15' = s15 \cup failed
    BY DEF Windows!CloseResources, Windows!Destroy, Windows!Released, Windows!Held
  <1>3. s14 \ s15 = Windows!Held /\ s14 \subseteq 1..s16 /\ s15 \subseteq s14
    BY DEF Windows!WinInv, Windows!HandlesSound, Windows!NoOrphanWindows, Windows!Held
  <1>4. s14' = s15' /\ s15' \subseteq 1..s16
    BY <1>2, <1>3
  <1>5. Windows!Held' = {} /\ Windows!Values(s4)' = {} /\ Windows!Values(s5)' = {} /\ Windows!Values(s6)' = {}
    BY <1>1 DEF Windows!Held, Windows!Values, Windows!Bitmaps
  <1>6. Windows!HandlesSound'
    BY <1>1, <1>4, <1>5 DEF Windows!WinInv, Windows!HandlesSound
  <1>7. Windows!HandlesApart'
    BY <1>1, <1>5 DEF Windows!HandlesApart, Windows!OneToOne
  <1>8. Windows!NoOrphanWindows'
    BY <1>1, <1>4, <1>5 DEF Windows!NoOrphanWindows, Windows!Held
  <1>9. Windows!PaintCoversClient'
    BY <1>1 DEF Windows!PaintCoversClient
  <1>10. QED
    BY <1>6, <1>7, <1>8, <1>9 DEF Windows!WinInv, Windows!CountersTruthful

LEMMA WindowsFail ==
    ASSUME Windows!WinInv, NEW failed, Windows!FailClosed(failed), s16' = s16
    PROVE  Windows!WinInv'
  BY WindowsReleased DEF Windows!FailClosed

LEMMA WindowsClose == ASSUME Windows!WinInv, NEW failed, Windows!Close(failed) PROVE Windows!WinInv'
  BY WindowsReleased DEF Windows!Close

\* A runtime that opens has surfaces without bitmaps, so nothing native yet.
LEMMA WindowsOpen == ASSUME Windows!WinInv, Windows!OpenSurfaces PROVE Windows!WinInv'
  <1>1. /\ s1 = "ready" /\ s3 = "idle" /\ s3' = "open" /\ s6' = [s \in Views |-> 0]
        /\ UNCHANGED <<s1, s4, s5, s9, s10, s11, s12, s13, s14, s15, s16>> /\ s11' = s11
    BY DEF Windows!OpenSurfaces
  <1>2. Windows!Held = {} /\ DOMAIN s4 = {} /\ DOMAIN s5 = {}
    BY <1>1 DEF Windows!WinInv, Windows!HandlesSound
  <1>3. Windows!Values(s4)' = {} /\ Windows!Values(s5)' = {} /\ Windows!Values(s6)' \subseteq {0}
    BY <1>1, <1>2 DEF Windows!Values
  <1>4. Windows!Held' = {}
    BY <1>3 DEF Windows!Held, Windows!Bitmaps
  <1>5. Windows!HandlesSound'
    BY <1>1, <1>2, <1>4 DEF Windows!WinInv, Windows!HandlesSound
  <1>6. Windows!HandlesApart'
    BY <1>1, <1>2, <1>3 DEF Windows!WinInv, Windows!HandlesApart, Windows!OneToOne
  <1>7. Windows!NoOrphanWindows'
    BY <1>1, <1>2, <1>4 DEF Windows!WinInv, Windows!NoOrphanWindows, Windows!Held
  <1>8. QED
    BY <1>1, <1>5, <1>6, <1>7 DEF Windows!WinInv, Windows!CountersTruthful, Windows!PaintCoversClient

\* A window that is created is new, and the map that is filled holds it.
LEMMA WindowsCreate == ASSUME Windows!WinInv, NEW s, Windows!CreateTarget(s) PROVE Windows!WinInv'
  <1>1. /\ s3 # "idle" /\ s \notin DOMAIN s5 /\ s16' = s16 + 1 /\ s14' = s14 \cup {s16 + 1}
        /\ s5' = [x \in DOMAIN s5 \cup {s} |-> IF x = s THEN s16 + 1 ELSE s5[x]]
        /\ UNCHANGED <<s1, s3, s4, s6, s9, s10, s11, s12, s13, s15>>
    BY DEF Windows!CreateTarget
  <1>2. s16 \in Nat /\ s14 \subseteq 1..s16 /\ s15 \subseteq s14 /\ s15 \cap Windows!Held = {}
        /\ s4 \in [DOMAIN s4 -> 1..s16] /\ s5 \in [DOMAIN s5 -> 1..s16] /\ s6 \in [DOMAIN s6 -> 0..s16]
    BY DEF Windows!WinInv, Windows!HandlesSound
  <1>3. Windows!Values(s5)' = Windows!Values(s5) \cup {s16 + 1}
    BY <1>1, <1>2 DEF Windows!Values
  <1>4. Windows!Values(s4)' = Windows!Values(s4) /\ Windows!Values(s6)' = Windows!Values(s6) /\ Windows!Bitmaps' = Windows!Bitmaps
    BY <1>1 DEF Windows!Values, Windows!Bitmaps
  <1>5. Windows!Values(s4) \subseteq 1..s16 /\ Windows!Values(s5) \subseteq 1..s16 /\ Windows!Values(s6) \subseteq 0..s16
    BY <1>2 DEF Windows!Values
  <1>6. s16 + 1 \notin 0..s16 /\ s16 + 1 \notin 1..s16 /\ 1..s16 \subseteq 1..(s16 + 1) /\ 0..s16 \subseteq 0..(s16 + 1)
        /\ s16 + 1 \in 1..(s16 + 1)
    BY <1>2
  <1>7. Windows!Held' = Windows!Held \cup {s16 + 1}
    BY <1>3, <1>4 DEF Windows!Held
  <1>8. Windows!HandlesSound'
    <2>1. s4' \in [DOMAIN s4' -> 1..s16'] /\ s5' \in [DOMAIN s5' -> 1..s16'] /\ s6' \in [DOMAIN s6' -> 0..s16']
      BY <1>1, <1>2, <1>6
    <2>2. s16' \in Nat /\ s14' \subseteq 1..s16' /\ s15' \subseteq s14' /\ s15' \cap Windows!Held' = {}
      BY <1>1, <1>2, <1>6, <1>7
    <2>3. QED
      BY <1>1, <2>1, <2>2 DEF Windows!WinInv, Windows!HandlesSound
  <1>9. Windows!HandlesApart'
    <2>1. Windows!HandlesApart
      BY DEF Windows!WinInv
    <2>2. Windows!OneToOne(s5)'
      BY <1>1, <1>2, <1>6, <2>1 DEF Windows!HandlesApart, Windows!OneToOne
    <2>3. s16 + 1 \notin Windows!Values(s4) /\ s16 + 1 \notin Windows!Values(s6)
      BY <1>5, <1>6
    <2>4. QED
      BY <1>1, <1>3, <1>4, <2>1, <2>2, <2>3 DEF Windows!HandlesApart, Windows!OneToOne
  <1>10. Windows!NoOrphanWindows'
    <2>1. s14 \ s15 = Windows!Held
      BY DEF Windows!WinInv, Windows!NoOrphanWindows, Windows!Held
    <2>2. s14' \ s15' = Windows!Held'
      BY <1>1, <1>2, <1>6, <1>7, <2>1
    <2>3. s1 \notin {"closed", "failed"}
      BY <1>1 DEF Windows!WinInv, Windows!HandlesSound
    <2>4. QED
      BY <1>1, <2>2, <2>3 DEF Windows!NoOrphanWindows, Windows!Held
  <1>11. QED
    BY <1>1, <1>8, <1>9, <1>10 DEF Windows!WinInv, Windows!CountersTruthful, Windows!PaintCoversClient

\* The new windows become the layout's; a relayout has then closed the old ones.
LEMMA WindowsLaidOut ==
    ASSUME Windows!WinInv, s3 # "idle", s4' = s5, s5' = [s \in {} |-> 0], s3' = "idle", s1' = "open",
           s14' = s14 \ Windows!Values(s4), s13' \in {s13, Windows!NoPaint},
           UNCHANGED <<s6, s9, s10, s11, s12, s15, s16>>
    PROVE  Windows!WinInv'
  <1> USE DEF Windows!WinInv
  <1>1. Windows!Values(s4)' = Windows!Values(s5) /\ Windows!Values(s5)' = {} /\ Windows!Values(s6)' = Windows!Values(s6)
        /\ Windows!Bitmaps' = Windows!Bitmaps
    BY DEF Windows!Values, Windows!Bitmaps
  <1>2. Windows!Values(s4) \cap (Windows!Values(s5) \cup Windows!Bitmaps) = {}
    BY DEF Windows!HandlesApart, Windows!Bitmaps
  <1>3. Windows!Held' = Windows!Values(s5) \cup Windows!Bitmaps
    BY <1>1 DEF Windows!Held
  <1>4. s14 \ s15 = Windows!Held /\ s14 \subseteq 1..s16 /\ s15 \subseteq s14 /\ s15 \cap Windows!Held = {}
    BY DEF Windows!HandlesSound, Windows!NoOrphanWindows, Windows!Held
  <1>5. s14' \ s15' = Windows!Held' /\ s15' \subseteq s14' /\ s15' \cap Windows!Held' = {} /\ s14' \subseteq 1..s16
    BY <1>2, <1>3, <1>4 DEF Windows!Held
  <1>6. s5 \in [DOMAIN s5 -> 1..s16] /\ s6 \in [DOMAIN s6 -> 0..s16] /\ s16 \in Nat
    BY DEF Windows!HandlesSound
  <1>7. Windows!HandlesSound'
    <2>1. DOMAIN s5' = {} /\ s5' \in [DOMAIN s5' -> 1..s16']
      OBVIOUS
    <2>2. QED
      BY <1>5, <1>6, <2>1 DEF Windows!HandlesSound
  <1>8. Windows!HandlesApart'
    BY <1>1 DEF Windows!HandlesApart, Windows!OneToOne
  <1>9. Windows!NoOrphanWindows'
    BY <1>5 DEF Windows!NoOrphanWindows, Windows!Held
  <1>10. QED
    BY <1>7, <1>8, <1>9 DEF Windows!CountersTruthful, Windows!PaintCoversClient

LEMMA WindowsOpened == ASSUME Windows!WinInv, Windows!OpenDone PROVE Windows!WinInv'
  <1>1. s14 \ Windows!Values(s4) = s14
    BY DEF Windows!OpenDone, Windows!WinInv, Windows!HandlesSound, Windows!Values
  <1>2. QED
    BY <1>1, WindowsLaidOut DEF Windows!OpenDone

\* What only begins a relayout, or changes nothing, keeps what was held.
LEMMA WindowsAsBefore ==
    ASSUME Windows!WinInv, UNCHANGED <<s1, s4, s5, s6, s9, s10, s11, s12, s13, s14, s15, s16>>,
           s3' = s3 \/ (s1 = "open" /\ s3 = "idle" /\ s3' = "relayout")
    PROVE  Windows!WinInv'
  <1>1. Windows!Held' = Windows!Held /\ Windows!Bitmaps' = Windows!Bitmaps /\ Windows!Values(s4)' = Windows!Values(s4)
        /\ Windows!Values(s5)' = Windows!Values(s5) /\ Windows!Values(s6)' = Windows!Values(s6)
    BY DEF Windows!Held, Windows!Bitmaps, Windows!Values
  <1>2. Windows!HandlesSound'
    BY <1>1 DEF Windows!WinInv, Windows!HandlesSound
  <1>3. Windows!HandlesApart'
    BY <1>1 DEF Windows!WinInv, Windows!HandlesApart, Windows!OneToOne
  <1>4. Windows!NoOrphanWindows'
    BY <1>1 DEF Windows!WinInv, Windows!NoOrphanWindows
  <1>5. Windows!PaintCoversClient'
    BY DEF Windows!WinInv, Windows!PaintCoversClient
  <1>6. QED
    BY <1>2, <1>3, <1>4, <1>5 DEF Windows!WinInv, Windows!CountersTruthful

LEMMA WindowsRelayout ==
    ASSUME Windows!WinInv, NEW slots, Windows!RelayoutBegin(slots) PROVE Windows!WinInv'
  BY WindowsAsBefore DEF Windows!RelayoutBegin

LEMMA WindowsRelaidOut ==
    ASSUME Windows!WinInv, NEW failed, Windows!RelayoutDone(failed) PROVE Windows!WinInv'
  <1>1. CASE failed # {}
    BY <1>1, WindowsFail DEF Windows!RelayoutDone
  <1>2. CASE failed = {}
    <2>1. s1 = "open"
      BY DEF Windows!RelayoutDone, Windows!WinInv, Windows!HandlesSound
    <2>2. s14' = s14 \ Windows!Values(s4) /\ s15' = s15
      BY <1>2 DEF Windows!RelayoutDone, Windows!Destroy
    <2>3. QED
      BY <1>2, <2>1, <2>2, WindowsLaidOut DEF Windows!RelayoutDone
  <1>3. QED
    BY <1>1, <1>2

\* A surface that takes a frame holds one bitmap, its old one is destroyed.
LEMMA GeometryKept ==
    ASSUME Windows!WinInv, NEW s \in DOMAIN s6, NEW img, Windows!EnsureGeometry(s, img), s3 = "idle", s1 = "open",
           UNCHANGED <<s1, s3, s4, s5, s15>>
    PROVE  Windows!HandlesSound' /\ Windows!HandlesApart' /\ Windows!NoOrphanWindows'
  <1> USE DEF Windows!WinInv
  <1>1. CASE UNCHANGED <<s6, s14, s16>>
    BY <1>1 DEF Windows!HandlesSound, Windows!HandlesApart, Windows!OneToOne, Windows!Held, Windows!Bitmaps,
       Windows!Values, Windows!NoOrphanWindows
  <1>2. CASE /\ s16' = s16 + 1 /\ s14' = (s14 \ {s6[s]}) \cup {s16 + 1}
             /\ s6' = [s6 EXCEPT ![s] = s16 + 1]
    <2>1. s16 \in Nat /\ s14 \subseteq 1..s16 /\ s15 \subseteq s14 /\ s15 \cap Windows!Held = {}
          /\ s4 \in [DOMAIN s4 -> 1..s16] /\ s5 \in [DOMAIN s5 -> 1..s16] /\ s6 \in [DOMAIN s6 -> 0..s16]
      BY DEF Windows!HandlesSound
    <2>2. s16 + 1 \notin 0..s16 /\ s16 + 1 \notin 1..s16 /\ 1..s16 \subseteq 1..(s16 + 1) /\ 0..s16 \subseteq 0..(s16 + 1)
          /\ s16 + 1 \in 1..(s16 + 1) /\ s16 + 1 \in 0..(s16 + 1) /\ s16 + 1 # 0
      BY <2>1
    <2>3. Windows!Values(s4)' = Windows!Values(s4) /\ Windows!Values(s5)' = Windows!Values(s5)
      BY DEF Windows!Values
    <2>4. \A t \in DOMAIN s6 : s6'[t] = IF t = s THEN s16 + 1 ELSE s6[t]
      BY <1>2
    <2>5. DOMAIN s6' = DOMAIN s6
      BY <1>2
    <2>6. \A t \in DOMAIN s6 : s6[t] \in Windows!Values(s6)
      BY DEF Windows!Values
    <2>7. \A t \in DOMAIN s6 \ {s} : s6[t] = s6[s] => s6[t] = 0
      BY DEF Windows!HandlesApart
    <2>8. \A b : b \in Windows!Bitmaps <=> b # 0 /\ \E t \in DOMAIN s6 : s6[t] = b
      BY DEF Windows!Bitmaps, Windows!Values
    <2>9. \A b : b \in Windows!Bitmaps' <=> b # 0 /\ \E t \in DOMAIN s6 : s6'[t] = b
      BY <2>5 DEF Windows!Bitmaps, Windows!Values
    <2>10. Windows!Bitmaps' = (Windows!Bitmaps \ {s6[s]}) \cup {s16 + 1}
      <3>1. \A b \in Windows!Bitmaps' : b \in (Windows!Bitmaps \ {s6[s]}) \cup {s16 + 1}
        BY <2>4, <2>7, <2>8, <2>9
      <3>2. \A b \in (Windows!Bitmaps \ {s6[s]}) : b \in Windows!Bitmaps'
        BY <2>4, <2>8, <2>9
      <3>3. s16 + 1 \in Windows!Bitmaps'
        BY <2>2, <2>4, <2>9
      <3>4. QED
        BY <3>1, <3>2, <3>3
    <2>11. Windows!Values(s6)' \subseteq Windows!Values(s6) \cup {s16 + 1}
      BY <2>4, <2>5 DEF Windows!Values
    <2>12. Windows!Values(s4) \subseteq 1..s16 /\ Windows!Values(s5) \subseteq 1..s16
      BY <2>1 DEF Windows!Values
    <2>13. s6[s] \notin Windows!Values(s4) \cup Windows!Values(s5)
      BY <2>6 DEF Windows!HandlesApart
    <2>14. Windows!Held' = (Windows!Held \ {s6[s]}) \cup {s16 + 1}
      BY <2>3, <2>10, <2>13 DEF Windows!Held
    <2>15. s14 \ s15 = Windows!Held
      BY DEF Windows!NoOrphanWindows, Windows!Held
    <2>16. s6[s] \notin s15
      <3>1. CASE s6[s] = 0
        BY <2>1, <3>1
      <3>2. CASE s6[s] # 0
        BY <2>1, <2>8, <3>2 DEF Windows!Held
      <3>3. QED
        BY <3>1, <3>2
    <2>17. s14' \ s15' = Windows!Held' /\ s15' \subseteq s14' /\ s15' \cap Windows!Held' = {} /\ s14' \subseteq 1..s16'
      BY <1>2, <2>1, <2>2, <2>14, <2>15, <2>16
    <2>18. Windows!HandlesSound'
      <3>1. s4' \in [DOMAIN s4' -> 1..s16'] /\ s5' \in [DOMAIN s5' -> 1..s16'] /\ s6' \in [DOMAIN s6' -> 0..s16']
        BY <1>2, <2>1, <2>2
      <3>2. s16' \in Nat
        BY <1>2, <2>1
      <3>3. QED
        BY <2>17, <3>1, <3>2 DEF Windows!HandlesSound
    <2>19. Windows!HandlesApart'
      <3>1. \A t, u \in DOMAIN s6 : s6'[t] = s6'[u] /\ s6'[t] # 0 => t = u
        BY <2>1, <2>2, <2>4 DEF Windows!HandlesApart
      <3>2. (Windows!Values(s4) \cup Windows!Values(s5)) \cap Windows!Values(s6)' = {}
        BY <2>2, <2>11, <2>12 DEF Windows!HandlesApart
      <3>3. QED
        BY <2>3, <2>5, <3>1, <3>2 DEF Windows!HandlesApart, Windows!OneToOne
    <2>20. QED
      BY <2>17, <2>18, <2>19 DEF Windows!NoOrphanWindows, Windows!Held
  <1>3. QED
    BY <1>1, <1>2 DEF Windows!EnsureGeometry

\* A frame that is shown is counted once by everybody, one that is deferred by nobody.
LEMMA WindowsPresent ==
    ASSUME Windows!WinInv, NEW s, NEW img \in Windows!Sizes, NEW client \in Extents \X Extents,
           Windows!Present(s, img, client)
    PROVE  Windows!WinInv'
  <1>1. Windows!HandlesSound' /\ Windows!HandlesApart' /\ Windows!NoOrphanWindows'
    BY GeometryKept DEF Windows!Present, Windows!Presentable
  <1>2. s9' \in Nat /\ s10' \in Nat /\ Windows!CountersTruthful'
    BY DEF Windows!Present, Windows!CountPaint, Windows!WinInv, Windows!CountersTruthful
  <1>3. Windows!PaintCoversClient'
    <2>1. CASE s13' = s13
      BY <2>1 DEF Windows!WinInv, Windows!PaintCoversClient
    <2>2. CASE 0 \notin {client[1], client[2]} /\ s13' = [client |-> client, fit |-> Windows!AspectFit(img, client)]
      BY <2>2, PaintCovers
    <2>3. QED
      BY <2>1, <2>2 DEF Windows!Present
  <1>4. QED
    BY <1>1, <1>2, <1>3 DEF Windows!WinInv

\* Every step of the windows keeps their invariant.
LEMMA WindowsStep ==
    ASSUME Windows!WinInv, [Windows!Next]_(Windows!winvars) PROVE Windows!WinInv'
  <1>1. CASE UNCHANGED Windows!winvars
    BY <1>1, WindowsAsBefore DEF Windows!winvars
  <1>2. ASSUME NEW failed, Windows!OpenFails(failed) \/ Windows!CreateTargetFails(failed) PROVE Windows!WinInv'
    BY <1>2, WindowsFail DEF Windows!OpenFails, Windows!CreateTargetFails
  <1>3. ASSUME NEW s, NEW img, NEW failed, Windows!PresentFails(s, img, failed) PROVE Windows!WinInv'
    BY <1>3, WindowsFail DEF Windows!PresentFails
  <1>4. CASE Windows!Next
    BY <1>2, <1>3, <1>4, WindowsOpen, WindowsOpened, WindowsCreate, WindowsRelayout, WindowsRelaidOut, WindowsClose,
       WindowsPresent DEF Windows!Next
  <1>5. QED
    BY <1>1, <1>4

-----------------------------------------------------------------------------
(* Recording sessions.                                                     *)

\* A session begins with nothing recorded.
LEMMA RecordingBegins == ASSUME Recorder!RecInit PROVE Recorder!RecInv
  <1> USE DEF Recorder!RecInit
  <1>1. Recorder!NoFiles \in [lock : BOOLEAN, stage : Recorder!FileSizes, media : Recorder!FileSizes,
                              dstage : Recorder!FileSizes, desc : Recorder!FileSizes]
    BY DEF Recorder!NoFiles, Recorder!FileSizes, Recorder!Absent
  <1>2. Recorder!SegmentsSound
    <2>1. s5 \in 0..MaxSegments /\ s4 \in {0, s5} /\ s11 = (1..s5) \ {s4}
      BY RecordingAssumption
    <2>2. s13 \in [Recorder!Segments -> [lock : BOOLEAN, stage : Recorder!FileSizes, media : Recorder!FileSizes,
                              dstage : Recorder!FileSizes, desc : Recorder!FileSizes]]
      BY <1>1
    <2>3. \A i \in Recorder!Segments : s13[i] = Recorder!NoFiles /\ s13[i].media = Recorder!Absent
      BY DEF Recorder!NoFiles
    <2>4. s14 \in [lock : BOOLEAN, stage : BOOLEAN, file : BOOLEAN]
      BY DEF Recorder!NoOwn
    <2>5. QED
      BY <2>1, <2>2, <2>3, <2>4 DEF Recorder!SegmentsSound
  <1>3. Recorder!TaskSound
    BY DEF Recorder!TaskSound, Recorder!InSink
  <1>4. QED
    BY <1>2, <1>3 DEF Recorder!RecInv, Recorder!OneEach, Recorder!FinishedSegmentsKept

\* What is known of one thread, by what it does.
KindSound(j) ==
  /\ j.kind = "open" => Recorder!OpenSound(j)
  /\ j.kind = "write" => Recorder!WriteSound(j)
  /\ j.kind = "finalize" => Recorder!FinalSound(j)
  /\ j.kind = "describe" => Recorder!DescribeSound(j)
  /\ j.kind = "abort" => Recorder!AbortSound(j)
  /\ j.kind = "delete" => Recorder!DeleteSound(j)

FileType == [lock : BOOLEAN, stage : Recorder!FileSizes, media : Recorder!FileSizes,
             dstage : Recorder!FileSizes, desc : Recorder!FileSizes]
OwnType == [lock : BOOLEAN, stage : BOOLEAN, file : BOOLEAN]

LEMMA SegmentFiles ==
    ASSUME Recorder!SegmentsSound, s4 # 0
    PROVE  s4 \in Recorder!Segments /\ s4 \in Nat \ {0} /\ Recorder!F \in FileType /\ s14 \in OwnType
  BY RecordingAssumption DEF Recorder!SegmentsSound, Recorder!Segments, Recorder!F, FileType, OwnType

\* The threads after one of them has taken a step.
LEMMA Stepped ==
    ASSUME Recorder!OneEach, \A j \in s12 : j = Recorder!Job(j.kind, j.at), NEW t \in s12, NEW at, Recorder!Step(t, at)
    PROVE  /\ \A k \in s12' : k = Recorder!Job(t.kind, at) \/ (k \in s12 /\ k.kind # t.kind)
           /\ \A k \in s12 : k.kind # t.kind => k \in s12'
           /\ Recorder!Job(t.kind, at) \in s12'
           /\ Recorder!OneEach'
  <1>1. s12' = (s12 \ {t}) \cup {Recorder!Job(t.kind, at)}
    BY DEF Recorder!Step
  <1>2. \A k \in s12 : k # t => k.kind # t.kind
    BY DEF Recorder!OneEach
  <1>3. Recorder!Job(t.kind, at).kind = t.kind
    BY DEF Recorder!Job
  <1>4. \A j, k \in s12 \ {t} : j.kind = k.kind \/ {j.kind, k.kind} \cap {"abort", "delete"} = {} => j = k
    BY DEF Recorder!OneEach
  <1>5. \A k \in s12 \ {t} : ~(k.kind = t.kind \/ {k.kind, t.kind} \cap {"abort", "delete"} = {})
    BY DEF Recorder!OneEach
  <1>6. Recorder!OneEach'
    BY <1>1, <1>3, <1>4, <1>5 DEF Recorder!OneEach
  <1>7. QED
    BY <1>1, <1>2, <1>3, <1>6

\* The files of other segments stay, those of the segment in progress become f.
LEMMA FilesOf ==
    ASSUME Recorder!SegmentsSound, s4 # 0, NEW f \in FileType, Recorder!Files(f), s4' = s4
    PROVE  /\ Recorder!F' = f
           /\ \A i \in Recorder!Segments \ {s4} : s13'[i] = s13[i]
           /\ s13' \in [Recorder!Segments -> FileType]
  BY SegmentFiles DEF Recorder!SegmentsSound, Recorder!Files, Recorder!F, FileType

\* ThreadSound by its parts.
LEMMA SoundThread == \A j : Recorder!ThreadSound(j) <=> j = Recorder!Job(j.kind, j.at) /\ KindSound(j)
  BY DEF Recorder!ThreadSound, KindSound

LEMMA JobFields == \A k, a : Recorder!Job(k, a).kind = k /\ Recorder!Job(k, a).at = a
  BY DEF Recorder!Job

\* The task's own variables during a step of a thread.
TaskKept == UNCHANGED <<s1, s2, s3, s4, s5, s6, s7, s8, s9, s10, s11, s15, s16, s19>>
Lowered == /\ s14'.file => s14.file
           /\ s14'.lock => s14.lock
           /\ s14'.stage => s14.stage

\* A thread takes a step: no flag but that of a file it creates is raised, only the clean-up,
\* the publication and the deletion touch what other threads rely on.
LEMMA ThreadMoves ==
    ASSUME Recorder!RecInv, NEW t \in Recorder!Running, NEW at, Recorder!Step(t, at), TaskKept,
           NEW f \in FileType, Recorder!Files(f), s14' \in OwnType, s17' \in BOOLEAN, s17 => s17',
           s14'.lock = f.lock, s14'.stage <=> f.stage # Recorder!Absent,
           f.media # Recorder!Absent => f.media % 2 = 0,
           Lowered \/ (t.kind = "open" /\ (s14'.file => s14.file)),
           t.kind \in {"abort", "delete"} => f.stage \in {Recorder!F.stage, Recorder!Absent},
           f.media \in {Recorder!F.media, Recorder!Absent} \/ (t.kind = "finalize" /\ s14.stage),
           t.kind = "describe" => f.media = Recorder!F.media /\ s14' = s14,
           KindSound(Recorder!Job(t.kind, at))'
    PROVE  Recorder!RecInv'
  <1> USE DEF TaskKept
  <1>1. /\ Recorder!SegmentsSound /\ Recorder!OneEach /\ Recorder!TaskSound /\ Recorder!FinishedSegmentsKept
        /\ t \in s12 /\ t.at \notin {"done", "failed"}
        /\ \A k \in s12 : k = Recorder!Job(k.kind, k.at) /\ KindSound(k)
    BY SoundThread DEF Recorder!RecInv, Recorder!Running
  <1>2. s4 # 0
    BY <1>1 DEF Recorder!TaskSound
  <1>3. s4 \in Recorder!Segments /\ s4 \in Nat \ {0} /\ Recorder!F \in FileType /\ s14 \in OwnType
    BY <1>1, <1>2, SegmentFiles
  <1>4. /\ Recorder!F' = f /\ \A i \in Recorder!Segments \ {s4} : s13'[i] = s13[i]
        /\ s13' \in [Recorder!Segments -> FileType]
    BY <1>1, <1>2, FilesOf
  <1>5. /\ \A k \in s12' : k = Recorder!Job(t.kind, at) \/ (k \in s12 /\ k.kind # t.kind)
        /\ \A k \in s12 : k.kind # t.kind => k \in s12'
        /\ Recorder!Job(t.kind, at) \in s12'
        /\ Recorder!OneEach'
    BY <1>1, Stepped
  <1>6. Recorder!SegmentsSound'
    <2>1. s13'[s4] = f
      BY <1>4 DEF Recorder!F
    <2>2. \A i \in Recorder!Segments : (i > s5 => s13'[i] = Recorder!NoFiles)
                                       /\ (s13'[i].media # Recorder!Absent => s13'[i].media % 2 = 0)
      BY <1>1, <1>2, <1>3, <1>4, <2>1, RecordingAssumption DEF Recorder!SegmentsSound, Recorder!Segments
    <2>3. QED
      BY <1>1, <1>4, <2>2 DEF Recorder!SegmentsSound, FileType, OwnType, Recorder!Segments
  <1>7. Recorder!FinishedSegmentsKept'
    <2>1. s4 \notin s11
      BY <1>1 DEF Recorder!SegmentsSound
    <2>2. s11 \subseteq Recorder!Segments
      BY <1>1, RecordingAssumption DEF Recorder!SegmentsSound, Recorder!Segments
    <2>3. QED
      BY <1>1, <1>4, <2>1, <2>2 DEF Recorder!FinishedSegmentsKept, Recorder!Recovered
  <1>8. \A k \in s12 : k.kind # t.kind => KindSound(k)'
    <2> SUFFICES ASSUME NEW k \in s12, k.kind # t.kind PROVE KindSound(k)'
      OBVIOUS
    <2>1. k.kind \in {"abort", "delete"} \/ t.kind \in {"abort", "delete"}
      BY <1>1 DEF Recorder!OneEach
    <2>2. k \in s12' /\ (k \in Recorder!Running' => k \in Recorder!Running)
      BY <1>5 DEF Recorder!Running
    <2>3. Recorder!InSink \/ s1 = "describing" => k.kind = t.kind
      BY <1>1 DEF Recorder!TaskSound
    <2>4. s1 \notin {"opening", "writing", "finalizing", "describing"}
      BY <2>3 DEF Recorder!InSink
    <2>5. t.kind = "open" => s17
      BY <1>1, <2>4 DEF KindSound, Recorder!OpenSound
    <2>6. CASE k.kind = "open"
      BY <1>1, <2>2, <2>4, <2>6 DEF KindSound, Recorder!OpenSound
    <2>7. CASE k.kind = "write"
      BY <2>4, <2>7 DEF KindSound, Recorder!WriteSound
    <2>8. CASE k.kind = "finalize"
      <3>1. f.stage \in {Recorder!F.stage, Recorder!Absent} /\ Lowered
        BY <2>1, <2>8
      <3>2. Recorder!FinalSound(k)
        BY <1>1, <2>8 DEF KindSound
      <3>3. Recorder!FinalSound(k)'
        BY <1>4, <2>2, <2>4, <3>1, <3>2 DEF Lowered, Recorder!FinalSound, Recorder!Leaving, Recorder!Disowned
      <3>4. QED
        BY <2>8, <3>3 DEF KindSound
    <2>9. CASE k.kind = "describe"
      BY <2>4, <2>9 DEF KindSound, Recorder!DescribeSound
    <2>10. CASE k.kind = "abort"
      <3>1. Recorder!AbortSound(k)
        BY <1>1, <2>10 DEF KindSound
      <3>2. Recorder!AbortSound(k)'
        BY <2>5, <3>1 DEF Lowered, Recorder!AbortSound
      <3>3. QED
        BY <2>10, <3>2 DEF KindSound
    <2>11. CASE k.kind = "delete"
      <3>1. Recorder!DeleteSound(k)
        BY <1>1, <2>11 DEF KindSound
      <3>2. f.media \in {Recorder!F.media, Recorder!Absent} \/ s17
        <4>1. CASE t.kind = "finalize" /\ s14.stage
          BY <1>1, <3>1, <4>1 DEF KindSound, Recorder!FinalSound, Recorder!DeleteSound, Recorder!Disowned
        <4>2. QED
          BY <4>1
      <3>3. Recorder!DeleteSound(k)'
        BY <1>4, <3>1, <3>2 DEF Recorder!DeleteSound, Recorder!Leaving
      <3>4. QED
        BY <2>11, <3>3 DEF KindSound
    <2>12. QED
      BY <2>6, <2>7, <2>8, <2>9, <2>10, <2>11 DEF KindSound
  <1>9. \A k \in s12' : Recorder!ThreadSound(k)'
    <2>1. Recorder!Job(t.kind, at)' = Recorder!Job(t.kind, at)
      BY DEF Recorder!Job
    <2>2. \A k \in s12' : k = Recorder!Job(k.kind, k.at) /\ KindSound(k)'
      BY <1>1, <1>5, <1>8, <2>1, JobFields
    <2>3. QED
      BY <2>2 DEF Recorder!ThreadSound, KindSound, Recorder!Job
  <1>10. Recorder!Cleaned /\ ~Recorder!InSink => Recorder!Cleaned'
    <2> SUFFICES ASSUME Recorder!Cleaned, ~Recorder!InSink, ~s17' PROVE Recorder!Cleaned'
      BY DEF Recorder!Cleaned
    <2>1. ~s17
      OBVIOUS
    <2>2. t.kind # "open"
      BY <1>1, <2>1 DEF KindSound, Recorder!OpenSound, Recorder!InSink
    <2>3. CASE Recorder!Disowned
      BY <2>2, <2>3 DEF Lowered, Recorder!Disowned, Recorder!Cleaned
    <2>4. CASE \E j \in Recorder!Running : j.kind = "abort"
      <3>1. PICK j \in Recorder!Running : j.kind = "abort"
        BY <2>4
      <3>2. CASE t.kind # "abort"
        BY <1>5, <3>1, <3>2 DEF Recorder!Cleaned, Recorder!Running
      <3>3. CASE t.kind = "abort"
        <4>1. Recorder!AbortSound(Recorder!Job(t.kind, at))'
          BY <3>3, JobFields DEF KindSound, Recorder!Job
        <4>2. CASE at \notin {"done", "failed"}
          BY <1>5, <3>3, <4>2, JobFields DEF Recorder!Cleaned, Recorder!Running
        <4>3. CASE at \in {"done", "failed"}
          <5>1. Recorder!Job(t.kind, at)'.at = at
            BY DEF Recorder!Job
          <5>2. at = "done" /\ ~s14'.file /\ ~s14'.stage /\ ~s14'.lock
            BY <4>1, <4>3, <5>1 DEF Recorder!AbortSound
          <5>3. QED
            BY <5>2 DEF Recorder!Cleaned, Recorder!Disowned
        <4>4. QED
          BY <4>2, <4>3
      <3>4. QED
        BY <3>2, <3>3
    <2>5. QED
      BY <2>1, <2>3, <2>4 DEF Recorder!Cleaned
  <1>11. Recorder!TaskSound'
    <2>1. \A k \in s12' : \E j \in s12 : j.kind = k.kind
      BY <1>1, <1>5, JobFields
    <2>2. \A k \in s12 : \E j \in s12' : j.kind = k.kind
      BY <1>5, JobFields
    <2>3. s1 # "deliver"
      BY <1>1 DEF Recorder!TaskSound
    <2>4. s1 = "describing" => t.kind = "describe"
      BY <1>1 DEF Recorder!TaskSound
    <2>5. Recorder!SinkOp' = Recorder!SinkOp /\ Recorder!InSink' = Recorder!InSink
      BY DEF Recorder!SinkOp, Recorder!InSink
    <2>6. s1 = "describing" => Recorder!Disowned' /\ Recorder!F'.media = Recorder!F.media
      BY <1>1, <1>4, <2>4 DEF Recorder!TaskSound, Recorder!Disowned
    <2>7. Recorder!InSink => \A j \in s12' : j.kind = Recorder!SinkOp
      BY <1>1, <2>1 DEF Recorder!TaskSound
    <2>8. s1 = "describing" => \A j \in s12' : j.kind = "describe"
      BY <1>1, <2>1 DEF Recorder!TaskSound
    <2>9. (\E j \in s12 : j.kind = "abort") => \E j \in s12' : j.kind = "abort"
      BY <2>2
    <2>10. (\E j \in s12 : j.kind = "delete") => \E j \in s12' : j.kind = "delete"
      BY <2>2
    <2> HIDE <2>1, <2>2
    <2>11. s1 \in {"unwind", "deleting", "ended"} => ~Recorder!InSink
      BY DEF Recorder!InSink
    <2>12. QED
      BY <1>1, <1>2, <1>10, <2>3, <2>5, <2>6, <2>7, <2>8, <2>9, <2>10, <2>11 DEF Recorder!TaskSound
  <1>12. QED
    BY <1>5, <1>6, <1>7, <1>9, <1>11 DEF Recorder!RecInv

\* What a thread that runs knows.
LEMMA ThreadKnows ==
    ASSUME Recorder!RecInv, NEW t \in Recorder!Running
    PROVE  /\ s4 # 0 /\ s4 \in Recorder!Segments /\ Recorder!F \in FileType /\ s14 \in OwnType /\ s17 \in BOOLEAN
           /\ s14.lock = Recorder!F.lock /\ (s14.stage <=> Recorder!F.stage # Recorder!Absent)
           /\ Recorder!F.media # Recorder!Absent => Recorder!F.media % 2 = 0
           /\ KindSound(t) /\ s8 \in Nat /\ s10[s4] \in Nat
           /\ s13 = [s13 EXCEPT ![s4] = Recorder!F]
  <1>1. s4 # 0 /\ Recorder!SegmentsSound /\ KindSound(t)
    BY SoundThread DEF Recorder!RecInv, Recorder!TaskSound, Recorder!Running
  <1>2. s4 \in Recorder!Segments /\ s4 \in Nat \ {0} /\ Recorder!F \in FileType /\ s14 \in OwnType
    BY <1>1, SegmentFiles
  <1>3. s13 = [s13 EXCEPT ![s4] = Recorder!F]
    BY <1>1, <1>2 DEF Recorder!SegmentsSound, Recorder!F
  <1>4. QED
    BY <1>1, <1>2, <1>3 DEF Recorder!SegmentsSound, Recorder!F

\* Opening: the lock, then the staging file.
LEMMA RecorderOpens ==
    ASSUME Recorder!RecInv, NEW t \in Recorder!Running, Recorder!OpenLock(t) \/ Recorder!OpenStage(t), TaskKept
    PROVE  Recorder!RecInv'
  <1> USE DEF TaskKept
  <1>1. /\ s4 # 0 /\ Recorder!F \in FileType /\ s14 \in OwnType /\ s17 \in BOOLEAN
        /\ s14.lock = Recorder!F.lock /\ (s14.stage <=> Recorder!F.stage # Recorder!Absent)
        /\ Recorder!F.media # Recorder!Absent => Recorder!F.media % 2 = 0
        /\ KindSound(t) /\ s13 = [s13 EXCEPT ![s4] = Recorder!F]
    BY ThreadKnows
  <1>2. s17' = s17 /\ t.kind = "open"
    BY JobFields DEF Recorder!OpenLock, Recorder!OpenStage
  <1>3. PICK f \in FileType, at \in {"stage", "done", "failed"} :
          /\ Recorder!Step(t, at) /\ Recorder!Files(f) /\ s14' \in OwnType /\ s14'.lock = f.lock
          /\ s14'.stage <=> f.stage # Recorder!Absent
          /\ f.media = Recorder!F.media /\ (s14'.file => s14.file) /\ (at = "done" => f.stage = 0)
    <2>1. CASE Recorder!OpenLock(t)
      <3>1. CASE s14' = [s14 EXCEPT !.lock = TRUE] /\ Recorder!Step(t, "stage")
                 /\ Recorder!Files([Recorder!F EXCEPT !.lock = TRUE])
        BY <1>1, <3>1 DEF FileType, OwnType
      <3>2. CASE s14' = s14 /\ s13' = s13 /\ Recorder!Step(t, "failed")
        BY <1>1, <3>2 DEF Recorder!Files
      <3>3. QED
        BY <2>1, <3>1, <3>2 DEF Recorder!OpenLock, Recorder!Fails
    <2>2. CASE Recorder!OpenStage(t)
      <3>1. CASE s14' = [s14 EXCEPT !.stage = TRUE] /\ Recorder!Step(t, "done")
                 /\ Recorder!Files([Recorder!F EXCEPT !.stage = 0])
        <4> DEFINE g == [Recorder!F EXCEPT !.stage = 0]
        <4>1. g \in FileType /\ g.stage = 0 /\ g.lock = Recorder!F.lock /\ g.media = Recorder!F.media
          BY <1>1 DEF FileType, Recorder!FileSizes
        <4>2. s14' \in OwnType /\ s14'.lock = s14.lock /\ s14'.stage /\ s14'.file = s14.file
          BY <1>1, <3>1 DEF OwnType
        <4>3. 0 # Recorder!Absent /\ Recorder!Files(g)
          BY <3>1 DEF Recorder!Absent
        <4> HIDE DEF g
        <4>4. QED
          BY <1>1, <3>1, <4>1, <4>2, <4>3
      <3>2. CASE s14' = Recorder!NoOwn /\ Recorder!Files(Recorder!CleanedUp(Recorder!F)) /\ Recorder!Step(t, "failed")
        BY <1>1, <3>2 DEF FileType, OwnType, Recorder!FileSizes, Recorder!CleanedUp, Recorder!NoOwn
      <3>3. QED
        BY <2>2, <3>1, <3>2 DEF Recorder!OpenStage, Recorder!Fails
    <2>3. QED
      BY <2>1, <2>2
  <1>4. Recorder!F' = f
    BY <1>1, <1>3, FilesOf DEF Recorder!RecInv
  <1>5. KindSound(Recorder!Job(t.kind, at))'
    <2>1. s1 = "opening" \/ s17
      BY <1>1, <1>2 DEF KindSound, Recorder!OpenSound
    <2>2. Recorder!OpenSound(Recorder!Job(t.kind, at))'
      BY <1>2, <1>3, <1>4, <2>1, JobFields DEF Recorder!OpenSound, Recorder!Job
    <2>3. QED
      BY <1>2, <2>2, JobFields DEF KindSound, Recorder!Job
  <1>6. QED
    BY <1>1, <1>2, <1>3, <1>5, ThreadMoves

\* One record: its header, then its payload.
LEMMA RecorderWrites ==
    ASSUME Recorder!RecInv, NEW t \in Recorder!Running, Recorder!WriteHalf(t), TaskKept
    PROVE  Recorder!RecInv'
  <1> USE DEF TaskKept
  <1>1. /\ s4 # 0 /\ Recorder!F \in FileType /\ s14 \in OwnType /\ s17 \in BOOLEAN
        /\ s14.lock = Recorder!F.lock /\ (s14.stage <=> Recorder!F.stage # Recorder!Absent)
        /\ Recorder!F.media # Recorder!Absent => Recorder!F.media % 2 = 0
        /\ KindSound(t) /\ s13 = [s13 EXCEPT ![s4] = Recorder!F] /\ s8 \in Nat
    BY ThreadKnows
  <1>2. s17' = s17 /\ s14' = s14 /\ t.kind = "write" /\ t.at \in {"header", "payload"}
    BY DEF Recorder!WriteHalf
  <1>3. PICK f \in FileType, at \in {"payload", "done", "failed"} :
          /\ Recorder!Step(t, at) /\ Recorder!Files(f) /\ f.lock = Recorder!F.lock /\ f.media = Recorder!F.media
          /\ (f.stage # Recorder!Absent <=> Recorder!F.stage # Recorder!Absent)
          /\ at = "failed" \/ (/\ f.stage = Recorder!F.stage + 1
                               /\ at = IF t.at = "header" THEN "payload" ELSE "done")
    <2>1. CASE /\ Recorder!F.stage # Recorder!Absent /\ Recorder!Files([Recorder!F EXCEPT !.stage = @ + 1])
               /\ Recorder!Step(t, IF t.at = "header" THEN "payload" ELSE "done")
      BY <1>1, <2>1 DEF FileType, Recorder!FileSizes, Recorder!Absent
    <2>2. CASE s13' = s13 /\ Recorder!Step(t, "failed")
      BY <1>1, <2>2 DEF Recorder!Files
    <2>3. QED
      BY <2>1, <2>2 DEF Recorder!WriteHalf, Recorder!Fails
  <1>4. Recorder!F' = f
    BY <1>1, <1>3, FilesOf DEF Recorder!RecInv
  <1>5. KindSound(Recorder!Job(t.kind, at))'
    <2>1. s1 = "writing" => (t.at = "header" => Recorder!F.stage = 2 * s8) /\ (t.at = "payload" => Recorder!F.stage = 2 * s8 + 1)
      BY <1>1, <1>2 DEF KindSound, Recorder!WriteSound
    <2>2. Recorder!WriteSound(Recorder!Job(t.kind, at))'
      BY <1>1, <1>2, <1>3, <1>4, <2>1, JobFields DEF Recorder!WriteSound, Recorder!Job
    <2>3. QED
      BY <1>2, <2>2, JobFields DEF KindSound, Recorder!Job
  <1>6. QED
    BY <1>1, <1>2, <1>3, <1>5, ThreadMoves DEF Lowered

\* The publication failed: what was published is removed again, the attempt's files with it.
LEMMA PublicationUndone ==
    ASSUME NEW f \in FileType, NEW o \in OwnType, s14 = o, o.lock = f.lock, o.stage <=> f.stage # Recorder!Absent
    PROVE  LET g == Recorder!RollbackPublished(Recorder!CleanedUp(f))
           IN  g \in FileType /\ ~g.lock /\ g.stage = Recorder!Absent /\ g.media = Recorder!Absent
  BY DEF Recorder!RollbackPublished, Recorder!CleanedUp, FileType, OwnType, Recorder!FileSizes

\* Publishing: flush and close, link, remove the staging file and the lock.
LEMMA RecorderPublishes ==
    ASSUME Recorder!RecInv, NEW t \in Recorder!Running, TaskKept,
           \/ Recorder!FinalClose(t) \/ Recorder!FinalLink(t) \/ Recorder!FinalUnlink(t) \/ Recorder!FinalUnlock(t)
    PROVE  Recorder!RecInv'
  <1> USE DEF TaskKept
  <1>1. /\ s4 # 0 /\ Recorder!F \in FileType /\ s14 \in OwnType /\ s17 \in BOOLEAN
        /\ s14.lock = Recorder!F.lock /\ (s14.stage <=> Recorder!F.stage # Recorder!Absent)
        /\ Recorder!F.media # Recorder!Absent => Recorder!F.media % 2 = 0
        /\ KindSound(t) /\ s13 = [s13 EXCEPT ![s4] = Recorder!F] /\ s8 \in Nat
    BY ThreadKnows
  <1>2. s17' = s17 /\ t.kind = "finalize"
    BY JobFields DEF Recorder!FinalClose, Recorder!FinalLink, Recorder!FinalUnlink, Recorder!FinalUnlock
  <1>3. Recorder!FinalSound(t)
    BY <1>1, <1>2 DEF KindSound
  <1>4. ASSUME NEW f \in FileType, NEW at \in {"link", "unlink", "unlock", "done", "failed"},
               Recorder!Step(t, at), Recorder!Files(f), s14' \in OwnType, Lowered,
               s14'.lock = f.lock, s14'.stage <=> f.stage # Recorder!Absent,
               f.media # Recorder!Absent => f.media % 2 = 0,
               f.media \in {Recorder!F.media, Recorder!Absent} \/ s14.stage,
               at = "link" => f.stage = Recorder!F.stage /\ t.at = "close",
               at \in {"link", "unlink", "unlock", "done"} => ~s14'.file,
               at \in {"unlock", "done"} => ~s14'.stage,
               at = "done" => ~s14'.lock,
               s1 = "finalizing" /\ at \in {"unlink", "unlock", "done"} => f.media = 2 * s8
        PROVE  Recorder!RecInv'
    <2>1. Recorder!F' = f
      BY <1>1, <1>4, FilesOf DEF Recorder!RecInv
    <2>2. at \notin {"failed", "done"} /\ Recorder!Leaving => s17 \/ Recorder!Disowned'
      BY <1>3, <1>4 DEF Recorder!FinalSound, Recorder!Disowned, Lowered
    <2>3. Recorder!FinalSound(Recorder!Job(t.kind, at))'
      <3>1. Recorder!Job(t.kind, at)' = Recorder!Job(t.kind, at) /\ Recorder!Job(t.kind, at).at = at
        BY DEF Recorder!Job
      <3>2. at = "link" => f.stage \in {Recorder!Absent, 2 * s8}
        BY <1>3, <1>4 DEF Recorder!FinalSound
      <3>3. Recorder!Job(t.kind, at) \in Recorder!Running' => at \notin {"done", "failed"}
        BY <3>1 DEF Recorder!Running
      <3>4. QED
        BY <1>2, <1>4, <2>1, <2>2, <3>1, <3>2, <3>3 DEF Recorder!FinalSound, Recorder!Leaving
    <2>4. KindSound(Recorder!Job(t.kind, at))'
      BY <1>2, <2>3, JobFields DEF KindSound, Recorder!Job
    <2>5. QED
      BY <1>1, <1>2, <1>4, <2>4, ThreadMoves
  <1> HIDE DEF TaskKept
  <1>5. CASE s14' = s14 /\ s13' = s13 /\ Recorder!Step(t, "failed")
    <2>1. Recorder!Files(Recorder!F)
      BY <1>1, <1>5 DEF Recorder!Files
    <2>2. QED
      BY <1>1, <1>4, <1>5, <2>1 DEF Lowered
  <1>6. CASE Recorder!PublishFails(t)
    <2> DEFINE g == Recorder!RollbackPublished(Recorder!CleanedUp(Recorder!F))
    <2>1. g \in FileType /\ ~g.lock /\ g.stage = Recorder!Absent /\ g.media = Recorder!Absent
      BY <1>1, PublicationUndone
    <2>2. g.lock = FALSE
      BY <2>1 DEF FileType
    <2>3. Recorder!Files(g) /\ s14' = Recorder!NoOwn /\ Recorder!Step(t, "failed")
      BY <1>6 DEF Recorder!PublishFails, Recorder!Fails
    <2> HIDE DEF g
    <2>4. s14' \in OwnType /\ ~s14'.lock /\ ~s14'.stage /\ ~s14'.file /\ s14'.lock = FALSE
      BY <2>3 DEF OwnType, Recorder!NoOwn
    <2>5. QED
      BY <1>4, <2>1, <2>2, <2>3, <2>4 DEF Lowered
  <1>7. CASE Recorder!FinalClose(t)
    <2>1. CASE s14' = [s14 EXCEPT !.file = FALSE] /\ Recorder!Step(t, "link") /\ s13' = s13
      <3>1. Recorder!Files(Recorder!F) /\ t.at = "close"
        BY <1>1, <1>7, <2>1, JobFields DEF Recorder!Files, Recorder!FinalClose
      <3>2. s14' \in OwnType /\ s14'.lock = s14.lock /\ s14'.stage = s14.stage /\ ~s14'.file
        BY <1>1, <2>1 DEF OwnType
      <3>3. QED
        BY <1>1, <1>4, <2>1, <3>1, <3>2 DEF Lowered
    <2>2. QED
      BY <1>5, <1>7, <2>1 DEF Recorder!FinalClose, Recorder!Fails
  <1>8. CASE Recorder!FinalLink(t)
    <2>1. CASE /\ s14.stage /\ Recorder!F.stage # Recorder!Absent /\ s14' = s14
               /\ Recorder!Files([Recorder!F EXCEPT !.media = Recorder!F.stage]) /\ Recorder!Step(t, "unlink")
      <3> DEFINE g == [Recorder!F EXCEPT !.media = Recorder!F.stage]
      <3>1. t.at = "link"
        BY <1>8, JobFields DEF Recorder!FinalLink
      <3>2. Recorder!F.stage = 2 * s8 /\ ~s14.file
        BY <1>3, <2>1, <3>1 DEF Recorder!FinalSound
      <3>3. (2 * s8) % 2 = 0
        BY <1>1
      <3>4. g \in FileType /\ g.media = 2 * s8 /\ g.lock = Recorder!F.lock /\ g.stage = Recorder!F.stage
        BY <1>1, <3>2 DEF FileType
      <3>5. Recorder!Files(g)
        BY <2>1
      <3> HIDE DEF g
      <3>6. QED
        BY <1>1, <1>4, <2>1, <3>2, <3>3, <3>4, <3>5 DEF Lowered
    <2>2. QED
      BY <1>5, <1>8, <2>1 DEF Recorder!FinalLink, Recorder!Fails
  <1>9. CASE Recorder!FinalUnlink(t)
    <2>1. CASE /\ s14' = [s14 EXCEPT !.stage = FALSE] /\ Recorder!Step(t, "unlock")
               /\ Recorder!Files([Recorder!F EXCEPT !.stage = Recorder!Absent])
      <3> DEFINE g == [Recorder!F EXCEPT !.stage = Recorder!Absent]
      <3>1. t.at = "unlink"
        BY <1>9, JobFields DEF Recorder!FinalUnlink
      <3>2. ~s14.file /\ (s1 = "finalizing" => Recorder!F.media = 2 * s8)
        BY <1>3, <3>1 DEF Recorder!FinalSound
      <3>3. g \in FileType /\ g.media = Recorder!F.media /\ g.lock = Recorder!F.lock /\ g.stage = Recorder!Absent
        BY <1>1 DEF FileType, Recorder!FileSizes
      <3>4. s14' \in OwnType /\ s14'.lock = s14.lock /\ ~s14'.stage /\ s14'.file = s14.file
        BY <1>1, <2>1 DEF OwnType
      <3>5. Recorder!Files(g)
        BY <2>1
      <3> HIDE DEF g
      <3>6. QED
        BY <1>1, <1>4, <2>1, <3>2, <3>3, <3>4, <3>5 DEF Lowered
    <2>2. QED
      BY <1>6, <1>9, <2>1 DEF Recorder!FinalUnlink
  <1>10. CASE Recorder!FinalUnlock(t)
    <2>1. CASE /\ s14' = [s14 EXCEPT !.lock = FALSE] /\ Recorder!Step(t, "done")
               /\ Recorder!Files([Recorder!F EXCEPT !.lock = IF s14.lock THEN FALSE ELSE @])
      <3> DEFINE g == [Recorder!F EXCEPT !.lock = IF s14.lock THEN FALSE ELSE @]
      <3>1. t.at = "unlock"
        BY <1>10, JobFields DEF Recorder!FinalUnlock
      <3>2. ~s14.file /\ ~s14.stage /\ (s1 = "finalizing" => Recorder!F.media = 2 * s8)
        BY <1>3, <3>1 DEF Recorder!FinalSound
      <3>3. g \in FileType /\ g.media = Recorder!F.media /\ g.lock = FALSE /\ g.stage = Recorder!F.stage
        BY <1>1 DEF FileType
      <3>4. s14' \in OwnType /\ s14'.lock = FALSE /\ s14'.stage = s14.stage /\ s14'.file = s14.file
        BY <1>1, <2>1 DEF OwnType
      <3>5. Recorder!Files(g)
        BY <2>1
      <3> HIDE DEF g
      <3>6. QED
        BY <1>1, <1>4, <2>1, <3>2, <3>3, <3>4, <3>5 DEF Lowered
    <2>2. QED
      BY <1>6, <1>10, <2>1 DEF Recorder!FinalUnlock
  <1>11. QED
    BY <1>7, <1>8, <1>9, <1>10

\* The clean-up: close, then both files, each removed or stuck.
LEMMA RecorderAborts ==
    ASSUME Recorder!RecInv, NEW t \in Recorder!Running, TaskKept,
           Recorder!AbortClose(t) \/ Recorder!AbortStage(t) \/ Recorder!AbortUnlock(t)
    PROVE  Recorder!RecInv'
  <1> USE DEF TaskKept
  <1>1. /\ s4 # 0 /\ Recorder!F \in FileType /\ s14 \in OwnType /\ s17 \in BOOLEAN
        /\ s14.lock = Recorder!F.lock /\ (s14.stage <=> Recorder!F.stage # Recorder!Absent)
        /\ Recorder!F.media # Recorder!Absent => Recorder!F.media % 2 = 0
        /\ KindSound(t) /\ s13 = [s13 EXCEPT ![s4] = Recorder!F]
    BY ThreadKnows
  <1>2. t.kind = "abort"
    BY JobFields DEF Recorder!AbortClose, Recorder!AbortStage, Recorder!AbortUnlock
  <1>3. Recorder!AbortSound(t)
    BY <1>1, <1>2 DEF KindSound
  <1>4. ASSUME NEW f \in FileType, NEW at \in {"stage", "unlock", "done", "failed"},
               Recorder!Step(t, at), Recorder!Files(f), s14' \in OwnType, Lowered, s17' \in BOOLEAN, s17 => s17',
               s14'.lock = f.lock, s14'.stage <=> f.stage # Recorder!Absent, f.media = Recorder!F.media,
               f.stage \in {Recorder!F.stage, Recorder!Absent},
               at \in {"stage", "unlock", "done"} => ~s14'.file,
               at \in {"unlock", "done"} => ~s14'.stage \/ s17',
               at = "done" => ~s14'.lock \/ s17',
               at = "failed" => s17'
        PROVE  Recorder!RecInv'
    <2>1. Recorder!Job(t.kind, at)' = Recorder!Job(t.kind, at) /\ Recorder!Job(t.kind, at).at = at
      BY DEF Recorder!Job
    <2>2. Recorder!AbortSound(Recorder!Job(t.kind, at))'
      BY <1>4, <2>1 DEF Recorder!AbortSound
    <2>3. KindSound(Recorder!Job(t.kind, at))'
      BY <1>2, <2>2, JobFields DEF KindSound, Recorder!Job
    <2>4. QED
      BY <1>1, <1>2, <1>4, <2>3, ThreadMoves
  <1> HIDE DEF TaskKept
  <1>5. CASE Recorder!AbortClose(t)
    <2>1. Recorder!Files(Recorder!F) /\ s14' = [s14 EXCEPT !.file = FALSE] /\ Recorder!Step(t, "stage") /\ s17' = s17
      BY <1>1, <1>5 DEF Recorder!AbortClose, Recorder!Files
    <2>2. s14' \in OwnType /\ s14'.lock = s14.lock /\ s14'.stage = s14.stage /\ ~s14'.file
      BY <1>1, <2>1 DEF OwnType
    <2>3. QED
      BY <1>1, <1>4, <2>1, <2>2 DEF Lowered
  <1>6. CASE Recorder!AbortStage(t)
    <2>1. t.at = "stage" /\ ~s14.file /\ Recorder!Step(t, "unlock")
      BY <1>3, <1>6, JobFields DEF Recorder!AbortStage, Recorder!AbortSound
    <2>2. CASE /\ s14' = [s14 EXCEPT !.stage = FALSE] /\ s17' = s17
               /\ Recorder!Files([Recorder!F EXCEPT !.stage = IF s14.stage THEN Recorder!Absent ELSE @])
      <3> DEFINE g == [Recorder!F EXCEPT !.stage = IF s14.stage THEN Recorder!Absent ELSE @]
      <3>1. g \in FileType /\ g.media = Recorder!F.media /\ g.lock = Recorder!F.lock /\ g.stage = Recorder!Absent
        BY <1>1 DEF FileType, Recorder!FileSizes
      <3>2. s14' \in OwnType /\ s14'.lock = s14.lock /\ ~s14'.stage /\ s14'.file = s14.file
        BY <1>1, <2>2 DEF OwnType
      <3>3. Recorder!Files(g)
        BY <2>2
      <3> HIDE DEF g
      <3>4. QED
        BY <1>1, <1>4, <2>1, <2>2, <3>1, <3>2, <3>3 DEF Lowered
    <2>3. CASE s17' = TRUE /\ s14' = s14 /\ s13' = s13
      <3>1. Recorder!Files(Recorder!F)
        BY <1>1, <2>3 DEF Recorder!Files
      <3>2. QED
        BY <1>1, <1>4, <2>1, <2>3, <3>1 DEF Lowered
    <2>4. QED
      BY <1>6, <2>2, <2>3 DEF Recorder!AbortStage
  <1>7. CASE Recorder!AbortUnlock(t)
    <2>1. t.at = "unlock" /\ ~s14.file /\ (~s14.stage \/ s17)
      BY <1>3, <1>7, JobFields DEF Recorder!AbortUnlock, Recorder!AbortSound
    <2>2. CASE /\ s14' = [s14 EXCEPT !.lock = FALSE] /\ s17' = s17
               /\ Recorder!Step(t, IF s14.stage THEN "failed" ELSE "done")
               /\ Recorder!Files([Recorder!F EXCEPT !.lock = IF s14.lock THEN FALSE ELSE @])
      <3> DEFINE g == [Recorder!F EXCEPT !.lock = IF s14.lock THEN FALSE ELSE @]
      <3>1. g \in FileType /\ g.media = Recorder!F.media /\ g.lock = FALSE /\ g.stage = Recorder!F.stage
        BY <1>1 DEF FileType
      <3>2. s14' \in OwnType /\ s14'.lock = FALSE /\ s14'.stage = s14.stage /\ s14'.file = s14.file
        BY <1>1, <2>2 DEF OwnType
      <3>3. Recorder!Files(g)
        BY <2>2
      <3> HIDE DEF g
      <3>4. CASE s14.stage
        BY <1>1, <1>4, <2>1, <2>2, <3>1, <3>2, <3>3, <3>4 DEF Lowered
      <3>5. CASE ~s14.stage
        BY <1>1, <1>4, <2>1, <2>2, <3>1, <3>2, <3>3, <3>5 DEF Lowered
      <3>6. QED
        BY <3>4, <3>5
    <2>3. CASE s17' = TRUE /\ s14' = s14 /\ s13' = s13 /\ Recorder!Step(t, "failed")
      <3>1. Recorder!Files(Recorder!F)
        BY <1>1, <2>3 DEF Recorder!Files
      <3>2. QED
        BY <1>1, <1>4, <2>3, <3>1 DEF Lowered
    <2>4. QED
      BY <1>7, <2>2, <2>3 DEF Recorder!AbortUnlock, Recorder!Fails
  <1>8. QED
    BY <1>5, <1>6, <1>7

\* The descriptor: staged, then renamed.
LEMMA RecorderDescribes ==
    ASSUME Recorder!RecInv, NEW t \in Recorder!Running, TaskKept,
           Recorder!DescribeStage(t) \/ Recorder!DescribeReplace(t)
    PROVE  Recorder!RecInv'
  <1> USE DEF TaskKept
  <1>1. /\ s4 # 0 /\ Recorder!F \in FileType /\ s14 \in OwnType /\ s17 \in BOOLEAN
        /\ s14.lock = Recorder!F.lock /\ (s14.stage <=> Recorder!F.stage # Recorder!Absent)
        /\ Recorder!F.media # Recorder!Absent => Recorder!F.media % 2 = 0
        /\ KindSound(t) /\ s13 = [s13 EXCEPT ![s4] = Recorder!F] /\ s10[s4] \in Nat
    BY ThreadKnows
  <1>2. t.kind = "describe" /\ s14' = s14 /\ s17' = s17
    BY JobFields DEF Recorder!DescribeStage, Recorder!DescribeReplace
  <1>3. PICK f \in FileType, at \in {"replace", "done", "failed"} :
          /\ Recorder!Step(t, at) /\ Recorder!Files(f)
          /\ f.lock = Recorder!F.lock /\ f.stage = Recorder!F.stage /\ f.media = Recorder!F.media
          /\ s1 = "describing" => /\ at = "replace" => f.dstage = 2 * s10[s4]
                                  /\ at = "done" => f.desc = 2 * s10[s4]
    <2>1. CASE s13' = s13 /\ Recorder!Step(t, "failed")
      BY <1>1, <2>1 DEF Recorder!Files
    <2>2. CASE Recorder!Files([Recorder!F EXCEPT !.dstage = 2 * s10[s4]]) /\ Recorder!Step(t, "replace")
      <3> DEFINE g == [Recorder!F EXCEPT !.dstage = 2 * s10[s4]]
      <3>1. g \in FileType /\ g.dstage = 2 * s10[s4] /\ g.lock = Recorder!F.lock /\ g.stage = Recorder!F.stage
            /\ g.media = Recorder!F.media
        BY <1>1 DEF FileType, Recorder!FileSizes
      <3>2. Recorder!Files(g)
        BY <2>2
      <3> HIDE DEF g
      <3>3. QED
        BY <2>2, <3>1, <3>2
    <2>3. CASE Recorder!DescribeReplace(t)
      <3>1. s1 = "describing" => Recorder!F.dstage = 2 * s10[s4]
        BY <1>1, <1>2, <2>3, JobFields DEF Recorder!DescribeReplace, KindSound, Recorder!DescribeSound
      <3>2. CASE Recorder!Files([Recorder!F EXCEPT !.desc = Recorder!F.dstage, !.dstage = Recorder!Absent]) /\ Recorder!Step(t, "done")
        <4> DEFINE g == [Recorder!F EXCEPT !.desc = Recorder!F.dstage, !.dstage = Recorder!Absent]
        <4>1. g \in FileType /\ g.desc = Recorder!F.dstage /\ g.lock = Recorder!F.lock /\ g.stage = Recorder!F.stage
              /\ g.media = Recorder!F.media
          BY <1>1 DEF FileType, Recorder!FileSizes
        <4>2. Recorder!Files(g)
          BY <3>2
        <4> HIDE DEF g
        <4>3. QED
          BY <3>1, <3>2, <4>1, <4>2
      <3>3. CASE Recorder!Files([Recorder!F EXCEPT !.dstage = Recorder!Absent]) /\ Recorder!Step(t, "failed")
        <4> DEFINE g == [Recorder!F EXCEPT !.dstage = Recorder!Absent]
        <4>1. g \in FileType /\ g.lock = Recorder!F.lock /\ g.stage = Recorder!F.stage /\ g.media = Recorder!F.media
          BY <1>1 DEF FileType, Recorder!FileSizes
        <4>2. Recorder!Files(g)
          BY <3>3
        <4> HIDE DEF g
        <4>3. QED
          BY <3>3, <4>1, <4>2
      <3>4. QED
        BY <2>1, <2>3, <3>2, <3>3 DEF Recorder!DescribeReplace, Recorder!Fails
    <2>4. QED
      BY <2>1, <2>2, <2>3 DEF Recorder!DescribeStage, Recorder!Fails
  <1>4. Recorder!F' = f
    BY <1>1, <1>3, FilesOf DEF Recorder!RecInv
  <1>5. KindSound(Recorder!Job(t.kind, at))'
    <2>1. Recorder!Job(t.kind, at)' = Recorder!Job(t.kind, at) /\ Recorder!Job(t.kind, at).at = at
      BY DEF Recorder!Job
    <2>2. Recorder!DescribeSound(Recorder!Job(t.kind, at))'
      BY <1>3, <1>4, <2>1 DEF Recorder!DescribeSound
    <2>3. QED
      BY <1>2, <2>2, JobFields DEF KindSound, Recorder!Job
  <1>6. QED
    BY <1>1, <1>2, <1>3, <1>5, ThreadMoves DEF Lowered

\* The deletion: the media first.
LEMMA RecorderDeletes ==
    ASSUME Recorder!RecInv, NEW t \in Recorder!Running, TaskKept, Recorder!DeleteOne(t)
    PROVE  Recorder!RecInv'
  <1> USE DEF TaskKept
  <1>1. /\ s4 # 0 /\ Recorder!F \in FileType /\ s14 \in OwnType /\ s17 \in BOOLEAN
        /\ s14.lock = Recorder!F.lock /\ (s14.stage <=> Recorder!F.stage # Recorder!Absent)
        /\ Recorder!F.media # Recorder!Absent => Recorder!F.media % 2 = 0
        /\ KindSound(t) /\ s13 = [s13 EXCEPT ![s4] = Recorder!F]
    BY ThreadKnows
  <1>2. t.kind = "delete" /\ s14' = s14 /\ t.at \in {"media", "desc", "dstage"}
    BY DEF Recorder!DeleteOne
  <1>3. Recorder!DeleteSound(t)
    BY <1>1, <1>2 DEF KindSound
  <1>4. PICK f \in FileType, at \in {"desc", "dstage", "done"} :
          /\ Recorder!Step(t, at) /\ Recorder!Files(f) /\ s17' \in BOOLEAN /\ (s17 => s17')
          /\ f.lock = Recorder!F.lock /\ f.stage = Recorder!F.stage
          /\ f.media \in {Recorder!F.media, Recorder!Absent}
          /\ f.media = Recorder!Absent \/ s17'
    <2>1. PICK at \in {"desc", "dstage", "done"} : Recorder!Step(t, at)
      BY <1>2 DEF Recorder!DeleteOne
    <2>2. CASE Recorder!Files([Recorder!F EXCEPT ![t.at] = Recorder!Absent]) /\ s17' = s17
      <3> DEFINE g == [Recorder!F EXCEPT ![t.at] = Recorder!Absent]
      <3>1. g \in FileType /\ g.lock = Recorder!F.lock /\ g.stage = Recorder!F.stage
            /\ g.media = IF t.at = "media" THEN Recorder!Absent ELSE Recorder!F.media
        <4>1. CASE t.at = "media"
          BY <1>1, <4>1 DEF FileType, Recorder!FileSizes
        <4>2. CASE t.at = "desc"
          BY <1>1, <4>2 DEF FileType, Recorder!FileSizes
        <4>3. CASE t.at = "dstage"
          BY <1>1, <4>3 DEF FileType, Recorder!FileSizes
        <4>4. QED
          BY <1>2, <4>1, <4>2, <4>3
      <3>2. Recorder!Files(g)
        BY <2>2
      <3> HIDE DEF g
      <3>3. QED
        BY <1>1, <1>3, <2>1, <2>2, <3>1, <3>2 DEF Recorder!DeleteSound
    <2>3. CASE s17' = TRUE /\ s13' = s13
      <3>1. Recorder!Files(Recorder!F)
        BY <1>1, <2>3 DEF Recorder!Files
      <3>2. QED
        BY <1>1, <2>1, <2>3, <3>1
    <2>4. QED
      BY <2>2, <2>3 DEF Recorder!DeleteOne
  <1>5. Recorder!F' = f
    BY <1>1, <1>4, FilesOf DEF Recorder!RecInv
  <1>6. KindSound(Recorder!Job(t.kind, at))'
    <2>1. Recorder!Job(t.kind, at)' = Recorder!Job(t.kind, at) /\ Recorder!Job(t.kind, at).at = at
      BY DEF Recorder!Job
    <2>2. Recorder!DeleteSound(Recorder!Job(t.kind, at))'
      BY <1>3, <1>4, <1>5, <2>1 DEF Recorder!DeleteSound, Recorder!Leaving
    <2>3. QED
      BY <1>2, <2>2, JobFields DEF KindSound, Recorder!Job
  <1>7. QED
    BY <1>1, <1>2, <1>4, <1>6, ThreadMoves DEF Lowered

LEMMA RecorderThreads == ASSUME Recorder!RecInv, Recorder!ThreadStep PROVE Recorder!RecInv'
  <1>1. TaskKept
    BY DEF Recorder!ThreadStep, TaskKept
  <1>2. QED
    BY <1>1, RecorderOpens, RecorderWrites, RecorderPublishes, RecorderAborts, RecorderDescribes, RecorderDeletes
    DEF Recorder!ThreadStep

-----------------------------------------------------------------------------
\* The parts of the invariant.
LEMMA RecordingKnown ==
    ASSUME Recorder!RecInv
    PROVE  /\ Recorder!SegmentsSound /\ Recorder!OneEach /\ Recorder!TaskSound /\ Recorder!FinishedSegmentsKept
           /\ \A k \in s12 : k = Recorder!Job(k.kind, k.at) /\ KindSound(k)
           /\ s17 \in BOOLEAN /\ s8 \in Nat
  BY SoundThread DEF Recorder!RecInv, Recorder!SegmentsSound

\* A step of the task that leaves the files and the segments alone.
LEMMA TaskMoves ==
    ASSUME Recorder!RecInv, UNCHANGED <<s4, s5, s8, s10, s11, s13, s14>>, s17' \in BOOLEAN,
           Recorder!OneEach', \A k \in s12' : k = Recorder!Job(k.kind, k.at) /\ KindSound(k)', Recorder!TaskSound'
    PROVE  Recorder!RecInv'
  <1>1. Recorder!SegmentsSound' /\ Recorder!FinishedSegmentsKept'
    BY RecordingKnown DEF Recorder!SegmentsSound, Recorder!FinishedSegmentsKept, Recorder!Recovered, Recorder!F
  <1>2. \A k \in s12' : Recorder!ThreadSound(k)'
    BY DEF Recorder!ThreadSound, KindSound, Recorder!Job
  <1>3. QED
    BY <1>1, <1>2 DEF Recorder!RecInv

\* The threads that are there when the task starts another one.
LEMMA Started ==
    ASSUME Recorder!OneEach, \A j \in s12 : j = Recorder!Job(j.kind, j.at), NEW k, NEW a, Recorder!Start(k, a),
           k \in {"abort", "delete"} \/ \A j \in Recorder!Running : j.kind \in {k, "abort", "delete"}
    PROVE  /\ Recorder!OneEach' /\ Recorder!Job(k, a) \in s12'
           /\ \A j \in s12' : j = Recorder!Job(k, a) \/ (j \in Recorder!Running /\ j \in s12 /\ j.kind # k)
           /\ \A j \in Recorder!Running : j.kind # k => j \in s12'
  <1>1. s12' = {j \in Recorder!Running : j.kind # k} \cup {Recorder!Job(k, a)}
    BY DEF Recorder!Start
  <1>2. Recorder!Running \subseteq s12
    BY DEF Recorder!Running
  <1>3. Recorder!OneEach'
    <2> SUFFICES ASSUME NEW x \in s12', NEW y \in s12',
                        x.kind = y.kind \/ {x.kind, y.kind} \cap {"abort", "delete"} = {}
                 PROVE  x = y
      BY DEF Recorder!OneEach
    <2>1. CASE x \in Recorder!Running /\ y \in Recorder!Running
      BY <1>2, <2>1 DEF Recorder!OneEach
    <2>2. CASE x = Recorder!Job(k, a) /\ y = Recorder!Job(k, a)
      BY <2>2
    <2>3. CASE x = Recorder!Job(k, a) /\ y \in Recorder!Running /\ y.kind # k
      BY <2>3, JobFields
    <2>4. CASE y = Recorder!Job(k, a) /\ x \in Recorder!Running /\ x.kind # k
      BY <2>4, JobFields
    <2>5. QED
      BY <1>1, <2>1, <2>2, <2>3, <2>4
  <1>4. QED
    BY <1>1, <1>2, <1>3

\* A step that starts no thread and changes nothing the files depend on.
LEMMA RecordingAsBefore ==
    ASSUME Recorder!RecInv, UNCHANGED <<s1, s4, s5, s6, s7, s8, s10, s11, s12, s13, s14, s17>>
    PROVE  Recorder!RecInv'
  <1>1. Recorder!OneEach'
    BY RecordingKnown DEF Recorder!OneEach
  <1>2. Recorder!Running' = Recorder!Running /\ Recorder!F' = Recorder!F
    BY DEF Recorder!Running, Recorder!F
  <1>3. \A k \in s12' : k = Recorder!Job(k.kind, k.at) /\ KindSound(k)'
    BY <1>2, RecordingKnown DEF KindSound, Recorder!OpenSound, Recorder!WriteSound, Recorder!FinalSound,
       Recorder!DescribeSound, Recorder!AbortSound, Recorder!DeleteSound, Recorder!Leaving, Recorder!Disowned
  <1>4. Recorder!TaskSound'
    <2>1. Recorder!InSink' = Recorder!InSink /\ Recorder!SinkOp' = Recorder!SinkOp /\ (Recorder!Cleaned' <=> Recorder!Cleaned)
          /\ Recorder!Disowned' = Recorder!Disowned
      BY <1>2 DEF Recorder!InSink, Recorder!SinkOp, Recorder!Cleaned, Recorder!Disowned
    <2>2. QED
      BY <1>2, <2>1, RecordingKnown DEF Recorder!TaskSound
  <1>5. QED
    BY <1>1, <1>3, <1>4, RecordingKnown, TaskMoves

\* The reservation, and the end of a delivery: no thread is running.
LEMMA RecorderWaits ==
    ASSUME Recorder!RecInv,
           Recorder!Reserve \/ Recorder!Resolve \/ Recorder!DeliveryFails \/ Recorder!Release
    PROVE  Recorder!RecInv'
  <1>1. s12 = {} /\ UNCHANGED <<s4, s5, s6, s7, s8, s10, s11, s12, s13, s14, s17>>
    BY RecordingKnown DEF Recorder!Reserve, Recorder!Resolve, Recorder!DeliveryFails, Recorder!Release,
       Recorder!TaskSound
  <1>2. Recorder!OneEach' /\ \A k \in s12' : k = Recorder!Job(k.kind, k.at) /\ KindSound(k)'
    BY <1>1 DEF Recorder!OneEach
  <1>3. (s1' \in {"refused", "resolve", "deliver", "ended"} /\ s4 = 0) \/ s1' = "unwind"
    BY RecordingKnown DEF Recorder!Reserve, Recorder!Resolve, Recorder!DeliveryFails, Recorder!Release,
       Recorder!TaskSound
  <1>4. s1' = "unwind" /\ s4 # 0 => s6 = "recording" /\ s7 = "open"
    BY RecordingKnown DEF Recorder!Reserve, Recorder!Resolve, Recorder!DeliveryFails, Recorder!Release,
       Recorder!TaskSound
  <1>5. Recorder!TaskSound'
    BY <1>1, <1>3, <1>4 DEF Recorder!TaskSound, Recorder!InSink
  <1>6. QED
    BY <1>1, <1>2, <1>5, RecordingKnown, TaskMoves

\* A clean-up that ends, or that the task no longer waits for.
LEMMA RecorderAbortEnds == ASSUME Recorder!RecInv, Recorder!AbortEnds PROVE Recorder!RecInv'
  <1>1. /\ s1 = "abortSink" /\ s1' = "unwind" /\ s17' \in BOOLEAN /\ s4 # 0
        /\ UNCHANGED <<s4, s5, s6, s8, s10, s11, s12, s13, s14>>
    BY RecordingKnown DEF Recorder!AbortEnds, Recorder!TaskSound
  <1>2. s17 => s17'
    BY RecordingKnown DEF Recorder!AbortEnds
  <1>3. Recorder!Running' = Recorder!Running /\ Recorder!F' = Recorder!F /\ Recorder!OneEach' /\ Recorder!Disowned' = Recorder!Disowned
    BY <1>1, RecordingKnown DEF Recorder!Running, Recorder!F, Recorder!OneEach, Recorder!Disowned
  <1>4. PICK c \in s12 : c.kind = "abort"
    BY <1>1, RecordingKnown DEF Recorder!TaskSound
  <1>5. c \in Recorder!Running \/ s17 \/ Recorder!Disowned
    <2>1. Recorder!AbortSound(c)
      BY <1>4, RecordingKnown DEF KindSound
    <2>2. QED
      BY <2>1 DEF Recorder!AbortSound, Recorder!Running, Recorder!Disowned
  <1>6. \A j \in Recorder!Running : j.kind = "finalize" => s17' \/ Recorder!Disowned
    <2>1. CASE Recorder!Ended("abort") # {}
      <3>1. PICK e \in s12 : e.kind = "abort" /\ e.at \in {"done", "failed"}
        BY <2>1 DEF Recorder!Ended
      <3>2. Recorder!AbortSound(e)
        BY <3>1, RecordingKnown DEF KindSound
      <3>3. QED
        BY <1>2, <3>1, <3>2 DEF Recorder!AbortSound, Recorder!Disowned
    <2>2. QED
      BY <2>1 DEF Recorder!AbortEnds
  <1>7. \A k \in s12' : k = Recorder!Job(k.kind, k.at) /\ KindSound(k)'
    <2> SUFFICES ASSUME NEW k \in s12 PROVE KindSound(k)'
      BY <1>1, RecordingKnown
    <2>1. KindSound(k)
      BY RecordingKnown
    <2>2. k.kind # "delete"
      BY <1>1, <2>1 DEF KindSound, Recorder!DeleteSound, Recorder!Leaving
    <2>3. k.kind = "open" => Recorder!OpenSound(k)'
      BY <1>1, <1>2, <1>3, <2>1 DEF KindSound, Recorder!OpenSound
    <2>4. k.kind = "finalize" => Recorder!FinalSound(k)'
      BY <1>1, <1>3, <1>6, <2>1 DEF KindSound, Recorder!FinalSound
    <2>5. k.kind = "abort" => Recorder!AbortSound(k)'
      BY <1>1, <1>2, <2>1 DEF KindSound, Recorder!AbortSound
    <2>6. Recorder!WriteSound(k)' /\ Recorder!DescribeSound(k)'
      BY <1>1 DEF Recorder!WriteSound, Recorder!DescribeSound
    <2>7. QED
      BY <2>2, <2>3, <2>4, <2>5, <2>6 DEF KindSound
  <1>8. Recorder!Cleaned'
    BY <1>2, <1>3, <1>4, <1>5 DEF Recorder!Cleaned
  <1>9. Recorder!TaskSound'
    BY <1>1, <1>8, RecordingKnown DEF Recorder!TaskSound, Recorder!InSink
  <1>10. QED
    BY <1>1, <1>3, <1>7, <1>9, TaskMoves

\* The descriptor is given up: its thread may still write it.
LEMMA RecorderDescribeFails == ASSUME Recorder!RecInv, Recorder!DescribeFails PROVE Recorder!RecInv'
  <1>1. /\ s1 = "describing" /\ s1' = "unwind" /\ s4 # 0 /\ Recorder!Disowned
        /\ \A j \in s12 : j.kind = "describe"
        /\ UNCHANGED <<s4, s5, s6, s7, s8, s10, s11, s12, s13, s14, s17>>
    BY RecordingKnown DEF Recorder!DescribeFails, Recorder!TaskSound
  <1>2. Recorder!OneEach' /\ Recorder!Cleaned'
    BY <1>1, RecordingKnown DEF Recorder!OneEach, Recorder!Cleaned, Recorder!Disowned
  <1>3. \A k \in s12' : k = Recorder!Job(k.kind, k.at) /\ KindSound(k)'
    BY <1>1, RecordingKnown DEF KindSound, Recorder!DescribeSound
  <1>4. Recorder!TaskSound'
    BY <1>1, <1>2, RecordingKnown DEF Recorder!TaskSound, Recorder!InSink
  <1>5. QED
    BY <1>1, <1>2, <1>3, <1>4, RecordingKnown, TaskMoves

\* The deletion is done, or given up and perhaps tried again.
LEMMA RecorderLeaves ==
    ASSUME Recorder!RecInv, Recorder!DeleteDone \/ Recorder!DeleteInterrupted
    PROVE  Recorder!RecInv'
  <1>1. /\ s1 = "deleting" /\ s1' \in {"unwind", "ended"} /\ s4 # 0 /\ Recorder!Cleaned
        /\ (\E j \in s12 : j.kind = "delete")
        /\ UNCHANGED <<s4, s5, s6, s7, s8, s10, s11, s12, s13, s14, s17>>
    BY RecordingKnown DEF Recorder!DeleteDone, Recorder!DeleteInterrupted, Recorder!TaskSound
  <1>2. Recorder!OneEach' /\ Recorder!Running' = Recorder!Running /\ Recorder!F' = Recorder!F
        /\ Recorder!Disowned' = Recorder!Disowned
    BY <1>1, RecordingKnown DEF Recorder!OneEach, Recorder!Running, Recorder!F, Recorder!Disowned
  <1>3. Recorder!Cleaned'
    BY <1>1, <1>2 DEF Recorder!Cleaned
  <1>4. \A k \in s12' : k = Recorder!Job(k.kind, k.at) /\ KindSound(k)'
    BY <1>1, <1>2, RecordingKnown DEF KindSound, Recorder!OpenSound, Recorder!WriteSound, Recorder!FinalSound,
       Recorder!DescribeSound, Recorder!AbortSound, Recorder!DeleteSound, Recorder!Leaving
  <1>5. Recorder!TaskSound'
    BY <1>1, <1>3, RecordingKnown DEF Recorder!TaskSound, Recorder!InSink
  <1>6. QED
    BY <1>1, <1>2, <1>4, <1>5, RecordingKnown, TaskMoves

\* The sink gives up after its thread has failed: nothing runs but the clean-up.
LEMMA RecorderSinkFails == ASSUME Recorder!RecInv, Recorder!SinkFails PROVE Recorder!RecInv'
  <1>1. /\ Recorder!InSink /\ s1' = "abortSink" /\ s4 # 0 /\ Recorder!Start("abort", "close")
        /\ UNCHANGED <<s4, s5, s8, s10, s11, s13, s14, s17>>
    BY RecordingKnown DEF Recorder!SinkFails, Recorder!GiveUp, Recorder!TaskSound
  <1>2. Recorder!SinkOp # "abort" /\ Recorder!SinkOp # "delete"
    BY <1>1 DEF Recorder!InSink, Recorder!SinkOp
  <1>3. s12' = {Recorder!Job("abort", "close")}
    <2>1. Recorder!Job(Recorder!SinkOp, "failed") \in s12
      BY DEF Recorder!SinkFails
    <2>2. \A j \in s12 : j = Recorder!Job(Recorder!SinkOp, "failed")
      BY <1>1, <2>1, JobFields, RecordingKnown DEF Recorder!TaskSound, Recorder!OneEach
    <2>3. Recorder!Running = {}
      BY <2>2, JobFields DEF Recorder!Running
    <2>4. QED
      BY <1>1, <2>3 DEF Recorder!Start
  <1>4. Recorder!OneEach' /\ \A k \in s12' : k = Recorder!Job(k.kind, k.at) /\ KindSound(k)'
    BY <1>3, JobFields DEF Recorder!OneEach, KindSound, Recorder!AbortSound
  <1>5. Recorder!TaskSound'
    BY <1>1, <1>3, JobFields DEF Recorder!TaskSound, Recorder!InSink
  <1>6. QED
    BY <1>1, <1>4, <1>5, RecordingKnown, TaskMoves

\* What a clean-up that is started finds beside it.
LEMMA CleanUpStarts ==
    ASSUME Recorder!RecInv, Recorder!Start("abort", "close"), s1' = "abortSink", s4 # 0,
           UNCHANGED <<s4, s5, s8, s10, s11, s13, s14>>, s17' \in BOOLEAN, s17 => s17',
           \A j \in Recorder!Running : j.kind = "open" => s17',
           \A j \in s12 : j.kind # "delete"
    PROVE  Recorder!RecInv'
  <1>1. /\ Recorder!OneEach' /\ Recorder!Job("abort", "close") \in s12'
        /\ \A j \in s12' : j = Recorder!Job("abort", "close") \/ (j \in Recorder!Running /\ j \in s12 /\ j.kind # "abort")
    BY RecordingKnown, Started
  <1>2. Recorder!F' = Recorder!F
    BY DEF Recorder!F
  <1>3. \A k \in s12' : k = Recorder!Job(k.kind, k.at) /\ KindSound(k)'
    <2>1. KindSound(Recorder!Job("abort", "close"))'
      BY JobFields DEF KindSound, Recorder!AbortSound, Recorder!Job
    <2>2. ASSUME NEW k \in s12, k \in Recorder!Running, k.kind # "abort" PROVE KindSound(k)'
      <3>1. KindSound(k) /\ k.kind # "delete"
        BY RecordingKnown
      <3>2. k.kind = "open" => Recorder!OpenSound(k)'
        BY <2>2 DEF Recorder!OpenSound
      <3>3. k.kind = "finalize" => Recorder!FinalSound(k)'
        BY <1>2, <3>1 DEF KindSound, Recorder!FinalSound, Recorder!Leaving
      <3>4. Recorder!WriteSound(k)' /\ Recorder!DescribeSound(k)'
        BY DEF Recorder!WriteSound, Recorder!DescribeSound
      <3>5. QED
        BY <2>2, <3>1, <3>2, <3>3, <3>4 DEF KindSound
    <2>3. Recorder!Job("abort", "close")' = Recorder!Job("abort", "close")
      BY DEF Recorder!Job
    <2>4. ASSUME NEW k \in s12' PROVE k = Recorder!Job(k.kind, k.at) /\ KindSound(k)'
      <3>1. CASE k = Recorder!Job("abort", "close")
        BY <2>1, <2>3, <3>1, JobFields
      <3>2. CASE k \in Recorder!Running /\ k \in s12 /\ k.kind # "abort"
        BY <2>2, <3>2, RecordingKnown
      <3>3. QED
        BY <1>1, <3>1, <3>2
    <2>5. QED
      BY <2>4
  <1>4. Recorder!TaskSound'
    BY <1>1, JobFields DEF Recorder!TaskSound, Recorder!InSink
  <1>5. QED
    BY <1>1, <1>3, <1>4, TaskMoves

\* Interrupted twice, the sink leaves its thread behind; one that opens leaves its files.
LEMMA RecorderAbandons == ASSUME Recorder!RecInv, Recorder!SinkAbandoned PROVE Recorder!RecInv'
  <1>1. Recorder!InSink /\ s4 # 0 /\ (\A j \in s12 : j.kind = Recorder!SinkOp) /\ s7 # "aborted"
    BY RecordingKnown DEF Recorder!SinkAbandoned, Recorder!TaskSound, Recorder!InSink
  <1>2. Recorder!SinkOp # "delete"
    BY <1>1 DEF Recorder!InSink, Recorder!SinkOp
  <1>3. /\ Recorder!Start("abort", "close") /\ s1' = "abortSink" /\ UNCHANGED <<s4, s5, s8, s10, s11, s13, s14>>
        /\ s17' = (s17 \/ \E j \in Recorder!Running : j.kind = "open")
    BY <1>1 DEF Recorder!SinkAbandoned, Recorder!GiveUp
  <1>4. s17' \in BOOLEAN /\ (s17 => s17') /\ \A j \in Recorder!Running : j.kind = "open" => s17'
    BY <1>3, RecordingKnown
  <1>5. QED
    BY <1>1, <1>2, <1>3, <1>4, CleanUpStarts

\* The segment in progress is given up: cleaned up, unless the sink has done it.
LEMMA RecorderUnwinds == ASSUME Recorder!RecInv, Recorder!UnwindAbort PROVE Recorder!RecInv'
  <1>1. /\ s1 = "unwind" /\ s4 # 0 /\ s6 \notin {"finalized", "aborted"} /\ s6' = "aborted"
        /\ UNCHANGED <<s4, s5, s7, s8, s10, s11, s13, s14, s17>>
    BY DEF Recorder!UnwindAbort
  <1>2. \A j \in s12 : j.kind # "delete"
    BY <1>1, RecordingKnown DEF KindSound, Recorder!DeleteSound
  <1>3. \A j \in Recorder!Running : j.kind = "open" => s17
    BY <1>1, RecordingKnown DEF KindSound, Recorder!OpenSound, Recorder!Running
  <1>4. CASE s7 = "aborted" /\ UNCHANGED <<s1, s12>>
    <2>1. Recorder!OneEach' /\ Recorder!Running' = Recorder!Running /\ Recorder!F' = Recorder!F
          /\ Recorder!Disowned' = Recorder!Disowned
      BY <1>1, <1>4, RecordingKnown DEF Recorder!OneEach, Recorder!Running, Recorder!F, Recorder!Disowned
    <2>2. Recorder!Cleaned'
      BY <1>1, <1>4, <2>1, RecordingKnown DEF Recorder!TaskSound, Recorder!Cleaned
    <2>3. \A k \in s12' : k = Recorder!Job(k.kind, k.at) /\ KindSound(k)'
      BY <1>1, <1>2, <1>4, <2>1, RecordingKnown DEF KindSound, Recorder!OpenSound, Recorder!WriteSound,
         Recorder!FinalSound, Recorder!DescribeSound, Recorder!AbortSound, Recorder!Leaving
    <2>4. Recorder!TaskSound'
      BY <1>1, <1>4, <2>2, RecordingKnown DEF Recorder!TaskSound, Recorder!InSink
    <2>5. QED
      BY <1>1, <2>1, <2>3, <2>4, RecordingKnown, TaskMoves
  <1>5. CASE s1' = "abortSink" /\ Recorder!Start("abort", "close")
    BY <1>1, <1>2, <1>3, <1>5, RecordingKnown, CleanUpStarts
  <1>6. QED
    BY <1>4, <1>5 DEF Recorder!UnwindAbort

\* The files are deleted: what still runs beside the deletion cannot bring them back.
LEMMA RecorderUnwindDeletes == ASSUME Recorder!RecInv, Recorder!UnwindDelete PROVE Recorder!RecInv'
  <1>1. /\ s1 = "unwind" /\ s1' = "deleting" /\ s4 # 0 /\ s6 \in {"finalized", "aborted"}
        /\ Recorder!Start("delete", "media") /\ Recorder!Cleaned
        /\ UNCHANGED <<s4, s5, s6, s7, s8, s10, s11, s13, s14, s17>>
    BY RecordingKnown DEF Recorder!UnwindDelete, Recorder!TaskSound
  <1>2. /\ Recorder!OneEach' /\ Recorder!Job("delete", "media") \in s12'
        /\ \A j \in s12' : j = Recorder!Job("delete", "media") \/ (j \in Recorder!Running /\ j \in s12 /\ j.kind # "delete")
        /\ \A j \in Recorder!Running : j.kind # "delete" => j \in s12'
    BY <1>1, RecordingKnown, Started
  <1>3. Recorder!F' = Recorder!F /\ Recorder!Disowned' = Recorder!Disowned
    BY <1>1 DEF Recorder!F, Recorder!Disowned
  <1>4. \A j \in Recorder!Running : j.kind # "delete" => j \in Recorder!Running'
    BY <1>2 DEF Recorder!Running
  <1>5. Recorder!Cleaned'
    BY <1>1, <1>3, <1>4 DEF Recorder!Cleaned
  <1>6. \A k \in s12' : k = Recorder!Job(k.kind, k.at) /\ KindSound(k)'
    <2>1. KindSound(Recorder!Job("delete", "media"))'
      BY <1>1, JobFields DEF KindSound, Recorder!DeleteSound, Recorder!Leaving, Recorder!Job
    <2>2. ASSUME NEW k \in s12, k \in Recorder!Running, k.kind # "delete" PROVE KindSound(k)'
      BY <1>1, <1>3, <2>2, RecordingKnown DEF KindSound, Recorder!OpenSound, Recorder!WriteSound,
         Recorder!FinalSound, Recorder!DescribeSound, Recorder!AbortSound, Recorder!Leaving
    <2>3. Recorder!Job("delete", "media")' = Recorder!Job("delete", "media")
      BY DEF Recorder!Job
    <2>4. ASSUME NEW k \in s12' PROVE k = Recorder!Job(k.kind, k.at) /\ KindSound(k)'
      <3>1. CASE k = Recorder!Job("delete", "media")
        BY <2>1, <2>3, <3>1, JobFields
      <3>2. CASE k \in Recorder!Running /\ k \in s12 /\ k.kind # "delete"
        BY <2>2, <3>2, RecordingKnown
      <3>3. QED
        BY <1>2, <3>1, <3>2
    <2>5. QED
      BY <2>4
  <1>7. Recorder!TaskSound'
    <2>1. \E j \in s12' : j.kind = "delete"
      BY <1>2, JobFields
    <2>2. QED
      BY <1>1, <1>5, <2>1 DEF Recorder!TaskSound, Recorder!InSink
  <1>8. QED
    BY <1>1, <1>2, <1>6, <1>7, RecordingKnown, TaskMoves

-----------------------------------------------------------------------------
\* A thread that has done what the task waited for was the only one.
LEMMA OnlyThread ==
    ASSUME Recorder!RecInv, NEW op, NEW at, Recorder!Job(op, at) \in s12, at \in {"done", "failed"},
           \A j \in s12 : j.kind = op
    PROVE  s12 = {Recorder!Job(op, at)} /\ Recorder!Running = {}
  <1>1. \A j \in s12 : j = Recorder!Job(op, at)
    BY JobFields, RecordingKnown DEF Recorder!OneEach
  <1>2. QED
    BY <1>1, JobFields DEF Recorder!Running

\* A single thread.
LEMMA Alone ==
    ASSUME NEW k, NEW a, Recorder!Running = {}, Recorder!Start(k, a)
    PROVE  s12' = {Recorder!Job(k, a)} /\ Recorder!OneEach'
  BY DEF Recorder!Start, Recorder!OneEach

\* The first packet of a segment: a new segment without files.
LEMMA RecorderStartsSegment == ASSUME Recorder!RecInv, Recorder!StartSegment PROVE Recorder!RecInv'
  <1>1. /\ s4 = 0 /\ s5 < MaxSegments /\ s4' = s5 + 1 /\ s5' = s5 + 1 /\ s7' = "created" /\ s8' = 0
        /\ s14' = Recorder!NoOwn /\ s1' = "opening" /\ Recorder!Start("open", "lock")
        /\ UNCHANGED <<s10, s11, s13, s17>>
    BY DEF Recorder!StartSegment
  <1>2. s12 = {} /\ Recorder!Running = {}
    BY <1>1, RecordingKnown DEF Recorder!TaskSound, Recorder!Running
  <1>3. s12' = {Recorder!Job("open", "lock")} /\ Recorder!OneEach'
    BY <1>1, <1>2, Alone
  <1>4. Recorder!SegmentsSound'
    <2>1. s5 \in Nat /\ s5 + 1 \in 0..MaxSegments /\ s11 = 1..s5 /\ s5 + 1 \in Recorder!Segments
      <3>1. s5 \in Nat /\ s5 <= MaxSegments /\ s11 = (1..s5) \ {0}
        BY <1>1, RecordingKnown, RecordingAssumption DEF Recorder!SegmentsSound
      <3>2. 0 \notin 1..s5 /\ s5 + 1 \in 0..MaxSegments /\ s5 + 1 \in 1..MaxSegments
        BY <1>1, <3>1, RecordingAssumption
      <3>3. QED
        BY <3>1, <3>2 DEF Recorder!Segments
    <2>2. s11' = (1..s5') \ {s4'}
      <3>1. (1..(s5 + 1)) \ {s5 + 1} = 1..s5
        BY <2>1
      <3>2. QED
        BY <1>1, <2>1, <3>1
    <2>3. \A i \in Recorder!Segments : (i > s5' => s13'[i] = Recorder!NoFiles)
                                       /\ (s13'[i].media # Recorder!Absent => s13'[i].media % 2 = 0)
      BY <1>1, <2>1, RecordingKnown, RecordingAssumption DEF Recorder!SegmentsSound, Recorder!Segments
    <2>4. s13[s5 + 1] = Recorder!NoFiles
      BY <2>1, RecordingKnown DEF Recorder!SegmentsSound
    <2>5. s14'.lock = Recorder!F'.lock /\ (s14'.stage <=> Recorder!F'.stage # Recorder!Absent)
      BY <1>1, <2>4 DEF Recorder!F, Recorder!NoFiles, Recorder!NoOwn
    <2>6. s14' \in [lock : BOOLEAN, stage : BOOLEAN, file : BOOLEAN]
      BY <1>1 DEF Recorder!NoOwn
    <2>7. QED
      BY <1>1, <2>1, <2>2, <2>3, <2>5, <2>6, RecordingKnown DEF Recorder!SegmentsSound
  <1>5. \A k \in s12' : Recorder!ThreadSound(k)'
    BY <1>1, <1>3, JobFields DEF Recorder!ThreadSound, Recorder!OpenSound, Recorder!Job
  <1>6. Recorder!TaskSound'
    <2>1. s4' # 0
      BY <1>1, RecordingKnown DEF Recorder!SegmentsSound
    <2>2. QED
      BY <1>1, <1>3, <2>1, JobFields DEF Recorder!TaskSound, Recorder!InSink, Recorder!SinkOp
  <1>7. Recorder!FinishedSegmentsKept'
    BY <1>1, RecordingKnown DEF Recorder!FinishedSegmentsKept, Recorder!Recovered
  <1>8. QED
    BY <1>3, <1>4, <1>5, <1>6, <1>7 DEF Recorder!RecInv

\* The next packet of the segment, or the end of the delivery.
LEMMA RecorderConsumes ==
    ASSUME Recorder!RecInv, Recorder!ConsumePacket \/ Recorder!DeliveryEnds PROVE Recorder!RecInv'
  <1>1. /\ s1 = "deliver" /\ s12 = {} /\ Recorder!Running = {}
        /\ UNCHANGED <<s4, s5, s6, s7, s8, s10, s11, s13, s14, s17>>
    BY RecordingKnown DEF Recorder!ConsumePacket, Recorder!DeliveryEnds, Recorder!TaskSound, Recorder!Running
  <1>2. s4 # 0 => s6 = "recording" /\ s7 = "open" /\ s8 > 0 /\ Recorder!F.stage = 2 * s8
    BY <1>1, RecordingKnown DEF Recorder!TaskSound
  <1>3. Recorder!F' = Recorder!F
    BY <1>1 DEF Recorder!F
  <1>4. CASE s4 # 0 /\ s1' = "writing" /\ Recorder!Start("write", "header")
    <2>1. s12' = {Recorder!Job("write", "header")} /\ Recorder!OneEach'
      BY <1>1, <1>4, Alone
    <2>2. \A k \in s12' : k = Recorder!Job(k.kind, k.at) /\ KindSound(k)'
      BY <1>1, <1>2, <1>3, <1>4, <2>1, JobFields DEF KindSound, Recorder!WriteSound
    <2>3. Recorder!TaskSound'
      BY <1>1, <1>2, <1>4, <2>1, JobFields DEF Recorder!TaskSound, Recorder!InSink, Recorder!SinkOp
    <2>4. QED
      BY <1>1, <2>1, <2>2, <2>3, RecordingKnown, TaskMoves
  <1>5. CASE s4 # 0 /\ s1' = "finalizing" /\ Recorder!Start("finalize", "close")
    <2>1. s12' = {Recorder!Job("finalize", "close")} /\ Recorder!OneEach'
      BY <1>1, <1>5, Alone
    <2>2. \A k \in s12' : k = Recorder!Job(k.kind, k.at) /\ KindSound(k)'
      BY <1>1, <1>2, <1>3, <1>5, <2>1, JobFields DEF KindSound, Recorder!FinalSound, Recorder!Leaving
    <2>3. Recorder!TaskSound'
      BY <1>1, <1>2, <1>5, <2>1, JobFields DEF Recorder!TaskSound, Recorder!InSink, Recorder!SinkOp
    <2>4. QED
      BY <1>1, <2>1, <2>2, <2>3, RecordingKnown, TaskMoves
  <1>6. CASE s4 = 0 /\ s1' = "unwind" /\ UNCHANGED s12
    <2>1. Recorder!OneEach' /\ \A k \in s12' : k = Recorder!Job(k.kind, k.at) /\ KindSound(k)'
      BY <1>1, <1>6 DEF Recorder!OneEach
    <2>2. Recorder!TaskSound'
      BY <1>1, <1>6 DEF Recorder!TaskSound, Recorder!InSink
    <2>3. QED
      BY <1>1, <2>1, <2>2, RecordingKnown, TaskMoves
  <1>7. QED
    BY <1>4, <1>5, <1>6 DEF Recorder!ConsumePacket, Recorder!DeliveryEnds

\* The segment in progress and its type, when only its counters or its own flags change.
LEMMA SegmentKept ==
    ASSUME Recorder!SegmentsSound, UNCHANGED <<s4, s5, s11, s13, s17>>, s8' \in Nat,
           s14' \in OwnType, s14'.lock = s14.lock, s14'.stage = s14.stage, s10' \in [Recorder!Segments -> Nat]
    PROVE  Recorder!SegmentsSound'
  BY DEF Recorder!SegmentsSound, Recorder!F, OwnType

\* The staging file is open: the first record follows.
LEMMA RecorderOpened == ASSUME Recorder!RecInv, Recorder!OpenDone PROVE Recorder!RecInv'
  <1>1. /\ s1 = "opening" /\ Recorder!Job("open", "done") \in s12 /\ s4 # 0 /\ s8 = 0
        /\ \A j \in s12 : j.kind = "open"
    BY RecordingKnown DEF Recorder!OpenDone, Recorder!TaskSound, Recorder!InSink, Recorder!SinkOp
  <1>2. /\ s14' = [s14 EXCEPT !.file = TRUE] /\ s7' = "open" /\ s6' = "recording" /\ s1' = "writing"
        /\ Recorder!Start("write", "header") /\ UNCHANGED <<s4, s5, s8, s10, s11, s13, s17>>
    BY DEF Recorder!OpenDone
  <1>3. Recorder!F.stage = 0
    BY <1>1, JobFields, RecordingKnown DEF KindSound, Recorder!OpenSound
  <1>4. s12' = {Recorder!Job("write", "header")} /\ Recorder!OneEach'
    BY <1>1, <1>2, OnlyThread, Alone
  <1>5. Recorder!SegmentsSound'
    <2>1. s14 \in OwnType
      BY RecordingKnown DEF Recorder!SegmentsSound, OwnType
    <2>2. s14' \in OwnType /\ s14'.lock = s14.lock /\ s14'.stage = s14.stage
      BY <1>2, <2>1 DEF OwnType
    <2>3. s10 \in [Recorder!Segments -> Nat]
      BY RecordingKnown DEF Recorder!SegmentsSound
    <2>4. QED
      BY <1>2, <2>2, <2>3, RecordingKnown, SegmentKept
  <1>6. \A k \in s12' : Recorder!ThreadSound(k)'
    BY <1>1, <1>2, <1>3, <1>4, JobFields DEF Recorder!ThreadSound, Recorder!WriteSound, Recorder!F, Recorder!Job
  <1>7. Recorder!TaskSound'
    BY <1>1, <1>2, <1>4, JobFields DEF Recorder!TaskSound, Recorder!InSink, Recorder!SinkOp
  <1>8. Recorder!FinishedSegmentsKept'
    BY <1>2, RecordingKnown DEF Recorder!FinishedSegmentsKept, Recorder!Recovered
  <1>9. QED
    BY <1>4, <1>5, <1>6, <1>7, <1>8 DEF Recorder!RecInv

\* A record is written: the segment goes on, or it is full.
LEMMA RecorderWrote == ASSUME Recorder!RecInv, Recorder!WriteDone PROVE Recorder!RecInv'
  <1>1. /\ s1 = "writing" /\ Recorder!Job("write", "done") \in s12 /\ s4 # 0 /\ s6 = "recording" /\ s7 = "open"
        /\ \A j \in s12 : j.kind = "write"
    BY RecordingKnown DEF Recorder!WriteDone, Recorder!TaskSound, Recorder!InSink, Recorder!SinkOp
  <1>2. s8' = s8 + 1 /\ UNCHANGED <<s4, s5, s6, s7, s10, s11, s13, s14, s17>> /\ s8 \in Nat
    BY RecordingKnown DEF Recorder!WriteDone
  <1>3. Recorder!F.stage = 2 * s8' /\ s8' \in Nat /\ s8' > 0
    <2>1. Recorder!F.stage = 2 * s8 + 2
      BY <1>1, JobFields, RecordingKnown DEF KindSound, Recorder!WriteSound
    <2>2. QED
      BY <1>2, <2>1
  <1>4. Recorder!SegmentsSound' /\ Recorder!FinishedSegmentsKept' /\ Recorder!F' = Recorder!F
    <2>1. s14 \in OwnType /\ s10 \in [Recorder!Segments -> Nat]
      BY RecordingKnown DEF Recorder!SegmentsSound, OwnType
    <2>2. QED
      BY <1>2, <1>3, <2>1, RecordingKnown, SegmentKept DEF Recorder!FinishedSegmentsKept, Recorder!Recovered, Recorder!F
  <1>5. CASE s1' = "finalizing" /\ Recorder!Start("finalize", "close")
    <2>1. s12' = {Recorder!Job("finalize", "close")} /\ Recorder!OneEach'
      BY <1>1, <1>5, OnlyThread, Alone
    <2>2. \A k \in s12' : Recorder!ThreadSound(k)'
      BY <1>2, <1>3, <1>4, <1>5, <2>1, JobFields DEF Recorder!ThreadSound, Recorder!FinalSound, Recorder!Leaving, Recorder!Job
    <2>3. Recorder!TaskSound'
      BY <1>1, <1>2, <1>3, <1>5, <2>1, JobFields DEF Recorder!TaskSound, Recorder!InSink, Recorder!SinkOp
    <2>4. QED
      BY <1>4, <2>1, <2>2, <2>3 DEF Recorder!RecInv
  <1>6. CASE s1' = "deliver" /\ s12' = {}
    <2>1. Recorder!OneEach' /\ \A k \in s12' : Recorder!ThreadSound(k)'
      BY <1>6 DEF Recorder!OneEach
    <2>2. Recorder!TaskSound'
      BY <1>1, <1>2, <1>3, <1>4, <1>6 DEF Recorder!TaskSound, Recorder!InSink
    <2>3. QED
      BY <1>4, <2>1, <2>2 DEF Recorder!RecInv
  <1>7. QED
    BY <1>5, <1>6 DEF Recorder!WriteDone

\* The segment is published: its descriptor follows.
LEMMA RecorderFinalized == ASSUME Recorder!RecInv, Recorder!FinalizeDone PROVE Recorder!RecInv'
  <1>1. /\ s1 = "finalizing" /\ Recorder!Job("finalize", "done") \in s12 /\ s4 # 0 /\ s8 > 0
        /\ \A j \in s12 : j.kind = "finalize"
    BY RecordingKnown DEF Recorder!FinalizeDone, Recorder!TaskSound, Recorder!InSink, Recorder!SinkOp
  <1>2. /\ s6' = "finalized" /\ s10' = [s10 EXCEPT ![s4] = s8] /\ s1' = "describing"
        /\ Recorder!Start("describe", "stage") /\ UNCHANGED <<s4, s5, s8, s11, s13, s14, s17>>
    BY DEF Recorder!FinalizeDone
  <1>3. Recorder!Disowned /\ Recorder!F.media = 2 * s8
    BY <1>1, JobFields, RecordingKnown DEF KindSound, Recorder!FinalSound, Recorder!Disowned
  <1>4. s12' = {Recorder!Job("describe", "stage")} /\ Recorder!OneEach'
    BY <1>1, <1>2, OnlyThread, Alone
  <1>5. s4 \in Recorder!Segments /\ s4 \notin s11 /\ s10 \in [Recorder!Segments -> Nat] /\ s14 \in OwnType
    BY <1>1, RecordingKnown, SegmentFiles DEF Recorder!SegmentsSound
  <1>6. s10' \in [Recorder!Segments -> Nat] /\ s10'[s4] = s8 /\ \A i \in s11 : s10'[i] = s10[i]
    <2>1. s8 \in Nat /\ s11 \subseteq Recorder!Segments
      BY RecordingKnown, RecordingAssumption DEF Recorder!SegmentsSound, Recorder!Segments
    <2>2. QED
      BY <1>2, <1>5, <2>1
  <1>7. Recorder!SegmentsSound'
    BY <1>2, <1>5, <1>6, RecordingKnown, SegmentKept
  <1>8. Recorder!FinishedSegmentsKept'
    BY <1>2, <1>6, RecordingKnown DEF Recorder!FinishedSegmentsKept, Recorder!Recovered
  <1>9. \A k \in s12' : Recorder!ThreadSound(k)'
    BY <1>4, JobFields DEF Recorder!ThreadSound, Recorder!DescribeSound, Recorder!Job
  <1>10. Recorder!TaskSound'
    <2>1. Recorder!Disowned' /\ Recorder!F' = Recorder!F
      BY <1>2, <1>3 DEF Recorder!Disowned, Recorder!F
    <2>2. QED
      BY <1>1, <1>2, <1>3, <1>4, <1>6, <2>1, JobFields DEF Recorder!TaskSound, Recorder!InSink
  <1>11. QED
    BY <1>4, <1>7, <1>8, <1>9, <1>10 DEF Recorder!RecInv

\* The receipt: the catalogue lists the segment, whole.
LEMMA RecorderDescribed == ASSUME Recorder!RecInv, Recorder!DescribeDone PROVE Recorder!RecInv'
  <1>1. /\ s1 = "describing" /\ Recorder!Job("describe", "done") \in s12 /\ s4 # 0
        /\ Recorder!F.media = 2 * s10[s4] /\ s10[s4] > 0
    BY RecordingKnown DEF Recorder!DescribeDone, Recorder!TaskSound
  <1>2. s11' = s11 \cup {s4} /\ s4' = 0 /\ s12' = {} /\ s1' = "deliver" /\ UNCHANGED <<s5, s8, s10, s13, s14, s17>>
    BY DEF Recorder!DescribeDone, Recorder!ForgetSegment
  <1>3. Recorder!F.desc = 2 * s10[s4]
    BY <1>1, JobFields, RecordingKnown DEF KindSound, Recorder!DescribeSound
  <1>4. s4 \in Recorder!Segments /\ s10[s4] \in Nat
    BY <1>1, RecordingKnown, SegmentFiles DEF Recorder!SegmentsSound
  <1>5. s4 \in Recorder!Recovered /\ s13[s4].media = 2 * s10[s4]
    BY <1>1, <1>3, <1>4 DEF Recorder!Recovered, Recorder!F, Recorder!Absent
  <1>6. Recorder!FinishedSegmentsKept'
    BY <1>1, <1>2, <1>5, RecordingKnown DEF Recorder!FinishedSegmentsKept, Recorder!Recovered
  <1>7. Recorder!SegmentsSound'
    <2>1. s4 = s5 /\ s5 \in Nat /\ s11 = (1..s5) \ {s4} /\ s4 \in 1..s5
      BY <1>1, RecordingKnown DEF Recorder!SegmentsSound
    <2>2. s11' = (1..s5') \ {s4'}
      BY <1>2, <2>1
    <2>3. QED
      BY <1>2, <2>2, RecordingKnown DEF Recorder!SegmentsSound
  <1>8. Recorder!OneEach' /\ (\A k \in s12' : Recorder!ThreadSound(k)') /\ Recorder!TaskSound'
    BY <1>2 DEF Recorder!OneEach, Recorder!TaskSound, Recorder!InSink
  <1>9. QED
    BY <1>6, <1>7, <1>8 DEF Recorder!RecInv

\* Interrupted once, the sink waits for its thread and undoes what it did.
LEMMA RecorderReconciles ==
    ASSUME Recorder!RecInv, NEW r, Recorder!SinkReconciles(r) PROVE Recorder!RecInv'
  <1>1. /\ Recorder!InSink /\ s4 # 0 /\ s14' = Recorder!NoOwn /\ s12' = {} /\ s7' = "aborted" /\ s1' = "unwind"
        /\ UNCHANGED <<s4, s5, s8, s10, s11, s17>>
    BY RecordingKnown DEF Recorder!SinkReconciles, Recorder!GiveUp, Recorder!TaskSound
  <1>2. s4 \in Recorder!Segments /\ s4 \notin s11 /\ Recorder!F \in FileType /\ s14 \in OwnType
    BY <1>1, RecordingKnown, SegmentFiles DEF Recorder!SegmentsSound
  <1>3. s14.lock = Recorder!F.lock /\ (s14.stage <=> Recorder!F.stage # Recorder!Absent)
        /\ (Recorder!F.media # Recorder!Absent => Recorder!F.media % 2 = 0)
    BY <1>1, <1>2, RecordingKnown DEF Recorder!SegmentsSound, Recorder!F
  <1>4. PICK f \in FileType : /\ Recorder!Files(f) /\ f.lock = FALSE /\ f.stage = Recorder!Absent
                              /\ f.media \in {Recorder!F.media, Recorder!Absent}
    <2> DEFINE g == Recorder!CleanedUp(Recorder!F)
               h == Recorder!RollbackPublished(g)
    <2>1. g \in FileType /\ g.lock = FALSE /\ g.stage = Recorder!Absent /\ g.media = Recorder!F.media
      BY <1>2, <1>3 DEF Recorder!CleanedUp, FileType, OwnType, Recorder!FileSizes
    <2>2. h \in FileType /\ h.lock = g.lock /\ h.stage = g.stage /\ h.media = Recorder!Absent
      BY <2>1 DEF Recorder!RollbackPublished, FileType, Recorder!FileSizes
    <2>3. Recorder!Files(g) \/ Recorder!Files(h)
      BY DEF Recorder!SinkReconciles
    <2> HIDE DEF g, h
    <2>4. QED
      BY <2>1, <2>2, <2>3
  <1>5. /\ Recorder!F' = f /\ \A i \in Recorder!Segments \ {s4} : s13'[i] = s13[i]
        /\ s13' \in [Recorder!Segments -> FileType]
    BY <1>1, <1>4, FilesOf, RecordingKnown
  <1>6. Recorder!SegmentsSound'
    <2>1. s13'[s4] = f
      BY <1>1, <1>5 DEF Recorder!F
    <2>2. s4 <= s5
      BY <1>1, RecordingKnown DEF Recorder!SegmentsSound
    <2>3. \A i \in Recorder!Segments : (i > s5 => s13'[i] = Recorder!NoFiles)
                                       /\ (s13'[i].media # Recorder!Absent => s13'[i].media % 2 = 0)
      BY <1>3, <1>4, <1>5, <2>1, <2>2, RecordingKnown, RecordingAssumption DEF Recorder!SegmentsSound, Recorder!Segments
    <2>4. s14' \in OwnType /\ s14'.lock = FALSE /\ s14'.stage = FALSE
      BY <1>1 DEF Recorder!NoOwn, OwnType
    <2>5. QED
      BY <1>1, <1>4, <1>5, <2>3, <2>4, RecordingKnown DEF Recorder!SegmentsSound, FileType, OwnType
  <1>7. Recorder!FinishedSegmentsKept'
    <2>1. s11 \subseteq Recorder!Segments
      BY RecordingKnown, RecordingAssumption DEF Recorder!SegmentsSound, Recorder!Segments
    <2>2. QED
      BY <1>1, <1>2, <1>5, <2>1, RecordingKnown DEF Recorder!FinishedSegmentsKept, Recorder!Recovered
  <1>8. Recorder!Cleaned'
    BY <1>1 DEF Recorder!Cleaned, Recorder!Disowned, Recorder!NoOwn
  <1>9. Recorder!OneEach' /\ (\A k \in s12' : Recorder!ThreadSound(k)') /\ Recorder!TaskSound'
    BY <1>1, <1>8 DEF Recorder!OneEach, Recorder!TaskSound, Recorder!InSink
  <1>10. QED
    BY <1>6, <1>7, <1>9 DEF Recorder!RecInv

\* Every step of a session and its threads keeps what is known of them.
LEMMA RecorderStep ==
    ASSUME Recorder!RecInv, [Recorder!RecNext]_(Recorder!recvars) PROVE Recorder!RecInv'
  <1>1. CASE UNCHANGED Recorder!recvars
    BY <1>1, RecordingAsBefore DEF Recorder!recvars
  <1>2. CASE Recorder!SinkInterrupted \/ Recorder!AbortInterrupted
    BY <1>2, RecordingAsBefore DEF Recorder!SinkInterrupted, Recorder!AbortInterrupted
  <1>3. CASE Recorder!RecNext
    BY Zenon, <1>2, <1>3, RecorderThreads, RecorderWaits, RecorderAbortEnds, RecorderDescribeFails, RecorderLeaves,
       RecorderSinkFails, RecorderAbandons, RecorderUnwinds, RecorderUnwindDeletes, RecorderStartsSegment,
       RecorderConsumes, RecorderOpened, RecorderWrote, RecorderFinalized, RecorderDescribed, RecorderReconciles
    DEF Recorder!RecNext
  <1>4. QED
    BY <1>1, <1>3

\* What the invariant says of the segments.
LEMMA SegmentsWhole == ASSUME Recorder!RecInv PROVE Recorder!FinishedSegmentsKept /\ Recorder!NothingHalfRecorded
  <1>1. Recorder!SegmentsSound /\ Recorder!TaskSound /\ Recorder!FinishedSegmentsKept
    BY RecordingKnown
  <1>2. ASSUME s1 = "ended", Recorder!Running = {}, ~s17, NEW i \in Recorder!Segments \ s11
        PROVE  s13[i].media = Recorder!Absent /\ s13[i].stage = Recorder!Absent /\ ~s13[i].lock
    <2>1. CASE i > s5
      BY <1>1, <2>1 DEF Recorder!SegmentsSound, Recorder!NoFiles
    <2>2. CASE i = s4
      <3>1. s4 # 0
        BY <2>2, RecordingAssumption DEF Recorder!Segments
      <3>2. Recorder!Disowned
        BY <1>1, <1>2, <3>1 DEF Recorder!TaskSound, Recorder!Cleaned
      <3>3. PICK d \in s12 : d.kind = "delete"
        BY <1>1, <1>2, <3>1 DEF Recorder!TaskSound
      <3>4. Recorder!DeleteSound(d) /\ d.at \in {"done", "failed"}
        BY <1>2, <3>3, RecordingKnown DEF KindSound, Recorder!Running
      <3>5. Recorder!F.media = Recorder!Absent
        BY <1>2, <3>4 DEF Recorder!DeleteSound
      <3>6. s14.lock = Recorder!F.lock /\ (s14.stage <=> Recorder!F.stage # Recorder!Absent)
        BY <1>1, <3>1 DEF Recorder!SegmentsSound
      <3>7. QED
        BY <2>2, <3>2, <3>5, <3>6 DEF Recorder!Disowned, Recorder!F
    <2>3. i > s5 \/ i = s4
      <3>1. s5 \in Nat /\ s11 = (1..s5) \ {s4} /\ i \in Nat \ {0}
        BY <1>1, RecordingAssumption DEF Recorder!SegmentsSound, Recorder!Segments
      <3>2. QED
        BY <1>2, <3>1
    <2>4. QED
      BY <2>1, <2>2, <2>3
  <1>3. ASSUME s1 = "ended", Recorder!Running = {}, ~s17 PROVE Recorder!Recovered = s11
    BY <1>1, <1>2, <1>3 DEF Recorder!Recovered, Recorder!FinishedSegmentsKept
  <1>4. QED
    BY <1>1, <1>2, <1>3 DEF Recorder!NothingHalfRecorded, Recorder!SegmentsSound

-----------------------------------------------------------------------------
(* Playback of a recording.                                                *)

LEMMA PlaybackBegins == ASSUME Playback!PbInit PROVE Playback!PbInv
  BY DEF Playback!PbInit, Playback!PbInv, Playback!PlainSound, Playback!DueSound, Playback!DeadlineSound,
     Playback!WindowExact, Playback!TimeoutMeansWork, Playback!NativeKeptWhileUsed, Playback!Live,
     Playback!Deciding, Playback!AtDecoder, Playback!None

\* A number determines its quotient and its remainder.
LEMMA RemainderUnique ==
    ASSUME NEW x \in Int, NEW m \in Nat \ {0}, NEW q \in Int, NEW r \in 0..m - 1, x = m * q + r
    PROVE  x % m = r
  <1> DEFINE q2 == x \div m
             r2 == x % m
  <1>1. q2 \in Int /\ r2 \in 0..m - 1 /\ x = m * q2 + r2
    OBVIOUS
  <1> HIDE DEF q2, r2
  <1>2. ASSUME NEW k \in Nat \ {0}, NEW y \in 0..m - 1, NEW z \in 0..m - 1, m * k = y - z PROVE FALSE
    <2>1. PICK j \in Nat : k = j + 1
      BY <1>2
    <2>2. m * k = m * j + m /\ m * j >= 0
      BY <2>1
    <2>3. QED
      BY <1>2, <2>2
  <1>3. m * (q - q2) = r2 - r /\ m * (q2 - q) = r - r2
    BY <1>1
  <1>4. CASE q > q2
    BY <1>1, <1>2, <1>3, <1>4
  <1>5. CASE q2 > q
    BY <1>1, <1>2, <1>3, <1>5
  <1>6. CASE q = q2
    BY <1>1, <1>6 DEF r2
  <1>7. QED
    BY <1>1, <1>4, <1>5, <1>6

\* The difference of two timestamps, below half their range, is the step of the media
\* time; a step backwards shows as half the range or more.
LEMMA StepFromStamps ==
    ASSUME NEW m \in Nat \ {0}, NEW a \in Int, NEW b \in Int, b - a \in -(m \div 2)..m - 1,
           ((b % m) - (a % m)) % m < m \div 2
    PROVE  b >= a /\ ((b % m) - (a % m)) % m = b - a
  <1> DEFINE ra == a % m
             rb == b % m
             qa == a \div m
             qb == b \div m
             h == m \div 2
  <1>1. /\ ra \in 0..m - 1 /\ qa \in Int /\ a = m * qa + ra
        /\ rb \in 0..m - 1 /\ qb \in Int /\ b = m * qb + rb
    OBVIOUS
  <1>2. h \in Nat /\ 2 * h <= m /\ b - a \in -h..m - 1 /\ (rb - ra) % m < h
    OBVIOUS
  <1> HIDE DEF ra, rb, qa, qb, h
  <1>3. rb - ra \in Int /\ m * (qa - qb) = m * qa - m * qb /\ m * (qa - qb - 1) = m * qa - m * qb - m
    BY <1>1
  <1>4. ASSUME b >= a PROVE (rb - ra) % m = b - a
    <2>1. rb - ra = m * (qa - qb) + (b - a) /\ b - a \in 0..m - 1 /\ qa - qb \in Int
      BY <1>1, <1>2, <1>3, <1>4
    <2>2. QED
      BY <1>3, <2>1, RemainderUnique
  <1>5. ASSUME b < a PROVE FALSE
    <2>1. rb - ra = m * (qa - qb - 1) + (b - a + m) /\ b - a + m \in 0..m - 1 /\ qa - qb - 1 \in Int
      BY <1>1, <1>2, <1>3, <1>5
    <2>2. (rb - ra) % m = b - a + m
      BY <1>3, <2>1, RemainderUnique
    <2>3. QED
      BY <1>2, <2>1, <2>2
  <1>6. QED
    BY <1>4, <1>5 DEF ra, rb

\* A larger dividend has no smaller quotient.
LEMMA QuotientMonotone ==
    ASSUME NEW a \in Nat, NEW b \in Nat, NEW c \in Nat \ {0}, a <= b
    PROVE  a \div c \in Nat /\ b \div c \in Nat /\ a \div c <= b \div c
  <1> DEFINE p == a \div c
             q == b \div c
  <1>1. p \in Nat /\ p * c <= a /\ q \in Nat /\ b < q * c + c
    OBVIOUS
  <1> HIDE DEF p, q
  <1>2. ASSUME p > q PROVE FALSE
    <2>1. PICK k \in Nat : p = q + 1 + k
      BY <1>1, <1>2
    <2>2. p * c = q * c + c + k * c /\ k * c >= 0
      BY <1>1, <2>1
    <2>3. q * c \in Int /\ p * c \in Int
      BY <1>1
    <2>4. QED
      BY <1>1, <2>2, <2>3
  <1>3. QED
    BY <1>1, <1>2 DEF p, q

-----------------------------------------------------------------------------
\* A step that reads nothing keeps what was read; the packets handed over change with
\* no step but the consumer's.
LEMMA PlaybackReadKept ==
    ASSUME Playback!PbInv, UNCHANGED <<Playback!srcvars, Playback!readvars>>,
           \/ s6' = s6
           \/ s6' \notin Playback!Live
           \/ s6 \in Playback!Deciding /\ s6' \in Playback!Deciding
           \/ s6 \in Playback!AtDecoder /\ s6' \in Playback!AtDecoder
           \/ s6 = "emit" /\ s6' = "pull" /\ s10.at > 0,
           \/ s24' # "complete"
           \/ s24' = s24
           \/ s6 = "emit" /\ s10.at = 0
    PROVE  /\ s6' \in Playback!Live => (Playback!FileSound /\ Playback!ReadSound /\ Playback!HandedSound)'
           /\ Playback!WindowExact'
  <1> USE DEF Playback!srcvars, Playback!readvars
  <1>1. \A n : Playback!Wanted(n)' = Playback!Wanted(n)
    BY DEF Playback!Wanted
  <1>2. \A S : Playback!HandsOver(S)' = Playback!HandsOver(S)
    BY DEF Playback!HandsOver
  <1>3. ASSUME s6' \in Playback!Live
        PROVE  (Playback!FileSound /\ Playback!ReadSound /\ Playback!HandedSound)'
    <2>1. s6 \in Playback!Live /\ Playback!FileSound /\ Playback!ReadSound /\ Playback!HandedSound
      BY <1>3 DEF Playback!PbInv, Playback!Live, Playback!Deciding, Playback!AtDecoder
    <2>2. Playback!FileSound'
      BY <2>1 DEF Playback!FileSound, Playback!Stamp
    <2>3. Playback!ReadSound'
      BY <2>1 DEF Playback!ReadSound
    <2>4. Playback!HandedSound'
      BY <1>1, <1>2, <1>3, <2>1 DEF Playback!HandedSound, Playback!Live, Playback!Deciding, Playback!AtDecoder
    <2>5. QED
      BY <2>2, <2>3, <2>4
  <1>4. Playback!WindowExact'
    <2>1. CASE s24' # "complete" \/ s24' = s24
      BY <1>1, <1>2, <2>1 DEF Playback!PbInv, Playback!WindowExact
    <2>2. CASE s6 = "emit" /\ s10.at = 0
      <3>1. Playback!FileSound /\ Playback!ReadSound /\ Playback!HandedSound
        BY <2>2 DEF Playback!PbInv, Playback!Live, Playback!AtDecoder
      <3>2. s7 = PacketCount /\ s7 = s3.count /\ Playback!HandsOver(Playback!Wanted(s7))
        BY <2>2, <3>1 DEF Playback!HandedSound, Playback!AtDecoder
      <3>3. Len(s1) = PacketCount /\ Len(s2) = PacketCount
        BY <3>1, PlaybackAssumption DEF Playback!FileSound, Playback!Recordings
      <3>4. QED
        BY <1>1, <1>2, <3>1, <3>2, <3>3 DEF Playback!WindowExact, Playback!ReadSound
    <2>3. QED
      BY <2>1, <2>2
  <1>5. QED
    BY <1>3, <1>4

\* A delivery that ends is closed; it completes after the flush only, and times out for
\* work.
LEMMA PlaybackGiven ==
    ASSUME Playback!PbInv, s6 \in Playback!Live, NEW o \in {"failed", "complete", "timeout", "cancelled"},
           Playback!Give(o), UNCHANGED <<Playback!srcvars, Playback!readvars, s12, Playback!clockvars, s20>>,
           s22' = "native" => s22 = "native", o = "complete" => s6 = "emit" /\ s10.at = 0,
           o = "timeout" => s20 >= WorkBound
    PROVE  Playback!PbInv'
  <1>1. s6' = "closing" /\ s24' = o /\ s23' = "queued" /\ s18' = Playback!None
    BY DEF Playback!Give
  <1>2. Playback!WindowExact'
    BY <1>1, PlaybackReadKept DEF Playback!Live, Playback!Deciding, Playback!AtDecoder
  <1>3. Playback!PlainSound'
    BY <1>1 DEF Playback!PbInv, Playback!PlainSound, Playback!readvars, Playback!clockvars, Playback!AtDecoder,
       Playback!Deciding, Playback!Live
  <1>4. (Playback!DueSound /\ Playback!DeadlineSound)'
    BY <1>1 DEF Playback!DueSound, Playback!DeadlineSound, Playback!AtDecoder, Playback!None
  <1>5. (Playback!TimeoutMeansWork /\ Playback!NativeKeptWhileUsed)'
    BY <1>1 DEF Playback!TimeoutMeansWork, Playback!NativeKeptWhileUsed, Playback!PbInv
  <1>6. QED
    BY <1>1, <1>2, <1>3, <1>4, <1>5
    DEF Playback!PbInv, Playback!Live, Playback!Deciding, Playback!AtDecoder

-----------------------------------------------------------------------------
LEMMA PlaybackNumbers ==
    /\ Modulus \in Nat \ {0} /\ TicksPerMs \in Nat \ {0} /\ PacketCount \in Nat \ {0}
    /\ Numerators \subseteq Nat \ {0} /\ Denominators \subseteq Nat \ {0}
    /\ Origin \in Nat /\ WorkBound \in Nat /\ Gaps \subseteq Nat
  BY PlaybackAssumption

LEMMA MediaTimesWhole ==
    ASSUME NEW ts \in Playback!Recordings, NEW i \in 1..PacketCount PROVE ts[i] \in Int
  <1> DEFINE T == Gaps \cup {-g : g \in Gaps}
  <1>1. \A x \in T : x \in Int
    BY PlaybackNumbers
  <1>2. ts \in [1..PacketCount -> T]
    BY DEF Playback!Recordings
  <1> HIDE DEF T
  <1>3. QED
    BY <1>1, <1>2

LEMMA TupleOfLength ==
    ASSUME NEW n \in Nat, NEW S, NEW f \in [1..n -> S] PROVE f \in Seq(S) /\ Len(f) = n
  OBVIOUS

\* The request.
LEMMA PlaybackPlays == ASSUME Playback!PbInv, Playback!Play PROVE Playback!PbInv'
  <1>1. PICK ts \in Playback!Recordings, r \in Numerators \X Denominators, bad \in {0, PacketCount}, more \in {0, 1} :
          /\ bad = 0 \/ more = 0
          /\ s1' = ts /\ s5' = r
          /\ s2' = [i \in 1..PacketCount |-> [ts |-> Playback!Stamp(ts[i]), ok |-> i # bad]]
          /\ s3' = [count |-> PacketCount + more, duration |-> Playback!Duration(ts)]
          /\ \E f, t \in 0..Playback!Duration(ts) :
               f <= t /\ (bad + more > 0 => f = t) /\ s4' = [from |-> f, to |-> t]
    BY ZenonT(60) DEF Playback!Play
  <1>2. /\ s6 = "idle" /\ s6' = "pull"
        /\ UNCHANGED <<s7, s8, s9, s10, s11, s12, s13, s14, s15, s16, s17, s18, s19, s20, s21, s22, s23, s24>>
    BY DEF Playback!Play, Playback!readvars, Playback!clockvars, Playback!workvars
  <1>3. s7 = 0 /\ s8 = 0 /\ s9 = Playback!None /\ s11 = <<>> /\ s24 = "none" /\ s23 \in {"none", "queued", "releasing", "released"}
    BY <1>2 DEF Playback!PbInv, Playback!PlainSound
  <1>4. PICK f \in Nat, t \in Nat : s4' = [from |-> f, to |-> t]
    <2>1. \A y \in 0..Playback!Duration(ts) : y \in Nat
      OBVIOUS
    <2>2. QED
      BY <1>1, <2>1
  <1>5. Playback!FileSound'
    <2>1. \A i \in 1..PacketCount : ts[i] \in Int
      BY MediaTimesWhole
    <2>2. \A i \in 1..PacketCount : Playback!Stamp(ts[i]) \in Int
      BY <2>1, PlaybackNumbers DEF Playback!Stamp
    <2>3. s2' \in [1..PacketCount -> [ts : Int, ok : BOOLEAN]]
      BY <1>1, <2>2
    <2>4. s2' \in Seq([ts : Int, ok : BOOLEAN]) /\ Len(s2') = PacketCount
      BY <2>3, PlaybackNumbers, TupleOfLength
    <2>5. s3'.count \in Nat
      BY <1>1, PlaybackNumbers
    <2>6. \A i \in 1..PacketCount : s2'[i].ts = Playback!Stamp(ts[i])
      BY <1>1
    <2>7. QED
      BY <1>1, <1>4, <2>4, <2>5, <2>6 DEF Playback!FileSound, Playback!Stamp, Playback!Recordings, Playback!Steps
  <1>6. Playback!ReadSound'
    <2>1. s3'.count \in Nat
      BY <1>1, PlaybackNumbers
    <2>2. QED
      BY <1>2, <1>3, <2>1, PlaybackNumbers DEF Playback!ReadSound, Playback!None
  <1>7. Playback!HandedSound'
    <2>1. Playback!Wanted(s7)' = {}
      BY <1>2, <1>3 DEF Playback!Wanted
    <2>2. s11' = <<>> /\ Len(<<>>) = 0
      BY <1>2, <1>3
    <2>3. Playback!HandsOver({})'
      BY <2>2 DEF Playback!HandsOver
    <2>4. s11' \in Seq(Nat)
      BY <2>2
    <2>5. Playback!HandsOver(Playback!Wanted(s7))'
      BY <2>1, <2>3 DEF Playback!HandsOver
    <2>6. s6' \notin Playback!Deciding /\ s6' \notin Playback!AtDecoder
      BY <1>2 DEF Playback!Deciding, Playback!AtDecoder
    <2>7. QED
      BY <2>4, <2>5, <2>6 DEF Playback!HandedSound, Playback!Deciding, Playback!AtDecoder
  <1>8. Playback!PlainSound'
    BY <1>2, <1>3 DEF Playback!PbInv, Playback!PlainSound, Playback!Live, Playback!AtDecoder
  <1>9. (Playback!DueSound /\ Playback!DeadlineSound)'
    BY <1>2 DEF Playback!PbInv, Playback!DueSound, Playback!DeadlineSound, Playback!AtDecoder, Playback!None
  <1>10. (Playback!WindowExact /\ Playback!TimeoutMeansWork /\ Playback!NativeKeptWhileUsed)'
    BY <1>2, <1>3 DEF Playback!PbInv, Playback!WindowExact, Playback!TimeoutMeansWork, Playback!NativeKeptWhileUsed
  <1>11. QED
    BY <1>5, <1>6, <1>7, <1>8, <1>9, <1>10 DEF Playback!PbInv

\* The next record: what its timestamp says of its media time.
LEMMA PlaybackNext ==
    ASSUME Playback!PbInv, s6 = "pull", s7 < Len(s2), Playback!Delta < Modulus \div 2
    PROVE  /\ s7 + 1 \in 1..PacketCount /\ s1[s7 + 1] \in Nat /\ s8 + Playback!Delta = s1[s7 + 1]
           /\ s7 > 0 => s1[s7 + 1] >= s1[s7]
           /\ s8 \div TicksPerMs <= s1[s7 + 1] \div TicksPerMs
           /\ s1[s7 + 1] \div TicksPerMs \in Nat
  <1>1. Playback!FileSound /\ Playback!ReadSound /\ Playback!PlainSound
    BY DEF Playback!PbInv, Playback!Live
  <1>2. s7 \in Nat /\ s7 + 1 \in 1..PacketCount /\ PacketCount \in Nat /\ Modulus \in Nat \ {0} /\ TicksPerMs \in Nat \ {0}
        /\ Origin \in Int
    BY <1>1, PlaybackNumbers DEF Playback!PlainSound, Playback!FileSound
  <1>3. s1 \in Playback!Recordings
    BY <1>1 DEF Playback!FileSound
  <1>4. \A i \in 1..PacketCount : s1[i] \in Int
    BY <1>3, MediaTimesWhole
  <1>5. /\ s7 > 0 => s1[s7 + 1] >= s1[s7]
        /\ s1[s7 + 1] \in Nat /\ s8 + Playback!Delta = s1[s7 + 1]
    <2>1. CASE s7 = 0
      <3>1. s8 = 0 /\ Playback!Delta = 0 /\ s1[1] = 0
        BY <1>1, <1>3, <2>1 DEF Playback!ReadSound, Playback!Delta, Playback!Recordings
      <3>2. QED
        BY <2>1, <3>1
    <2>2. CASE s7 > 0
      <3>1. s8 = s1[s7] /\ s8 \in Nat
        BY <1>1, <2>2 DEF Playback!ReadSound
      <3>2. s7 \in 1..PacketCount /\ s7 + 1 \in 2..PacketCount
        BY <1>2, <2>2
      <3>3. s1[s7 + 1] - s1[s7] \in -(Modulus \div 2)..Modulus - 1
        <4> DEFINE i == s7 + 1
        <4>1. i \in 2..PacketCount /\ i - 1 = s7
          BY <1>2, <3>2
        <4> HIDE DEF i
        <4>2. s1[i] - s1[i - 1] \in Playback!Steps
          BY <1>3, <4>1 DEF Playback!Recordings
        <4>3. QED
          BY <4>1, <4>2 DEF Playback!Steps, i
      <3>4. Playback!Delta = (((Origin + s1[s7 + 1]) % Modulus) - ((Origin + s1[s7]) % Modulus)) % Modulus
        BY <1>1, <1>2, <2>2, <3>2 DEF Playback!Delta, Playback!FileSound, Playback!Stamp
      <3> DEFINE a == Origin + s1[s7]
                 b == Origin + s1[s7 + 1]
      <3>5. a \in Int /\ b \in Int /\ b - a = s1[s7 + 1] - s1[s7]
        BY <1>2, <1>4, <3>2
      <3> HIDE DEF a, b
      <3>6. Playback!Delta = ((b % Modulus) - (a % Modulus)) % Modulus
        BY <3>4 DEF a, b
      <3>7. b >= a /\ Playback!Delta = b - a
        BY <1>2, <3>3, <3>5, <3>6, StepFromStamps
      <3>8. QED
        BY <1>2, <1>4, <2>2, <3>1, <3>2, <3>5, <3>7
    <2>3. QED
      BY <1>2, <2>1, <2>2
  <1>6. s8 \in Nat /\ s8 <= s1[s7 + 1]
    <2>1. s8 \in Nat /\ (s7 = 0 => s8 = 0) /\ (s7 > 0 => s8 = s1[s7])
      BY <1>1, <1>2 DEF Playback!ReadSound
    <2>2. QED
      BY <1>2, <1>5, <2>1
  <1>7. QED
    BY <1>2, <1>5, <1>6, QuotientMonotone

\* One more record read: the packets wanted so far gain it, or do not.
LEMMA WantedGrows ==
    ASSUME NEW n \in Nat
    PROVE  Playback!Wanted(n + 1) =
             Playback!Wanted(n) \cup (IF s1[n + 1] \div TicksPerMs \in s4.from..s4.to THEN {n + 1} ELSE {})
  <1>1. 1..(n + 1) = (1..n) \cup {n + 1}
    OBVIOUS
  <1>2. QED
    BY <1>1 DEF Playback!Wanted

LEMMA PlaybackReads == ASSUME Playback!PbInv, Playback!ReadRecord PROVE Playback!PbInv'
  <1> DEFINE n == s7 + 1
             ms == s1[n] \div TicksPerMs
             wanted == ms \in s4.from..s4.to
  <1>1. /\ s6 = "pull" /\ s7 < Len(s2) /\ s2[n].ok /\ n <= s3.count /\ Playback!Delta < Modulus \div 2
        /\ s7' = n /\ s8' = s8 + Playback!Delta
        /\ UNCHANGED <<s1, s2, s3, s4, s5, s11, s12, s13, s14, s15, s16, s17, s18, s19, s20, s21, s22, s23, s24>>
    BY DEF Playback!ReadRecord, Playback!srcvars, Playback!clockvars, Playback!workvars
  <1>2. Playback!FileSound /\ Playback!ReadSound /\ Playback!HandedSound /\ Playback!PlainSound
    BY <1>1 DEF Playback!PbInv, Playback!Live
  <1>3. /\ n \in 1..PacketCount /\ s1[n] \in Nat /\ s8' = s1[n]
        /\ s7 > 0 => s1[n] >= s1[s7]
        /\ s8 \div TicksPerMs <= ms /\ ms \in Nat
    BY <1>1, PlaybackNext
  <1>4. Playback!Elapsed = ms
    BY <1>1, <1>3 DEF Playback!Elapsed
  <1>5. s4.from \in Nat /\ s4.to \in Nat /\ s7 \in Nat /\ s9 \in Nat \cup {-1} /\ n \in Nat
        /\ (s9 # -1 => s7 > 0 /\ s8 \div TicksPerMs >= s4.from) /\ s8 \div TicksPerMs \in Int
    BY <1>2, PlaybackNumbers DEF Playback!FileSound, Playback!ReadSound, Playback!PlainSound, Playback!None
  <1> HIDE DEF n, ms
  <1>6. Playback!Navigated(ms) /\ Playback!InWindow(ms) <=> wanted
    BY <1>3, <1>5 DEF Playback!Navigated, Playback!InWindow, Playback!None
  <1>7. /\ wanted => /\ s9' = (IF s9 = -1 THEN ms ELSE s9)
                     /\ s10' = [at |-> n, due |-> Playback!Due(ms)] /\ s6' = "pace"
        /\ ~wanted => UNCHANGED <<s9, s10, s6>>
    BY <1>4, <1>6 DEF Playback!ReadRecord, Playback!None, n
  <1> HIDE DEF wanted
  <1>8. wanted => Playback!Due(ms) \in Int
    <2>1. s5[1] \in Nat \ {0} /\ s5[2] \in Nat \ {0}
      BY <1>2, PlaybackNumbers DEF Playback!FileSound
    <2>2. \A x \in Int : (x * s5[2]) \div s5[1] \in Int
      BY <2>1
    <2>3. ms - (IF s9 = Playback!None THEN ms ELSE s9) \in Int
      BY <1>3, <1>5 DEF Playback!None
    <2>4. QED
      BY <2>2, <2>3 DEF Playback!Due
  <1>9. Playback!FileSound'
    BY <1>1, <1>2 DEF Playback!FileSound, Playback!Stamp
  <1>10. Playback!ReadSound'
    <2>1. n <= PacketCount /\ n <= s3.count
      BY <1>1, <1>3, PlaybackNumbers
    <2>2. \A i \in 1..n : s2[i].ok
      BY <1>1, <1>2, <1>5 DEF Playback!ReadSound, n
    <2>3. \A i \in 2..n : s1[i] >= s1[i - 1]
      <3>1. \A i \in 2..s7 : s1[i] >= s1[i - 1]
        BY <1>2 DEF Playback!ReadSound
      <3>2. \A i \in 2..n : i \in 2..s7 \/ (i = n /\ i - 1 = s7 /\ s7 > 0)
        BY <1>5 DEF n
      <3>3. QED
        BY <1>3, <3>1, <3>2
    <2>4. s9' \in Nat \cup {-1} /\ (s9' # -1 => ms >= s4.from)
      <3>1. CASE wanted
        BY <1>3, <1>5, <1>7, <3>1 DEF wanted
      <3>2. CASE ~wanted
        BY <1>3, <1>5, <1>7, <3>2
      <3>3. QED
        BY <3>1, <3>2
    <2>5. s8' \div TicksPerMs = ms
      BY <1>3 DEF ms
    <2>6. QED
      BY <1>1, <1>3, <1>5, <2>1, <2>2, <2>3, <2>4, <2>5 DEF Playback!ReadSound, Playback!None, n
  <1>11. Playback!HandedSound'
    <2>1. s11 \in Seq(Nat) /\ Playback!HandsOver(Playback!Wanted(s7))
      BY <1>1, <1>2 DEF Playback!HandedSound
    <2>2. Playback!Wanted(n) = Playback!Wanted(s7) \cup (IF wanted THEN {n} ELSE {})
      BY <1>5, WantedGrows DEF n, ms, wanted
    <2>3. CASE wanted
      <3>1. Playback!Wanted(s7 - 1)' = Playback!Wanted(s7) /\ Playback!Wanted(s7)' = Playback!Wanted(n)
        BY <1>1, <1>5 DEF Playback!Wanted, n
      <3>2. Playback!HandsOver(Playback!Wanted(s7 - 1))'
        BY <1>1, <2>1, <3>1 DEF Playback!HandsOver
      <3>3. s7' \in Playback!Wanted(s7)'
        BY <1>1, <2>2, <2>3, <3>1
      <3>4. s6' = "pace" /\ s10'.at = s7'
        BY <1>1, <1>7, <2>3
      <3>5. QED
        BY <1>1, <2>1, <3>2, <3>3, <3>4 DEF Playback!HandedSound, Playback!Deciding, Playback!AtDecoder
    <2>4. CASE ~wanted
      <3>1. Playback!Wanted(s7)' = Playback!Wanted(s7)
        <4>1. Playback!Wanted(s7)' = Playback!Wanted(n)
          BY <1>1, <1>5 DEF Playback!Wanted, n
        <4>2. QED
          BY <2>2, <2>4, <4>1
      <3>2. Playback!HandsOver(Playback!Wanted(s7))'
        BY <1>1, <2>1, <3>1 DEF Playback!HandsOver
      <3>3. QED
        BY <1>1, <1>7, <2>1, <2>4, <3>2 DEF Playback!HandedSound, Playback!Deciding, Playback!AtDecoder
    <2>5. QED
      BY <2>3, <2>4
  <1>12. Playback!PlainSound'
    BY <1>1, <1>2, <1>5, <1>7, <1>8 DEF Playback!PlainSound, Playback!Live, Playback!AtDecoder, Playback!Deciding
  <1>13. s6' \in {"pull", "pace"}
    BY <1>1, <1>7
  <1>14. Playback!DueSound' /\ Playback!DeadlineSound'
    BY <1>1, <1>13 DEF Playback!PbInv, Playback!DueSound, Playback!DeadlineSound, Playback!AtDecoder, Playback!None
  <1>15. (Playback!WindowExact /\ Playback!TimeoutMeansWork /\ Playback!NativeKeptWhileUsed)'
    BY <1>1, <1>2 DEF Playback!PbInv, Playback!PlainSound, Playback!WindowExact, Playback!TimeoutMeansWork,
       Playback!NativeKeptWhileUsed
  <1>16. QED
    BY <1>9, <1>10, <1>11, <1>12, <1>14, <1>15 DEF Playback!PbInv

LEMMA PlaybackReadBad == ASSUME Playback!PbInv, Playback!ReadBad PROVE Playback!PbInv'
  <1>1. s6 \in Playback!Live /\ Playback!Give("failed") /\ s22' = s22
        /\ UNCHANGED <<Playback!srcvars, Playback!readvars, s12, Playback!clockvars, s20>>
    BY DEF Playback!ReadBad, Playback!Live
  <1>2. QED
    BY <1>1, PlaybackGiven

\* The flush begins when the last record was read and counted.
LEMMA PlaybackReadEnd == ASSUME Playback!PbInv, Playback!ReadEnd PROVE Playback!PbInv'
  <1>1. s6 = "pull" /\ s7 = Len(s2)
        /\ UNCHANGED <<Playback!srcvars, s7, s8, s9, s11, s12, Playback!clockvars, s19, s20, s21>>
    BY DEF Playback!ReadEnd
  <1>2. CASE s7 # s3.count
    <2>1. Playback!Give("failed") /\ s22' = s22 /\ s10' = s10
      BY <1>2 DEF Playback!ReadEnd
    <2>2. QED
      BY <1>1, <2>1, PlaybackGiven DEF Playback!readvars, Playback!Live
  <1>3. CASE s7 = s3.count
    <2>1. s6' = "decode" /\ s22' = "queued" /\ s18' = Playback!None /\ s10' = [at |-> 0, due |-> 0]
          /\ UNCHANGED <<s24, s23, s13>>
      BY <1>3 DEF Playback!ReadEnd
    <2>2. UNCHANGED <<s1, s2, s3, s4, s5, s14, s15, s16, s17>>
      BY <1>1 DEF Playback!srcvars, Playback!clockvars
    <2>3. Playback!FileSound /\ Playback!ReadSound /\ Playback!HandedSound /\ Playback!PlainSound
      BY <1>1 DEF Playback!PbInv, Playback!Live
    <2>4. Playback!FileSound' /\ Playback!ReadSound'
      BY <1>1, <2>2, <2>3 DEF Playback!FileSound, Playback!ReadSound, Playback!Stamp
    <2>5. Playback!HandedSound'
      <3>1. Playback!HandsOver(Playback!Wanted(s7)) /\ s11 \in Seq(Nat)
        BY <1>1, <2>3 DEF Playback!HandedSound
      <3>2. Playback!HandsOver(Playback!Wanted(s7))'
        BY <1>1, <2>2, <3>1 DEF Playback!HandsOver, Playback!Wanted
      <3>3. s7 = PacketCount
        BY <1>1, <2>3 DEF Playback!FileSound
      <3>4. QED
        BY <1>1, <1>3, <2>1, <2>2, <3>1, <3>2, <3>3 DEF Playback!HandedSound, Playback!Deciding, Playback!AtDecoder
    <2>6. Playback!PlainSound'
      BY <1>1, <2>1, <2>2, <2>3 DEF Playback!PlainSound, Playback!Live, Playback!AtDecoder, Playback!Deciding
    <2>7. Playback!DueSound' /\ Playback!DeadlineSound'
      BY <2>1 DEF Playback!DueSound, Playback!DeadlineSound, Playback!None
    <2>8. (Playback!WindowExact /\ Playback!TimeoutMeansWork /\ Playback!NativeKeptWhileUsed)'
      BY <1>1, <2>1, <2>2, <2>3 DEF Playback!PbInv, Playback!PlainSound, Playback!WindowExact,
         Playback!TimeoutMeansWork, Playback!NativeKeptWhileUsed
    <2>9. QED
      BY <2>4, <2>5, <2>6, <2>7, <2>8 DEF Playback!PbInv
  <1>4. QED
    BY <1>2, <1>3

\* The packet that waited is the next of those wanted.
LEMMA PlaybackConsumes == ASSUME Playback!PbInv, Playback!Consume PROVE Playback!PbInv'
  <1>1. /\ s6 = "admit" /\ s6' = "decode" /\ s22' = "queued" /\ s11' = Append(s11, s10.at)
        /\ s18' = s14 + WorkBound /\ s20' = 0
        /\ UNCHANGED <<s1, s2, s3, s4, s5, s7, s8, s9, s10, s12, s13, s14, s15, s16, s17, s19, s21, s23, s24>>
    BY DEF Playback!Consume, Playback!srcvars, Playback!clockvars
  <1>2. Playback!FileSound /\ Playback!ReadSound /\ Playback!HandedSound /\ Playback!PlainSound
    BY <1>1 DEF Playback!PbInv, Playback!Live, Playback!Deciding
  <1>3. s10.at = s7 /\ s7 \in Playback!Wanted(s7) /\ Playback!HandsOver(Playback!Wanted(s7 - 1)) /\ s11 \in Seq(Nat)
        /\ s7 \in Nat \ {0}
    BY <1>1, <1>2 DEF Playback!HandedSound, Playback!PlainSound, Playback!Deciding, Playback!Wanted
  <1>4. Playback!FileSound' /\ Playback!ReadSound'
    BY <1>1, <1>2 DEF Playback!FileSound, Playback!ReadSound, Playback!Stamp
  <1>5. s11' \in Seq(Nat) /\ Len(s11') = Len(s11) + 1 /\ s11'[Len(s11) + 1] = s7 /\ Len(s11) \in Nat
        /\ \A i \in 1..Len(s11) : s11'[i] = s11[i]
    BY <1>1, <1>3
  <1>6. Playback!HandsOver(Playback!Wanted(s7))'
    <2>1. Playback!Wanted(s7)' = Playback!Wanted(s7 - 1) \cup {s7}
      <3>1. (s7 - 1) \in Nat /\ (s7 - 1) + 1 = s7
        BY <1>3
      <3>2. Playback!Wanted(s7) = Playback!Wanted(s7 - 1) \cup {s7}
        BY <1>3, <3>1 DEF Playback!Wanted
      <3>3. Playback!Wanted(s7)' = Playback!Wanted(s7)
        BY <1>1 DEF Playback!Wanted
      <3>4. QED
        BY <3>2, <3>3
    <2>2. {s11'[i] : i \in 1..Len(s11')} = {s11[i] : i \in 1..Len(s11)} \cup {s7}
      BY <1>5
    <2>3. {s11[i] : i \in 1..Len(s11)} = Playback!Wanted(s7 - 1)
      BY <1>3 DEF Playback!HandsOver
    <2>4. \A i \in 1..Len(s11) : s11[i] \in 1..(s7 - 1)
      BY <2>3 DEF Playback!Wanted
    <2>5. \A i \in 2..Len(s11) : s11[i - 1] < s11[i]
      BY <1>3 DEF Playback!HandsOver
    <2>6. \A i \in 2..Len(s11') : s11'[i - 1] < s11'[i]
      <3>1. TAKE i \in 2..Len(s11')
      <3>2. i - 1 \in 1..Len(s11) /\ s11'[i - 1] = s11[i - 1]
        BY <1>5
      <3>3. CASE i = Len(s11) + 1
        BY <1>3, <1>5, <2>4, <3>2, <3>3
      <3>4. CASE i \in 2..Len(s11)
        BY <1>5, <2>5, <3>2, <3>4
      <3>5. QED
        BY <1>5, <3>3, <3>4
    <2>7. QED
      BY <2>1, <2>2, <2>3, <2>6 DEF Playback!HandsOver
  <1>7. Playback!HandedSound'
    BY <1>1, <1>3, <1>5, <1>6 DEF Playback!HandedSound, Playback!Deciding, Playback!AtDecoder
  <1>8. Playback!PlainSound'
    BY <1>1, <1>2, <1>3 DEF Playback!PlainSound, Playback!Live, Playback!AtDecoder, Playback!Deciding
  <1>9. Playback!DueSound' /\ Playback!DeadlineSound'
    <2>1. Playback!DueSound'
      BY <1>1 DEF Playback!PbInv, Playback!DueSound, Playback!AtDecoder, Playback!Virtual, Playback!Target, Playback!Paused
    <2>2. Playback!DeadlineSound'
      BY <1>1, <1>2, <1>3, PlaybackNumbers DEF Playback!DeadlineSound, Playback!PlainSound, Playback!None
    <2>3. QED
      BY <2>1, <2>2
  <1>10. (Playback!WindowExact /\ Playback!TimeoutMeansWork /\ Playback!NativeKeptWhileUsed)'
    BY <1>1, <1>2 DEF Playback!PbInv, Playback!PlainSound, Playback!WindowExact,
       Playback!TimeoutMeansWork, Playback!NativeKeptWhileUsed
  <1>11. QED
    BY <1>4, <1>7, <1>8, <1>9, <1>10 DEF Playback!PbInv

-----------------------------------------------------------------------------
\* A step that reads nothing and ends nothing keeps the invariant when it keeps the
\* clock, the work and the decoder as they must be.
LEMMA PlaybackKept ==
    ASSUME Playback!PbInv, UNCHANGED <<Playback!srcvars, Playback!readvars, s12, s24>>,
           s6 \notin {"closing", "ended"} <=> s6' \notin {"closing", "ended"}, s6' = "idle" <=> s6 = "idle",
           \/ s6' = s6
           \/ s6' \notin Playback!Live
           \/ s6 \in Playback!Deciding /\ s6' \in Playback!Deciding
           \/ s6 \in Playback!AtDecoder /\ s6' \in Playback!AtDecoder
           \/ s6 = "emit" /\ s6' = "pull" /\ s10.at > 0,
           s6' \in Playback!Live \cup {"idle", "closing", "ended"},
           s14' \in Nat, s16' \in Int, s15' \in Nat \cup {Playback!None}, s20' \in Int,
           s20' = s20 \/ s24 # "timeout",
           s23' \in {"none", "queued", "releasing", "released"},
           Playback!DueSound', Playback!DeadlineSound', Playback!NativeKeptWhileUsed'
    PROVE  Playback!PbInv'
  <1>1. /\ s6' \in Playback!Live => (Playback!FileSound /\ Playback!ReadSound /\ Playback!HandedSound)'
        /\ Playback!WindowExact'
    BY PlaybackReadKept
  <1>2. Playback!PlainSound'
    BY DEF Playback!PbInv, Playback!PlainSound, Playback!readvars, Playback!AtDecoder, Playback!Deciding, Playback!Live
  <1>3. Playback!TimeoutMeansWork'
    BY DEF Playback!PbInv, Playback!TimeoutMeansWork
  <1>4. QED
    BY <1>1, <1>2, <1>3 DEF Playback!PbInv

\* What a step that touches none of it keeps.
LEMMA PlaybackPlainKept ==
    ASSUME Playback!PbInv
    PROVE  /\ UNCHANGED <<s14, s15, s16>> => s14' \in Nat /\ s16' \in Int /\ s15' \in Nat \cup {Playback!None}
           /\ UNCHANGED s20 => s20' \in Int
           /\ UNCHANGED s23 => s23' \in {"none", "queued", "releasing", "released"}
           /\ UNCHANGED <<s22, s23>> => Playback!NativeKeptWhileUsed'
  BY DEF Playback!PbInv, Playback!PlainSound, Playback!NativeKeptWhileUsed

\* Playback time stands still while it is paused, and goes on from there.
LEMMA PlaybackPauses == ASSUME Playback!PbInv, Playback!Pause \/ Playback!Resume PROVE Playback!PbInv'
  <1>1. UNCHANGED <<Playback!srcvars, Playback!readvars, s6, s12, s13, s14, s18, s19, s20, s21, s22, s23, s24>>
    BY DEF Playback!Pause, Playback!Resume, Playback!workvars
  <1>2. s14 \in Nat /\ s16 \in Int /\ s15 \in Nat \cup {-1}
    BY DEF Playback!PbInv, Playback!PlainSound, Playback!None
  <1>3. \/ s15 = -1 /\ s15' = s14 /\ s16' = s16
        \/ s15 # -1 /\ s15' = -1 /\ s16' = s16 + (s14 - s15)
    BY DEF Playback!Pause, Playback!Resume, Playback!Paused, Playback!None, Playback!clockvars
  <1>4. Playback!Virtual' = Playback!Virtual
    BY <1>1, <1>2, <1>3 DEF Playback!Virtual, Playback!Paused, Playback!None
  <1>5. Playback!DueSound'
    BY <1>1, <1>4 DEF Playback!PbInv, Playback!DueSound, Playback!readvars, Playback!Target
  <1>6. Playback!DeadlineSound'
    BY <1>1 DEF Playback!PbInv, Playback!DeadlineSound, Playback!readvars
  <1>7. s14' \in Nat /\ s16' \in Int /\ s15' \in Nat \cup {Playback!None}
    BY <1>1, <1>2, <1>3 DEF Playback!None
  <1>8. QED
    BY <1>1, <1>5, <1>6, <1>7, PlaybackKept, PlaybackPlainKept DEF Playback!PbInv, Playback!PlainSound

\* The pump looks at the clock, sleeps and looks again.
LEMMA PlaybackPaces == ASSUME Playback!PbInv, Playback!Pace \/ Playback!SleepEnds PROVE Playback!PbInv'
  <1>1. /\ UNCHANGED <<Playback!srcvars, Playback!readvars, s12, s14, s15, s16, s18, s19, s20, s21, s22, s23, s24>>
        /\ s6 \in {"pace", "sleep"} /\ s6' \in Playback!Deciding
        /\ s6' = "admit" => Playback!Slept
    BY DEF Playback!Pace, Playback!SleepEnds, Playback!workvars, Playback!clockvars, Playback!Deciding
  <1>2. Playback!DueSound'
    BY <1>1 DEF Playback!DueSound, Playback!readvars, Playback!Target, Playback!Virtual, Playback!Paused, Playback!Slept,
       Playback!Deciding, Playback!AtDecoder
  <1>3. Playback!DeadlineSound'
    BY <1>1 DEF Playback!PbInv, Playback!DeadlineSound, Playback!readvars, Playback!Deciding
  <1>4. QED
    BY <1>1, <1>2, <1>3, PlaybackKept, PlaybackPlainKept DEF Playback!Deciding, Playback!Live

\* Time only passes forwards, and what passes at the decoder is work.
LEMMA PlaybackTicks == ASSUME Playback!PbInv, Playback!Tick PROVE Playback!PbInv'
  <1>1. /\ UNCHANGED <<Playback!srcvars, Playback!readvars, s6, s12, s15, s16, s18, s19, s21, s22, s23, s24>>
        /\ s14' = s14 + 1 /\ s20' = (IF Playback!Working THEN s20 + 1 ELSE s20)
        /\ s6 \in {"pace", "sleep", "admit", "decode", "frame", "frameWait"}
    BY DEF Playback!Tick
  <1>2. s14 \in Nat /\ s16 \in Int /\ s15 \in Nat \cup {-1} /\ s20 \in Int /\ s12 \in Int /\ s10.due \in Int
    BY DEF Playback!PbInv, Playback!PlainSound, Playback!None
  <1>3. Playback!DueSound'
    <2>1. Playback!Virtual' >= Playback!Virtual /\ Playback!Virtual \in Int /\ Playback!Virtual' \in Int
      BY <1>1, <1>2 DEF Playback!Virtual, Playback!Paused, Playback!None
    <2>2. Playback!Target' = Playback!Target /\ Playback!Target \in Int
      BY <1>1, <1>2 DEF Playback!Target, Playback!readvars
    <2>3. s6 \in {"admit"} \cup Playback!AtDecoder /\ s10.at > 0 => Playback!Virtual' >= Playback!Target
      BY <2>1, <2>2 DEF Playback!PbInv, Playback!DueSound
    <2>4. QED
      BY <1>1, <2>2, <2>3 DEF Playback!DueSound, Playback!readvars
  <1>4. Playback!DeadlineSound'
    <2>1. CASE s18 # Playback!None
      BY <1>1, <1>2, <2>1, PlaybackNumbers DEF Playback!PbInv, Playback!DeadlineSound, Playback!readvars, Playback!Working, Playback!None
    <2>2. CASE s18 = Playback!None
      BY <1>1, <1>2, <2>2 DEF Playback!PbInv, Playback!DeadlineSound, Playback!readvars, Playback!Working, Playback!None
    <2>3. QED
      BY <2>1, <2>2
  <1>5. s24 # "timeout"
    BY <1>1 DEF Playback!PbInv, Playback!PlainSound
  <1>6. QED
    BY <1>1, <1>2, <1>3, <1>4, <1>5, PlaybackKept, PlaybackPlainKept DEF Playback!None, Playback!PbInv, Playback!PlainSound

-----------------------------------------------------------------------------
\* A step of the decoder's threads leaves the session's task where it is.
LEMMA PlaybackThreads ==
    ASSUME Playback!PbInv,
           UNCHANGED <<Playback!srcvars, s6, Playback!readvars, s12, Playback!clockvars, Playback!workvars, s24>>,
           s23' \in {"none", "queued", "releasing", "released"}, Playback!NativeKeptWhileUsed'
    PROVE  Playback!PbInv'
  <1>1. UNCHANGED <<s14, s15, s16, s18, s19, s20>>
    BY DEF Playback!clockvars, Playback!workvars
  <1>2. Playback!DueSound'
    BY <1>1 DEF Playback!PbInv, Playback!DueSound, Playback!readvars, Playback!Target, Playback!Virtual, Playback!Paused
  <1>3. Playback!DeadlineSound'
    BY <1>1 DEF Playback!PbInv, Playback!DeadlineSound, Playback!readvars
  <1>4. QED
    BY <1>1, <1>2, <1>3, PlaybackKept, PlaybackPlainKept DEF Playback!PbInv, Playback!PlainSound

\* The pipeline is released only when no call uses it, and no call uses it afterwards.
LEMMA PlaybackNative ==
    ASSUME Playback!PbInv, Playback!OpStart \/ Playback!CloserStarts \/ Playback!CloserDone PROVE Playback!PbInv'
  <1>1. UNCHANGED <<Playback!srcvars, s6, Playback!readvars, s12, Playback!clockvars, Playback!workvars, s24>>
    BY DEF Playback!OpStart, Playback!CloserStarts, Playback!CloserDone
  <1>2. s23 \in {"none", "queued", "releasing", "released"}
    BY DEF Playback!PbInv, Playback!PlainSound
  <1>3. s23' \in {"none", "queued", "releasing", "released"} /\ Playback!NativeKeptWhileUsed'
    BY <1>2 DEF Playback!OpStart, Playback!CloserStarts, Playback!CloserDone, Playback!OpLockFree,
       Playback!NativeKeptWhileUsed, Playback!PbInv
  <1>4. QED
    BY <1>1, <1>3, PlaybackThreads

LEMMA PlaybackReturns == ASSUME Playback!PbInv, Playback!OpReturns PROVE Playback!PbInv'
  <1>1. s22' = "none" /\ UNCHANGED <<Playback!srcvars, Playback!readvars, s12, Playback!clockvars, s19, s20>>
    BY DEF Playback!OpReturns
  <1>2. CASE s6 # "decode"
    <2>1. UNCHANGED <<s6, s21, s24, s23, s18>>
      BY <1>2 DEF Playback!OpReturns
    <2>2. QED
      BY <1>1, <2>1, PlaybackThreads DEF Playback!workvars, Playback!NativeKeptWhileUsed, Playback!PbInv, Playback!PlainSound
  <1>3. CASE s6 = "decode" /\ Playback!Give("failed")
    BY <1>1, <1>3, PlaybackGiven DEF Playback!Live, Playback!AtDecoder
  <1>4. CASE s6 = "decode" /\ s6' = "emit" /\ UNCHANGED <<s24, s23, s18>>
    <2>1. UNCHANGED <<s14, s15, s16>>
      BY <1>1 DEF Playback!clockvars
    <2>2. Playback!DueSound'
      BY <1>1, <1>4, <2>1 DEF Playback!PbInv, Playback!DueSound, Playback!readvars, Playback!Target, Playback!Virtual,
         Playback!Paused, Playback!AtDecoder
    <2>3. Playback!DeadlineSound'
      BY <1>1, <1>4, <2>1 DEF Playback!PbInv, Playback!DeadlineSound, Playback!readvars
    <2>4. QED
      BY <1>1, <1>4, <2>1, <2>2, <2>3, PlaybackKept, PlaybackPlainKept
      DEF Playback!NativeKeptWhileUsed, Playback!AtDecoder, Playback!Live
  <1>5. QED
    BY <1>2, <1>3, <1>4 DEF Playback!OpReturns

\* The ways a delivery ends before it is complete.
LEMMA PlaybackFails ==
    ASSUME Playback!PbInv,
           Playback!OpTimesOut \/ Playback!FrameFails \/ Playback!WorkTimesOut \/ Playback!CancelPlayback
    PROVE  Playback!PbInv'
  <1>1. UNCHANGED <<Playback!srcvars, Playback!readvars, s12, Playback!clockvars, s20>> /\ (s22' = "native" => s22 = "native")
    BY DEF Playback!OpTimesOut, Playback!FrameFails, Playback!WorkTimesOut, Playback!CancelPlayback
  <1>2. CASE Playback!WorkTimesOut
    <2>1. s6 \in Playback!AtDecoder /\ Playback!Give("timeout") /\ s18 # -1 /\ s14 >= s18
      BY <1>2 DEF Playback!WorkTimesOut, Playback!AtDecoder, Playback!None
    <2>2. s20 >= WorkBound
      BY <2>1, PlaybackNumbers DEF Playback!PbInv, Playback!DeadlineSound, Playback!PlainSound, Playback!None
    <2>3. QED
      BY <1>1, <2>1, <2>2, PlaybackGiven DEF Playback!Live
  <1>3. CASE Playback!OpTimesOut \/ Playback!FrameFails \/ Playback!CancelPlayback
    <2>1. PICK o \in {"failed", "cancelled"} : Playback!Give(o)
      BY <1>3 DEF Playback!OpTimesOut, Playback!FrameFails, Playback!CancelPlayback
    <2>2. s6 \in Playback!Live
      BY <1>3 DEF Playback!OpTimesOut, Playback!FrameFails, Playback!CancelPlayback, Playback!PbInv,
         Playback!PlainSound, Playback!Live, Playback!AtDecoder
    <2>3. QED
      BY <1>1, <2>1, <2>2, PlaybackGiven
  <1>4. QED
    BY <1>2, <1>3

-----------------------------------------------------------------------------
\* A packet whose frames are out is done; the flush completes the delivery.
LEMMA PlaybackEmitDone == ASSUME Playback!PbInv, Playback!EmitDone PROVE Playback!PbInv'
  <1>1. s6 = "emit" /\ UNCHANGED <<Playback!srcvars, Playback!readvars, s12, Playback!clockvars, s19, s20, s21, s22>>
    BY DEF Playback!EmitDone
  <1>2. CASE s10.at > 0
    <2>1. s6' = "pull" /\ s18' = Playback!None /\ UNCHANGED <<s24, s23, s13>>
      BY <1>2 DEF Playback!EmitDone
    <2>2. Playback!DueSound' /\ Playback!DeadlineSound'
      BY <2>1 DEF Playback!DueSound, Playback!DeadlineSound, Playback!AtDecoder, Playback!None
    <2>3. UNCHANGED <<s14, s15, s16>>
      BY <1>1 DEF Playback!clockvars
    <2>4. QED
      BY <1>1, <1>2, <2>1, <2>2, <2>3, PlaybackKept, PlaybackPlainKept DEF Playback!Live
  <1>3. CASE ~(s10.at > 0)
    <2>1. Playback!Give("complete")
      BY <1>3 DEF Playback!EmitDone
    <2>2. s10.at = 0
      BY <1>1, <1>3 DEF Playback!PbInv, Playback!PlainSound, Playback!AtDecoder
    <2>3. QED
      BY <1>1, <2>1, <2>2, PlaybackGiven DEF Playback!Live, Playback!AtDecoder
  <1>4. QED
    BY <1>2, <1>3

\* The wait for a pause to end is not counted as work.
LEMMA PlaybackEmits ==
    ASSUME Playback!PbInv,
           Playback!EmitFrame \/ Playback!EmitWaits \/ Playback!FrameAdmitted \/ Playback!FrameDone
    PROVE  Playback!PbInv'
  <1>1. /\ UNCHANGED <<Playback!srcvars, Playback!readvars, s12, s14, s15, s16, s20, s22, s23, s24>>
        /\ s6 \in {"emit", "frame", "frameWait"} /\ s6' \in {"emit", "frame", "frameWait"}
    BY DEF Playback!EmitFrame, Playback!EmitWaits, Playback!FrameAdmitted, Playback!FrameDone, Playback!clockvars,
       Playback!workvars
  <1>2. Playback!DueSound'
    BY <1>1 DEF Playback!PbInv, Playback!DueSound, Playback!readvars, Playback!Target, Playback!Virtual, Playback!Paused,
       Playback!AtDecoder
  <1>3. Playback!DeadlineSound'
    <2>1. Playback!DeadlineSound /\ s14 \in Nat /\ s20 \in Int /\ WorkBound \in Nat
      BY PlaybackNumbers DEF Playback!PbInv, Playback!PlainSound
    <2>2. CASE Playback!EmitFrame \/ Playback!FrameDone
      BY <1>1, <2>1, <2>2 DEF Playback!EmitFrame, Playback!FrameDone, Playback!workvars, Playback!DeadlineSound, Playback!readvars
    <2>3. CASE Playback!EmitWaits
      BY <1>1, <2>1, <2>3 DEF Playback!EmitWaits, Playback!DeadlineSuspended, Playback!DeadlineSound, Playback!readvars,
         Playback!None
    <2>4. CASE Playback!FrameAdmitted
      BY <1>1, <2>1, <2>4 DEF Playback!FrameAdmitted, Playback!DeadlineSound, Playback!readvars, Playback!None
    <2>5. QED
      BY <2>2, <2>3, <2>4
  <1>4. QED
    BY <1>1, <1>2, <1>3, PlaybackKept, PlaybackPlainKept DEF Playback!Live, Playback!AtDecoder

\* A close that is not done in time spoils a complete delivery.
LEMMA PlaybackEnds == ASSUME Playback!PbInv, Playback!CloseEnds PROVE Playback!PbInv'
  <1>1. /\ s6 = "closing" /\ s6' = "ended" /\ s24' \in {"failed", s24}
        /\ UNCHANGED <<s1, s2, s3, s4, s5, Playback!readvars, s12, s14, s15, s16, s18, s19, s20, s22, s23>>
    BY DEF Playback!CloseEnds, Playback!srcvars, Playback!clockvars, Playback!workvars
  <1>2. Playback!WindowExact' /\ s6' \notin Playback!Live
    BY <1>1, PlaybackReadKept DEF Playback!srcvars, Playback!Live, Playback!AtDecoder, Playback!Deciding
  <1>3. Playback!PlainSound'
    BY <1>1 DEF Playback!PbInv, Playback!PlainSound, Playback!readvars, Playback!AtDecoder
  <1>4. (Playback!DueSound /\ Playback!DeadlineSound)'
    BY <1>1 DEF Playback!PbInv, Playback!DueSound, Playback!DeadlineSound, Playback!AtDecoder, Playback!None
  <1>5. (Playback!TimeoutMeansWork /\ Playback!NativeKeptWhileUsed)'
    BY <1>1 DEF Playback!PbInv, Playback!TimeoutMeansWork, Playback!NativeKeptWhileUsed
  <1>6. QED
    BY <1>2, <1>3, <1>4, <1>5 DEF Playback!PbInv

LEMMA PlaybackStep == ASSUME Playback!PbInv, [Playback!PbNext]_(Playback!pbvars) PROVE Playback!PbInv'
  <1>1. CASE UNCHANGED Playback!pbvars
    BY <1>1, PlaybackThreads DEF Playback!pbvars, Playback!PbInv, Playback!PlainSound, Playback!NativeKeptWhileUsed
  <1>2. CASE Playback!PbNext
    BY <1>2, PlaybackPlays, PlaybackReadBad, PlaybackReads, PlaybackReadEnd, PlaybackPauses, PlaybackPaces,
       PlaybackConsumes, PlaybackTicks, PlaybackNative, PlaybackReturns, PlaybackFails, PlaybackEmitDone,
       PlaybackEmits, PlaybackEnds DEF Playback!PbNext
  <1>3. QED
    BY <1>1, <1>2

\* No packet at the decoder is early.
LEMMA PlaybackOnTime == ASSUME Playback!PbInv PROVE Playback!NeverEarly
  BY DEF Playback!PbInv, Playback!DueSound, Playback!NeverEarly, Playback!Working, Playback!AtDecoder

-----------------------------------------------------------------------------
(* The parts of PartSpec.                                                  *)

\* What is known of the part a behaviour is about.
MediaInv ==
  /\ part = "native" => Native!NatInv
  /\ part = "provider" => Provider!ProvInv
  /\ part = "delivery" => Delivery!DelInv
  /\ part = "view" => View!ViewInv
  /\ part = "exports" => Export!ExportInv
  /\ part = "plays" => Play!PlayInv
  /\ part = "supervisor" => Supervisor!SupInv
  /\ part = "launch" => Launch!LaunchInv
  /\ part = "windows" => Windows!WinInv
  /\ part = "recording" => Recorder!RecInv
  /\ part = "playback" => Playback!PbInv

\* Every part begins with its invariant.
LEMMA MediaBegins == PartInit => MediaInv
  BY NativeInit, ProvInitial, DeliveryInit, ViewBegins, ExportBegins, PlayBegins, SupBegins,
     LaunchBegins, WindowsBegin, RecordingBegins, PlaybackBegins
  DEF PartInit, MediaInv

\* A step is one of the part the behaviour is about, or none.
LEMMA OneMoves ==
    ASSUME [PartNext]_sumvars
    PROVE  /\ part' = part
           /\ part = "native" => [Native!NatNext]_(Native!natvars)
           /\ part = "provider" => [Provider!ProvNext]_(Provider!provvars)
           /\ part = "delivery" => [Delivery!DelNext]_(Delivery!delvars)
           /\ part = "view" => [View!ViewNext]_(View!viewvars)
           /\ part = "exports" => [Export!RdNext]_(Export!rdvars)
           /\ part = "plays" => [Play!RdNext]_(Play!rdvars)
           /\ part = "supervisor" => [Supervisor!SupNext]_(Supervisor!supvars)
           /\ part = "launch" => [Launch!LaunchNext]_(Launch!launchvars)
           /\ part = "windows" => [Windows!Next]_(Windows!winvars)
           /\ part = "recording" => [Recorder!RecNext]_(Recorder!recvars)
           /\ part = "playback" => [Playback!PbNext]_(Playback!pbvars)
  <1>1. CASE UNCHANGED sumvars
    <2>1. part' = part /\ UNCHANGED <<s1, s2, s3, s4, s5, s6, s7, s8, s9, s10, s11, s12, s13, s14,
                                      s15, s16, s17, s18, s19, s20, s21, s22, s23, s24>>
      BY <1>1 DEF sumvars, After0, After13, After15, After17, After18, After19
    <2>2. UNCHANGED Native!natvars /\ UNCHANGED Provider!provvars
      BY <2>1 DEF Native!natvars, Native!tree, Provider!provvars, Provider!snapvars,
         Provider!closevars, Provider!readervars
    <2>3. UNCHANGED Delivery!delvars /\ UNCHANGED View!viewvars
      BY <2>1 DEF Delivery!delvars, Delivery!taskvars, Delivery!nativevars, View!viewvars
    <2>4. UNCHANGED Export!rdvars /\ UNCHANGED Play!rdvars
      BY <2>1 DEF Export!rdvars, Export!exvars, Export!plvars, Play!rdvars, Play!exvars, Play!plvars
    <2>5. UNCHANGED Supervisor!supvars
      BY <2>1 DEF Supervisor!supvars, Supervisor!callvars, Supervisor!hostvars, Supervisor!runvars
    <2>6. UNCHANGED Launch!launchvars
      BY <2>1 DEF Launch!launchvars, Launch!request, Launch!native, Launch!overlay
    <2>7. UNCHANGED Windows!winvars
      BY <2>1 DEF Windows!winvars
    <2>8. UNCHANGED Recorder!recvars
      BY <2>1 DEF Recorder!recvars
    <2>9. UNCHANGED Playback!pbvars
      BY <2>1 DEF Playback!pbvars, Playback!srcvars, Playback!readvars, Playback!clockvars, Playback!workvars
    <2>10. QED
      BY <2>1, <2>2, <2>3, <2>4, <2>5, <2>6, <2>7, <2>8, <2>9
  <1>2. CASE PartNext
    BY <1>2 DEF PartNext
  <1>3. QED
    BY <1>1, <1>2

\* Every step of the part keeps its invariant.
LEMMA MediaStep == MediaInv /\ [PartNext]_sumvars => MediaInv'
  <1> SUFFICES ASSUME MediaInv, [PartNext]_sumvars PROVE MediaInv'
    OBVIOUS
  <1>1. part = "native" => Native!NatInv'
    BY OneMoves, NativeStep DEF MediaInv
  <1>2. part = "provider" => Provider!ProvInv'
    BY OneMoves, ProviderStep DEF MediaInv
  <1>3. part = "delivery" => Delivery!DelInv'
    BY OneMoves, DeliveryStep DEF MediaInv
  <1>4. part = "view" => View!ViewInv'
    BY OneMoves, ViewStep DEF MediaInv
  <1>5. part = "exports" => Export!ExportInv'
    BY OneMoves, ExportStep DEF MediaInv
  <1>6. part = "plays" => Play!PlayInv'
    BY OneMoves, PlayStep DEF MediaInv
  <1>7. part = "supervisor" => Supervisor!SupInv'
    BY OneMoves, SupStep DEF MediaInv
  <1>8. part = "launch" => Launch!LaunchInv'
    BY OneMoves, LaunchStep DEF MediaInv
  <1>9. part = "windows" => Windows!WinInv'
    BY OneMoves, WindowsStep DEF MediaInv
  <1>10. part = "recording" => Recorder!RecInv'
    BY OneMoves, RecorderStep DEF MediaInv
  <1>11. part = "playback" => Playback!PbInv'
    BY OneMoves, PlaybackStep DEF MediaInv
  <1>12. QED
    BY <1>1, <1>2, <1>3, <1>4, <1>5, <1>6, <1>7, <1>8, <1>9, <1>10, <1>11, OneMoves DEF MediaInv

\* Whatever the callers, threads and native workers do, in whatever order: the threads that run
\* have their slots, the process numbers are not reused under a stop, one consumer reads a decoder,
\* one call holds a view's lock and every native thread serves it, the reservations are those of
\* requests that are under way, the slots and native shares counted are those that are held, the
\* generation that runs is the one the supervisor would stop, the windows held are those created and
\* not destroyed, every thread that writes a recording has the files it was given, and what a playback
\* has handed over is what it has read of the window.
THEOREM MediaInvariant == PartSpec => []MediaInv
  <1>1. QED
    BY MediaBegins, MediaStep, PTL DEF PartSpec

\* WorkersOwned: however reads time out, callers leave and the provider closes, a slot is held until
\* its thread is done and no snapshot is older than its question (mediamtx_provider); and however
\* a service, its children, its owner and the threads that stop it interleave, a stop reaches its
\* whole tree and nothing else (native_process).
THEOREM WorkersStayOwned == PartSpec => []WorkersOwned
  <1>1. MediaInv => WorkersOwned
    BY DEF MediaInv, WorkersOwned, Provider!ProvInv, Native!NatInv
  <1>2. QED
    BY MediaInvariant, <1>1, PTL

\* LiveRunsClean: every lease of a shared session sees the source it asked for whichever call is
\* cancelled while a native thread works for it (live_view, session), and a multi-view run that has
\* ended left no task and no native call on a closed backend and delivered no frame too many
\* (multiview_live_presentation, gstreamer_direct_frame_delivery).
THEOREM LiveRunsStayClean == PartSpec => []LiveRunsClean
  <1>1. MediaInv => LiveRunsClean
    BY DeliveryClean DEF MediaInv, LiveRunsClean, View!ViewInv
  <1>2. QED
    BY MediaInvariant, <1>1, PTL

\* ReadersHonest: no interleaving of requests, cancellations and checks gives more exports than slots
\* or sends bytes that were not verified (operator_export), and a pause or a stop reaches the playback
\* of the session that named it (operator_playback).
THEOREM ReadersStayHonest == PartSpec => []ReadersHonest
  <1>1. MediaInv => ReadersHonest
    BY DEF MediaInv, ReadersHonest, Export!ExportInv, Play!PlayInv
  <1>2. QED
    BY MediaInvariant, <1>1, PTL

\* SupervisionSound: however starts, replacements, stops and closes fail and overlap, one generation
\* presents at a time, a stop reaches it, and the frame total that is reported never drops
\* (presentation_supervisor, presentation_host).
THEOREM SupervisionStaysSound == PartSpec => SupervisionSound
  <1>1. MediaInv /\ [PartNext]_sumvars =>
          [part = "supervisor" => /\ Supervisor!OneGenerationPresents'
                                  /\ Supervisor!StopReaches'
                                  /\ Supervisor!TotalsNeverDrop]_sumvars
    <2> SUFFICES ASSUME MediaInv, PartNext, part = "supervisor"
                 PROVE  /\ Supervisor!OneGenerationPresents'
                        /\ Supervisor!StopReaches'
                        /\ Supervisor!TotalsNeverDrop
      OBVIOUS
    <2>1. Supervisor!SupInv' /\ Supervisor!TotalsNeverDrop
      BY OneMoves, SupStep DEF MediaInv
    <2>2. Supervisor!OneGenerationPresents' /\ Supervisor!StopReaches'
      BY <2>1 DEF Supervisor!SupInv, Supervisor!HostHolds, Supervisor!StopReaches
    <2>3. QED
      BY <2>1, <2>2
  <1>2. QED
    BY MediaInvariant, <1>1, PTL DEF SupervisionSound, PartSpec

\* LaunchesAccounted: however launches are cancelled and workers outlive them, the coordinator's slots
\* and the native shares counted are the ones in use, and every frame of an overlay and every call of
\* its provider is counted once (operator_launch, analytics_runtime, analytics_overlay_delivery).
THEOREM LaunchesStayAccounted == PartSpec => []LaunchesAccounted
  <1>1. MediaInv => LaunchesAccounted
    BY LaunchesExact DEF MediaInv, LaunchesAccounted
  <1>2. QED
    BY MediaInvariant, <1>1, PTL
\* WindowsSound: at whichever call the opening, a relayout or a presentation of a generation fails,
\* every window and bitmap that exists is one it holds or one the system refused to destroy, its
\* counters count what was shown, and the image and the blackened regions cover the client area for
\* every frame and area (windows_presentation_surface, windows_presentation_target).
THEOREM WindowsStaySound == PartSpec => []WindowsSound
  <1>1. MediaInv => WindowsSound
    BY DEF MediaInv, WindowsSound, Windows!WinInv
  <1>2. QED
    BY MediaInvariant, <1>1, PTL

\* RecordingsWhole: wherever a recording is interrupted and whichever file operation fails, a segment
\* that was finished stays as it was described, and what a later start recovers are whole segments
\* (operator_recording, framed_recording, file_sink).
THEOREM RecordingsStayWhole == PartSpec => []RecordingsWhole
  <1>1. MediaInv => RecordingsWhole
    BY SegmentsWhole DEF MediaInv, RecordingsWhole
  <1>2. QED
    BY MediaInvariant, <1>1, PTL

\* PlaybackFaithful: for every recording, window and rate, a delivery that completes has handed over
\* the packets of the window in order, also across the wrap of the timestamps; no packet is decoded
\* before its time, a timeout means that much work, and the decoder is not released under a call
\* (playback_timeline, playback_pump, playback_control, gstreamer_playback_decoder).
THEOREM PlaybackStaysFaithful == PartSpec => []PlaybackFaithful
  <1>1. MediaInv => PlaybackFaithful
    BY PlaybackOnTime DEF MediaInv, PlaybackFaithful, Playback!PbInv
  <1>2. QED
    BY MediaInvariant, <1>1, PTL

=============================================================================

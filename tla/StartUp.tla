-------------------------------- MODULE StartUp --------------------------------
(***************************************************************************)
(* A profile from its set-up to the end of the program that serves it: the *)
(* exclusive creation of the identity directory, its admission on every    *)
(* start, the profile lock, and the composition whose parts the lifespan   *)
(* starts and takes down.  Several programs try at once and each may die   *)
(* between any two steps; the system then gives its lock back.  What the   *)
(* close of a part leaves behind is the subject of that part's own module. *)
(***************************************************************************)
EXTENDS Integers, Sequences

CONSTANTS
  Programs,   \* programs that set up or serve the profile, positive numbers
  MaxCrashes  \* programs that die

VARIABLES
  madeBy,    \* the program that made the directory, 0 for none
  db,        \* users.sqlite3: "none", "empty", "ready" (with its administrator)
  manifest,  \* identity.json: "none", "partial", "whole"
  writers,   \* the programs that wrote any of them
  lockFile,  \* the lock file: "none", "empty", "byte"
  holder,    \* who holds the native lock on it, 0 for nobody
  pc,        \* program -> where it is
  open,      \* program -> the parts of its composition that are open
  thread,    \* programs whose capture_person_events thread runs
  crashes    \* programs that died

profile == <<madeBy, db, manifest, writers, lockFile>>
startvars == <<profile, holder, pc, open, thread, crashes>>

StartInit ==
  /\ madeBy = 0 /\ db = "none" /\ manifest = "none" /\ writers = {} /\ lockFile = "none" /\ holder = 0
  /\ pc = [p \in Programs |-> "off"] /\ open = [p \in Programs |-> {}] /\ thread = {} /\ crashes = 0

Goto(p, q) == pc' = [pc EXCEPT ![p] = q]

-----------------------------------------------------------------------------
(* initialize_identity_state.  A step that fails leaves what was written.  *)

Step(p, q, r) == pc[p] = q /\ (Goto(p, r)) /\ UNCHANGED <<holder, open, thread, crashes, lockFile>>
Wrote(p) == writers' = writers \cup {p}
\* validate_new_identity_directory: what exists, whole or not, is not adopted.
Validate(p) == Step(p, "off", IF madeBy = 0 THEN "mkdir" ELSE "refused") /\ UNCHANGED <<madeBy, db, manifest, writers>>
Exclusive == madeBy = 0
ExistsOk == TRUE
NewDirectory == Exclusive
MakeDirectory(p) ==
  IF NewDirectory THEN Step(p, "mkdir", "database") /\ madeBy' = p /\ UNCHANGED <<db, manifest, writers>>
  ELSE Step(p, "mkdir", "refused") /\ UNCHANGED <<madeBy, db, manifest, writers>>
\* O_EXCL; then the registry is built and its administrator written.
MakeDatabase(p) ==
  IF db = "none" THEN Step(p, "database", "administrator") /\ db' = "empty" /\ Wrote(p) /\ UNCHANGED <<madeBy, manifest>>
  ELSE Step(p, "database", "refused") /\ UNCHANGED <<madeBy, db, manifest, writers>>
Administrator(p) == /\ Step(p, "administrator", "manifest") /\ db' = "ready" /\ Wrote(p) /\ UNCHANGED <<madeBy, manifest>>
MakeManifest(p) ==
  IF manifest = "none" THEN Step(p, "manifest", "write") /\ manifest' = "partial" /\ Wrote(p) /\ UNCHANGED <<madeBy, db>>
  ELSE Step(p, "manifest", "refused") /\ UNCHANGED <<madeBy, db, manifest, writers>>
WriteManifest(p) == Step(p, "write", "admit") /\ manifest' = "whole" /\ UNCHANGED <<madeBy, db, writers>>
\* A step of the set-up raises: the profile stays as it is, for diagnosis.
SetupFails(p) == /\ pc[p] \in {"mkdir", "database", "administrator", "manifest", "write"} /\ Goto(p, "refused")
                 /\ UNCHANGED <<profile, holder, open, thread, crashes>>
\* load_identity_state: reads only.
Admissible == madeBy # 0 /\ db = "ready" /\ manifest = "whole"
Admitted(p) == Step(p, "admit", IF Admissible THEN "set up" ELSE "refused") /\ UNCHANGED <<madeBy, db, manifest, writers>>

-----------------------------------------------------------------------------
(* OperatorProfileLock.acquire.                                            *)

Serve(p) == /\ pc[p] \in {"off", "set up"} /\ Goto(p, IF Admissible THEN "lock file" ELSE "refused")
            /\ UNCHANGED <<profile, holder, open, thread, crashes>>
OpenLock(p) ==
  /\ pc[p] = "lock file" /\ Goto(p, "byte") /\ lockFile' = IF lockFile = "none" THEN "empty" ELSE lockFile
  /\ UNCHANGED <<madeBy, db, manifest, writers, holder, open, thread, crashes>>
WriteByte(p) == /\ pc[p] = "byte" /\ Goto(p, "native lock") /\ lockFile' = "byte"
                /\ UNCHANGED <<madeBy, db, manifest, writers, holder, open, thread, crashes>>
Free == holder = 0
LockRefused(p) == /\ pc[p] = "native lock" /\ ~Free /\ Goto(p, "refused")
                  /\ UNCHANGED <<profile, holder, open, thread, crashes>>
NativeLock(p) == /\ pc[p] = "native lock" /\ Free /\ holder' = p /\ Goto(p, "storage")
                 /\ UNCHANGED <<profile, open, thread, crashes>>

-----------------------------------------------------------------------------
(* run_operator_product and the lifespan.                                  *)

\* What the lifespan takes down, in order, and what each step closes.
InOrder == <<"integration", "analytics", "events", "exports", "time", "service", "stores", "lease">>
Order == InOrder
Stopping == {Order[i] : i \in 1..Len(Order)}
After(q) == LET i == CHOOSE j \in 1..Len(Order) : Order[j] = q
            IN IF i = Len(Order) THEN "ended" ELSE Order[i + 1]

\* prepare_operator_recording_storage, under the lease; then the six listeners.
Storage(p) == /\ pc[p] = "storage" /\ Goto(p, "compose") /\ open' = [open EXCEPT ![p] = {"storage"}]
              /\ UNCHANGED <<profile, holder, thread, crashes>>
\* create_operator_product_app: analytics and events are optional; the other
\* stores are not, and one that fails closes those already open.
Compose(p) ==
  /\ pc[p] = "compose" /\ Goto(p, "lifespan")
  /\ \E some \in SUBSET {"analytics", "events"} : open' = [open EXCEPT ![p] = some \cup {"time", "exports", "stores"}]
  /\ UNCHANGED <<profile, holder, thread, crashes>>
\* A failure before the lifespan ends the run with the lease given back.
StartFails(p) == /\ pc[p] \in {"storage", "compose"} /\ Goto(p, "lease") /\ open' = [open EXCEPT ![p] = {}]
                 /\ UNCHANGED <<profile, holder, thread, crashes>>
\* assert_held: the lease is this program's and the identity still admissible.
AssertHeld(p) ==
  /\ pc[p] = "lifespan"
  /\ IF holder = p /\ Admissible THEN Goto(p, "service start") /\ UNCHANGED open
     ELSE Goto(p, "lease") /\ open' = [open EXCEPT ![p] = {}]
  /\ UNCHANGED <<profile, holder, thread, crashes>>
ServiceStarts(p) ==
  /\ pc[p] = "service start" /\ Goto(p, "events start") /\ open' = [open EXCEPT ![p] = @ \cup {"service"}]
  /\ UNCHANGED <<profile, holder, thread, crashes>>
EventsStart(p) == /\ pc[p] = "events start" /\ Goto(p, "serving") /\ UNCHANGED <<profile, holder, open, thread, crashes>>
\* deliver_observations: a thread every two seconds, awaited behind a shield.
Capture(p) == /\ pc[p] = "serving" /\ "events" \in open[p] /\ thread' = thread \cup {p}
              /\ UNCHANGED <<profile, holder, pc, open, crashes>>
CaptureEnds(p) == p \in thread /\ thread' = thread \ {p} /\ UNCHANGED <<profile, holder, pc, open, crashes>>
\* The server ends, on a request to shut down, or a start step fails.
Leave(p) == /\ pc[p] \in {"service start", "events start", "serving"} /\ Goto(p, Order[1])
            /\ UNCHANGED <<profile, holder, open, thread, crashes>>
\* stop_owned: each part in turn, the next one too when a part's close raises.
ThreadDone(p) == p \notin thread
CaptureOver(p) == ThreadDone(p)
StopPart(p) ==
  /\ pc[p] \in Stopping \ {"lease"} /\ (pc[p] = "integration" => CaptureOver(p))
  /\ Goto(p, After(pc[p])) /\ open' = [open EXCEPT ![p] = @ \ {pc[p]}]
  /\ UNCHANGED <<profile, holder, thread, crashes>>
\* profile_lock.close: the descriptor goes, the file is never removed.
CloseLease(p) == /\ pc[p] = "lease" /\ Goto(p, After("lease")) /\ holder' = (IF holder = p THEN 0 ELSE holder)
                 /\ UNCHANGED <<profile, open, thread, crashes>>

Crash(p) ==
  /\ crashes < MaxCrashes /\ crashes' = crashes + 1 /\ pc[p] \notin {"off", "refused", "ended", "dead"} /\ Goto(p, "dead")
  /\ holder' = (IF holder = p THEN 0 ELSE holder) /\ open' = [open EXCEPT ![p] = {}] /\ thread' = thread \ {p}
  /\ UNCHANGED profile

SetUp(p) == \/ Validate(p) \/ MakeDirectory(p) \/ MakeDatabase(p) \/ Administrator(p) \/ MakeManifest(p)
            \/ WriteManifest(p) \/ SetupFails(p) \/ Admitted(p)
Served(p) == \/ Serve(p) \/ OpenLock(p) \/ WriteByte(p) \/ LockRefused(p) \/ NativeLock(p) \/ Storage(p) \/ Compose(p)
             \/ StartFails(p) \/ AssertHeld(p) \/ ServiceStarts(p) \/ EventsStart(p) \/ Capture(p) \/ CaptureEnds(p)
             \/ Leave(p) \/ StopPart(p) \/ CloseLease(p)
StartNext == \E p \in Programs : SetUp(p) \/ Served(p) \/ Crash(p)
StartSpec == StartInit /\ [][StartNext]_startvars

-----------------------------------------------------------------------------
(* Properties.                                                             *)

\* One set-up writes a profile: what an interrupted one left is never taken
\* over by another, so every file of a profile somebody serves comes from the
\* one program that made its directory and finished.
OneInstaller ==
  /\ writers \subseteq {madeBy}
  /\ \A p \in Programs : open[p] # {} => Admissible

\* Nothing of a composition, from the preparation of its storage to the last
\* store closed, and no thread that captures observations, is at work in a
\* program that does not hold the profile lock; so two programs never work on
\* one profile, however often they die and start again.
WorksUnderLease == \A p \in Programs : (open[p] # {} \/ p \in thread) => holder = p
=============================================================================

---------------------------- MODULE ServicesProofs ----------------------------
(***************************************************************************)
(* Theorems about the services of MCServices.  Time administration, the    *)
(* start of the product, the audit log and the integration journal have    *)
(* variables with names, which do not change in the part of a behaviour    *)
(* that is about another component: their invariants are invariants of     *)
(* PartSpec as they stand.  The components that share s1, s2, ... have an  *)
(* invariant of their own part.                                            *)
(***************************************************************************)
EXTENDS MCServices, FiniteSetTheorems, WellFoundedInduction, TLAPS

-----------------------------------------------------------------------------
(* Time administration.                                                    *)

Requests == Writes \cup Reads
\* Where a request is, or its thread, while the mutations lock is its own.
Early == {"lease", "begin", "file"} \cup Time!OnCamera
Late == {"registered", "broker", "verify", "clean"}
Leased == Early \cup Late \cup {"done"}
Stages == Leased \cup {"new", "reading", "over"}

TimeTypes ==
  /\ tpc \in [Requests -> Stages] /\ kind \in [Requests -> {"host", "camera", "clock"}]
  /\ helper \in [Requests -> {"none", "prompt", "acting", "ended"}]
  /\ pending \subseteq Requests /\ reqFile \subseteq Requests /\ revoked \subseteq Requests
\* The request between its admission and its return has the mutations lock, nobody else has.
LeaseInv ==
  /\ mlock \subseteq Writes
  /\ \A r \in Requests : tpc[r] \in Leased => r \in Writes /\ mlock = {r}
\* Only a thread in elevation has a pending admission.  Once that was taken back the request
\* file does not come back: the thread is past the place that writes it.
AdmissionInv ==
  /\ \A r \in pending : tpc[r] \in Late
  /\ \A r \in revoked : tpc[r] \in Late \cup {"done", "over"} /\ r \notin reqFile /\ helper[r] # "acting"
\* A thread verifies the setting its request is about.
KindInv ==
  \A r \in Requests : /\ tpc[r] \in Late => kind[r] = "host"
                      /\ tpc[r] \in Time!OnCamera => kind[r] # "host"
                      /\ tpc[r] \in {"begin", "file"} => kind[r] = "host"
TimeInv == TimeTypes /\ LeaseInv /\ AdmissionInv /\ KindInv

-----------------------------------------------------------------------------
(* Starting the product.                                                   *)

Installing == {"database", "administrator", "manifest", "write"}
\* What is still open when the close of a part is next.
Left(q) ==
  CASE q = "integration" -> {"analytics", "events", "exports", "time", "service", "stores"}
    [] q = "analytics" -> {"analytics", "events", "exports", "time", "service", "stores"}
    [] q = "events" -> {"events", "exports", "time", "service", "stores"}
    [] q = "exports" -> {"exports", "time", "service", "stores"}
    [] q = "time" -> {"time", "service", "stores"}
    [] q = "service" -> {"service", "stores"}
    [] q = "stores" -> {"stores"}
    [] OTHER -> {}
Closing == {"integration", "analytics", "events", "exports", "time", "service", "stores"}
Starting == {"lifespan", "service start", "events start", "serving"}
Holding == Starting \cup Closing \cup {"storage", "compose", "lease"}
Places == Holding \cup Installing
          \cup {"off", "mkdir", "admit", "set up", "lock file", "byte", "native lock", "refused", "ended", "dead"}

StartTypes ==
  /\ pc \in [Programs -> Places] /\ thread \subseteq Programs /\ writers \subseteq Programs
  /\ open \in [Programs -> SUBSET (Left("integration") \cup {"storage"})]
\* The set-up that goes on is the one of the program that made the directory.
InstallInv ==
  /\ writers \subseteq {madeBy}
  /\ \A p \in Programs : pc[p] \in Installing => madeBy = p
\* A program that works on the profile was admitted, and holds the lock until nothing is open.
Keeper(p) ==
  /\ pc[p] \in Holding => holder = p
  /\ pc[p] \in Holding \cup {"lock file", "byte", "native lock"} => Start!Admissible
  /\ p \in thread => pc[p] \in {"serving", "integration"}
Opened(p) ==
  /\ pc[p] = "compose" => open[p] = {"storage"}
  /\ pc[p] \in Starting => open[p] \subseteq Left("integration")
  /\ pc[p] \in Closing => open[p] \subseteq Left(pc[p])
  /\ pc[p] \notin Starting \cup Closing \cup {"compose"} => open[p] = {}
LockInv == \A p \in Programs : Keeper(p) /\ Opened(p)
StartInv == StartTypes /\ InstallInv /\ LockInv

-----------------------------------------------------------------------------
(* The audit log.                                                          *)

OpPlaces == {"free", "attempt", "run", "answered", "finish", "gone"}
Outcomes == {"started", "success", "interrupted"}
LogRow == [id : Nat, prev : Nat, dig : Nat, op : Ops, outcome : Outcomes]
LogState == [anchor : Nat, anchorDig : Nat, last : Nat, lastDig : Nat]
AuditTypes ==
  /\ file \in {"absent", "empty", "ready"}
  /\ state \in LogState
  /\ logRows \subseteq LogRow /\ IsFiniteSet(logRows) /\ serial \in Nat
  /\ op \in [Ops -> OpPlaces] /\ writes \subseteq [op : Ops, outcome : Outcomes]
  /\ \A e \in effects : e.op \in Ops
\* Where the process is says what it knows of the file; a sealed log that is lost stays lost.
ProcessInv ==
  /\ at \in {"seal", "up"} => file = "ready"
  /\ at = "schema" => file = "empty" /\ ~sealed
  /\ at = "create" => (sealed => file # "absent")
  /\ file = "empty" => ~sealed
  /\ at = "up" => sealed
  /\ sealed => born = kept
  /\ \A o \in Ops : op[o] \in {"attempt", "run", "answered", "finish"} => at = "up"
  /\ effects # {} => sealed
\* The attempt of a request that runs, or ran, is in the log or was retained away.
Durable(o) == (\E w \in logRows : w.op = o /\ w.outcome = "started") \/ state.anchor > 0
AttemptInv ==
  /\ \A o \in Ops : op[o] = "run" => Durable(o)
  /\ file = "ready" => \A e \in effects : Durable(e.op)
\* What _verify_chain finds, with the neighbour of a row by its number.
Linked(rs, s) ==
  /\ \A x, y \in rs : x.id = y.id => x = y
  /\ {x.id : x \in rs} = (s.anchor + 1)..s.last
  /\ Cardinality(rs) = s.last - s.anchor
  /\ s.anchor <= s.last /\ s.last - s.anchor <= AuditRows
  /\ s.last > 0 => s.last > s.anchor
  /\ \A x \in rs : \/ x.id = s.anchor + 1 /\ x.prev = s.anchorDig
                  \/ \E y \in rs : y.id = x.id - 1 /\ x.prev = y.dig
  /\ \/ rs = {} /\ s.lastDig = s.anchorDig
     \/ \E y \in rs : y.id = s.last /\ s.lastDig = y.dig
ChainInv == file = "ready" => Linked(logRows, state)
\* A process that lost an outcome has failed.
LossInv ==
  /\ at = "up" => (lostEnd => failed)
  /\ at \in {"create", "schema", "verify", "seal"} => ~lostEnd
AuditInv == AuditTypes /\ ProcessInv /\ AttemptInv /\ ChainInv /\ LossInv

-----------------------------------------------------------------------------
(* Proofs: time administration.                                            *)

\* Nobody has asked for anything.
LEMMA TimeInvInit == PartInit => TimeInv
  BY DEF PartInit, Time!TmInit, Time!All, Requests, TimeInv, TimeTypes, LeaseInv, AdmissionInv,
         KindInv, Early, Late, Leased, Stages, Time!OnCamera

\* Every step of a request, its thread, the broker, the prompt and the helper keeps it.
LEMMA TimeInvStep == TimeInv /\ Time!TmNext => TimeInv'
  <1> SUFFICES ASSUME TimeInv, Time!TmNext PROVE TimeInv'
    OBVIOUS
  <1> USE DEF TimeInv, TimeTypes, LeaseInv, AdmissionInv, KindInv, Early, Late, Leased, Stages,
              Requests, Time!OnCamera, Time!All, Time!Goto, Time!tmfiles, Time!tmworld
  <1>1. ASSUME NEW r \in Writes, NEW k \in {"host", "camera", "clock"}, Time!Acquire(r, k) PROVE TimeInv'
    BY <1>1 DEF Time!Acquire
  <1>2. ASSUME NEW r \in Requests, Time!HostCall(r) PROVE TimeInv'
    BY <1>2 DEF Time!HostCall
  <1>3. ASSUME NEW r \in Requests, Time!HostRead(r) PROVE TimeInv'
    BY <1>3 DEF Time!HostRead
  <1>4. ASSUME NEW r \in Requests, Time!Return(r) PROVE TimeInv'
    BY <1>4 DEF Time!Return
  <1>5. ASSUME NEW r \in Requests, Time!CancelRequest(r) PROVE TimeInv'
    BY <1>5 DEF Time!CancelRequest, Time!LeaseWaits, Time!CancelCurrent, Time!Unlinked,
       Time!TakenBack, Time!InThread
  <1>6. ASSUME NEW r \in Requests, Time!Prepare(r) PROVE TimeInv'
    BY <1>6 DEF Time!Prepare
  <1>7. ASSUME NEW r \in Requests, Time!Register(r) PROVE TimeInv'
    BY <1>7 DEF Time!Register
  <1>8. ASSUME NEW r \in Requests, Time!Launch(r) PROVE TimeInv'
    BY <1>8 DEF Time!Launch
  <1>9. ASSUME NEW r \in Requests, Time!BrokerReturns(r) PROVE TimeInv'
    BY <1>9 DEF Time!BrokerReturns
  <1>10. ASSUME NEW r \in Requests, Time!BrokerFails(r) PROVE TimeInv'
    BY <1>10 DEF Time!BrokerFails
  <1>11. ASSUME NEW r \in Requests, Time!Verify(r) PROVE TimeInv'
    BY <1>11 DEF Time!Verify, Time!Verified
  <1>12. ASSUME NEW r \in Requests, Time!Clean(r) PROVE TimeInv'
    BY <1>12 DEF Time!Clean
  <1>13. ASSUME NEW r \in Requests, Time!Accepted(r) PROVE TimeInv'
    BY <1>13 DEF Time!Accepted
  <1>14. ASSUME NEW r \in Requests, Time!Declined(r) PROVE TimeInv'
    BY <1>14 DEF Time!Declined
  <1>15. ASSUME NEW r \in Requests, Time!HelperActs(r) PROVE TimeInv'
    BY <1>15 DEF Time!HelperActs
  <1>16. ASSUME NEW r \in Requests, Time!HelperEnds(r) PROVE TimeInv'
    BY <1>16 DEF Time!HelperEnds
  <1>17. ASSUME NEW r \in Requests, Time!CameraCall(r) PROVE TimeInv'
    BY <1>17 DEF Time!CameraCall
  <1>18. ASSUME NEW r \in Requests, Time!SetNtp(r) PROVE TimeInv'
    BY <1>18 DEF Time!SetNtp
  <1>19. ASSUME NEW r \in Requests, Time!SetMode(r) PROVE TimeInv'
    BY <1>19 DEF Time!SetMode
  <1>20. ASSUME NEW r \in Requests, Time!SetClock(r) PROVE TimeInv'
    BY <1>20 DEF Time!SetClock
  <1>21. ASSUME NEW r \in Requests, Time!CameraFails(r) PROVE TimeInv'
    BY <1>21 DEF Time!CameraFails
  <1>22. ASSUME NEW r \in Requests, Time!CameraForgets(r) PROVE TimeInv'
    BY <1>22 DEF Time!CameraForgets
  <1>23. ASSUME NEW r \in Requests, Time!CameraVerify(r) PROVE TimeInv'
    BY <1>23 DEF Time!CameraVerify
  <1>24. ASSUME Time!CloseService PROVE TimeInv'
    BY <1>24 DEF Time!CloseService, Time!CancelCurrent, Time!Unlinked, Time!TakenBack
  <1>25. QED
    BY <1>1, <1>2, <1>3, <1>4, <1>5, <1>6, <1>7, <1>8, <1>9, <1>10, <1>11, <1>12, <1>13, <1>14,
       <1>15, <1>16, <1>17, <1>18, <1>19, <1>20, <1>21, <1>22, <1>23, <1>24 DEF Time!TmNext

-----------------------------------------------------------------------------
(* Proofs: starting the product.                                           *)

\* A new profile.
LEMMA StartInvInit == PartInit => StartInv
  BY DEF PartInit, Start!StartInit, StartInv, StartTypes, InstallInv, LockInv, Keeper, Opened,
     Places, Holding, Starting,
         Closing, Installing

\* The lifespan takes its parts down in the order of Left.
LEMMA StopOrder ==
  /\ Start!Order[1] = "integration"
  /\ Start!Stopping = Closing \cup {"lease"}
  /\ Start!After("lease") = "ended"
  /\ \A q \in Closing : /\ Start!After(q) \in Closing \cup {"lease"}
                         /\ Left(q) \ {q} \subseteq Left(Start!After(q))
                         /\ Start!After(q) # "integration"
  <1> DEFINE o == Start!InOrder
  <1>1. /\ Len(o) = 8 /\ o[1] = "integration" /\ o[2] = "analytics" /\ o[3] = "events" /\ o[4] = "exports"
        /\ o[5] = "time" /\ o[6] = "service" /\ o[7] = "stores" /\ o[8] = "lease"
    BY DEF Start!InOrder
  <1>2. Start!Order = o
    BY DEF Start!Order
  <1>3. Start!After("lease") = "ended"
    <2>1. \A j \in 1..8 : o[j] = "lease" <=> j = 8
      BY <1>1
    <2>2. (CHOOSE j \in 1..Len(Start!Order) : Start!Order[j] = "lease") = 8
      BY <1>1, <1>2, <2>1
    <2>3. QED
      BY <1>1, <1>2, <2>2 DEF Start!After
  <1>4. Start!After("integration") = "analytics"
    <2>1. \A j \in 1..8 : o[j] = "integration" <=> j = 1
      BY <1>1
    <2>2. (CHOOSE j \in 1..Len(Start!Order) : Start!Order[j] = "integration") = 1
      BY <1>1, <1>2, <2>1
    <2>3. \A i : i = 1 => (IF i = Len(Start!Order) THEN "ended" ELSE Start!Order[i + 1]) = "analytics"
      BY <1>1, <1>2
    <2>4. QED
      BY <2>2, <2>3, Zenon DEF Start!After
  <1>5. Start!After("analytics") = "events"
    <2>1. \A j \in 1..8 : o[j] = "analytics" <=> j = 2
      BY <1>1
    <2>2. (CHOOSE j \in 1..Len(Start!Order) : Start!Order[j] = "analytics") = 2
      BY <1>1, <1>2, <2>1
    <2>3. \A i : i = 2 => (IF i = Len(Start!Order) THEN "ended" ELSE Start!Order[i + 1]) = "events"
      BY <1>1, <1>2
    <2>4. QED
      BY <2>2, <2>3, Zenon DEF Start!After
  <1>6. Start!After("events") = "exports"
    <2>1. \A j \in 1..8 : o[j] = "events" <=> j = 3
      BY <1>1
    <2>2. (CHOOSE j \in 1..Len(Start!Order) : Start!Order[j] = "events") = 3
      BY <1>1, <1>2, <2>1
    <2>3. \A i : i = 3 => (IF i = Len(Start!Order) THEN "ended" ELSE Start!Order[i + 1]) = "exports"
      BY <1>1, <1>2
    <2>4. QED
      BY <2>2, <2>3, Zenon DEF Start!After
  <1>7. Start!After("exports") = "time"
    <2>1. \A j \in 1..8 : o[j] = "exports" <=> j = 4
      BY <1>1
    <2>2. (CHOOSE j \in 1..Len(Start!Order) : Start!Order[j] = "exports") = 4
      BY <1>1, <1>2, <2>1
    <2>3. \A i : i = 4 => (IF i = Len(Start!Order) THEN "ended" ELSE Start!Order[i + 1]) = "time"
      BY <1>1, <1>2
    <2>4. QED
      BY <2>2, <2>3, Zenon DEF Start!After
  <1>8. Start!After("time") = "service"
    <2>1. \A j \in 1..8 : o[j] = "time" <=> j = 5
      BY <1>1
    <2>2. (CHOOSE j \in 1..Len(Start!Order) : Start!Order[j] = "time") = 5
      BY <1>1, <1>2, <2>1
    <2>3. \A i : i = 5 => (IF i = Len(Start!Order) THEN "ended" ELSE Start!Order[i + 1]) = "service"
      BY <1>1, <1>2
    <2>4. QED
      BY <2>2, <2>3, Zenon DEF Start!After
  <1>9. Start!After("service") = "stores"
    <2>1. \A j \in 1..8 : o[j] = "service" <=> j = 6
      BY <1>1
    <2>2. (CHOOSE j \in 1..Len(Start!Order) : Start!Order[j] = "service") = 6
      BY <1>1, <1>2, <2>1
    <2>3. \A i : i = 6 => (IF i = Len(Start!Order) THEN "ended" ELSE Start!Order[i + 1]) = "stores"
      BY <1>1, <1>2
    <2>4. QED
      BY <2>2, <2>3, Zenon DEF Start!After
  <1>10. Start!After("stores") = "lease"
    <2>1. \A j \in 1..8 : o[j] = "stores" <=> j = 7
      BY <1>1
    <2>2. (CHOOSE j \in 1..Len(Start!Order) : Start!Order[j] = "stores") = 7
      BY <1>1, <1>2, <2>1
    <2>3. \A i : i = 7 => (IF i = Len(Start!Order) THEN "ended" ELSE Start!Order[i + 1]) = "lease"
      BY <1>1, <1>2
    <2>4. QED
      BY <2>2, <2>3, Zenon DEF Start!After
  <1>11. Start!Stopping = Closing \cup {"lease"}
    <2>1. Start!Stopping = {o[i] : i \in 1..8}
      BY <1>1, <1>2 DEF Start!Stopping
    <2>2. 1..8 = {1, 2, 3, 4, 5, 6, 7, 8}
      OBVIOUS
    <2>3. QED
      BY <1>1, <2>1, <2>2 DEF Closing
  <1>12. QED
    BY <1>1, <1>2, <1>3, <1>4, <1>5, <1>6, <1>7, <1>8, <1>9, <1>10, <1>11 DEF Closing, Left

\* What a part leaves open is some of what the composition opened.
LEMMA LeftIsPart ==
  /\ Left("integration") = {"analytics", "events", "exports", "time", "service", "stores"}
  /\ \A q \in Closing : Left(q) \subseteq Left("integration")
  /\ Left("lease") = {}
  BY DEF Left, Closing

\* A step of one program, or its death, leaves the others as they were.
LEMMA OthersKeep ==
  ASSUME NEW p \in Programs, LockInv, Start!Admissible => Start!Admissible',
         \A q \in Programs \ {p} : /\ pc'[q] = pc[q] /\ open'[q] = open[q] /\ (q \in thread' => q \in thread)
                                   /\ (holder = q => holder' = q),
         Keeper(p)', Opened(p)'
  PROVE  LockInv'
  <1>1. ASSUME NEW q \in Programs \ {p} PROVE Keeper(q)' /\ Opened(q)'
    BY <1>1 DEF LockInv, Keeper, Opened
  <1>2. QED
    BY <1>1 DEF LockInv

\* Every step of a program, and its death, keeps the invariant.
LEMMA StartInvStep == StartInv /\ Start!StartNext => StartInv'
  <1> SUFFICES ASSUME StartInv, NEW p \in Programs, Start!SetUp(p) \/ Start!Served(p) \/ Start!Crash(p)
               PROVE StartInv'
    BY DEF Start!StartNext
  <1>a. 0 \notin Programs
    BY ServicesAssumption
  <1> USE <1>a DEF StartInv, Start!Goto, Start!profile
  <1>0. Keeper(p) /\ Opened(p)
    BY DEF LockInv
  <1>1. ASSUME Start!Validate(p) PROVE StartInv'
    <2>1. StartTypes'
      BY <1>1 DEF StartTypes, Places, Holding, Installing, Starting, Closing, Start!Validate,
         Start!Step
    <2>2. InstallInv'
      BY <1>1 DEF InstallInv, StartTypes, Places, Holding, Installing, Starting, Closing,
         Start!Validate, Start!Step
    <2>3. Start!Admissible => Start!Admissible'
      BY <1>1 DEF Start!Admissible, Start!Validate, Start!Step
    <2>4. Keeper(p)'
      BY <1>0, <1>1, <2>3 DEF Keeper, StartTypes, Places, Holding, Installing, Starting, Closing,
         Start!Validate, Start!Step
    <2>5. Opened(p)'
      BY <1>0, <1>1 DEF Opened, StartTypes, Places, Holding, Installing, Starting, Closing,
         Start!Validate, Start!Step
    <2>6. QED
      BY <1>1, <2>1, <2>2, <2>3, <2>4, <2>5, OthersKeep DEF StartTypes, Start!Validate, Start!Step
  <1>2. ASSUME Start!MakeDirectory(p) PROVE StartInv'
    <2>1. StartTypes'
      BY <1>2 DEF StartTypes, Places, Holding, Installing, Starting, Closing, Start!MakeDirectory,
         Start!Step, Start!NewDirectory, Start!Exclusive
    <2>2. InstallInv'
      <3>1. CASE madeBy # 0
        BY <1>2, <3>1 DEF InstallInv, StartTypes, Installing, Start!MakeDirectory, Start!Step,
           Start!NewDirectory, Start!Exclusive
      <3>2. CASE madeBy = 0
        <4>1. writers = {} /\ \A q \in Programs : pc[q] \notin Installing
          BY <3>2 DEF InstallInv, StartTypes
        <4>2. writers' = {} /\ madeBy' = p /\ \A q \in Programs \ {p} : pc'[q] = pc[q]
          BY <1>2, <3>2, <4>1 DEF StartTypes, Start!MakeDirectory, Start!Step, Start!NewDirectory,
             Start!Exclusive
        <4>3. QED
          BY <4>1, <4>2 DEF InstallInv
      <3>3. QED
        BY <3>1, <3>2
    <2>3. Start!Admissible => Start!Admissible'
      BY <1>2 DEF Start!Admissible, Start!MakeDirectory, Start!Step, Start!NewDirectory,
         Start!Exclusive
    <2>4. Keeper(p)'
      BY <1>0, <1>2, <2>3 DEF Keeper, StartTypes, Places, Holding, Installing, Starting, Closing,
         Start!MakeDirectory, Start!Step, Start!NewDirectory, Start!Exclusive
    <2>5. Opened(p)'
      BY <1>0, <1>2 DEF Opened, StartTypes, Places, Holding, Installing, Starting, Closing,
         Start!MakeDirectory, Start!Step, Start!NewDirectory, Start!Exclusive
    <2>6. QED
      BY <1>2, <2>1, <2>2, <2>3, <2>4, <2>5, OthersKeep DEF StartTypes, Start!MakeDirectory,
         Start!Step, Start!NewDirectory, Start!Exclusive
  <1>3. ASSUME Start!MakeDatabase(p) PROVE StartInv'
    <2>1. StartTypes'
      BY <1>3 DEF StartTypes, Places, Holding, Installing, Starting, Closing, Start!MakeDatabase,
         Start!Step, Start!Wrote
    <2>2. InstallInv'
      BY <1>3 DEF InstallInv, StartTypes, Places, Holding, Installing, Starting, Closing,
         Start!MakeDatabase, Start!Step, Start!Wrote
    <2>3. Start!Admissible => Start!Admissible'
      BY <1>3 DEF Start!Admissible, Start!MakeDatabase, Start!Step, Start!Wrote
    <2>4. Keeper(p)'
      BY <1>0, <1>3, <2>3 DEF Keeper, StartTypes, Places, Holding, Installing, Starting, Closing,
         Start!MakeDatabase, Start!Step, Start!Wrote
    <2>5. Opened(p)'
      BY <1>0, <1>3 DEF Opened, StartTypes, Places, Holding, Installing, Starting, Closing,
         Start!MakeDatabase, Start!Step, Start!Wrote
    <2>6. QED
      BY <1>3, <2>1, <2>2, <2>3, <2>4, <2>5, OthersKeep DEF StartTypes, Start!MakeDatabase,
         Start!Step, Start!Wrote
  <1>4. ASSUME Start!Administrator(p) PROVE StartInv'
    <2>1. StartTypes'
      BY <1>4 DEF StartTypes, Places, Holding, Installing, Starting, Closing, Start!Administrator,
         Start!Step, Start!Wrote
    <2>2. InstallInv'
      BY <1>4 DEF InstallInv, StartTypes, Places, Holding, Installing, Starting, Closing,
         Start!Administrator, Start!Step, Start!Wrote
    <2>3. Start!Admissible => Start!Admissible'
      BY <1>4 DEF Start!Admissible, Start!Administrator, Start!Step, Start!Wrote
    <2>4. Keeper(p)'
      BY <1>0, <1>4, <2>3 DEF Keeper, StartTypes, Places, Holding, Installing, Starting, Closing,
         Start!Administrator, Start!Step, Start!Wrote
    <2>5. Opened(p)'
      BY <1>0, <1>4 DEF Opened, StartTypes, Places, Holding, Installing, Starting, Closing,
         Start!Administrator, Start!Step, Start!Wrote
    <2>6. QED
      BY <1>4, <2>1, <2>2, <2>3, <2>4, <2>5, OthersKeep DEF StartTypes, Start!Administrator,
         Start!Step, Start!Wrote
  <1>5. ASSUME Start!MakeManifest(p) PROVE StartInv'
    <2>1. StartTypes'
      BY <1>5 DEF StartTypes, Places, Holding, Installing, Starting, Closing, Start!MakeManifest,
         Start!Step, Start!Wrote
    <2>2. InstallInv'
      BY <1>5 DEF InstallInv, StartTypes, Places, Holding, Installing, Starting, Closing,
         Start!MakeManifest, Start!Step, Start!Wrote
    <2>3. Start!Admissible => Start!Admissible'
      BY <1>5 DEF Start!Admissible, Start!MakeManifest, Start!Step, Start!Wrote
    <2>4. Keeper(p)'
      BY <1>0, <1>5, <2>3 DEF Keeper, StartTypes, Places, Holding, Installing, Starting, Closing,
         Start!MakeManifest, Start!Step, Start!Wrote
    <2>5. Opened(p)'
      BY <1>0, <1>5 DEF Opened, StartTypes, Places, Holding, Installing, Starting, Closing,
         Start!MakeManifest, Start!Step, Start!Wrote
    <2>6. QED
      BY <1>5, <2>1, <2>2, <2>3, <2>4, <2>5, OthersKeep DEF StartTypes, Start!MakeManifest,
         Start!Step, Start!Wrote
  <1>6. ASSUME Start!WriteManifest(p) PROVE StartInv'
    <2>1. StartTypes'
      BY <1>6 DEF StartTypes, Places, Holding, Installing, Starting, Closing, Start!WriteManifest,
         Start!Step
    <2>2. InstallInv'
      BY <1>6 DEF InstallInv, StartTypes, Places, Holding, Installing, Starting, Closing,
         Start!WriteManifest, Start!Step
    <2>3. Start!Admissible => Start!Admissible'
      BY <1>6 DEF Start!Admissible, Start!WriteManifest, Start!Step
    <2>4. Keeper(p)'
      BY <1>0, <1>6, <2>3 DEF Keeper, StartTypes, Places, Holding, Installing, Starting, Closing,
         Start!WriteManifest, Start!Step
    <2>5. Opened(p)'
      BY <1>0, <1>6 DEF Opened, StartTypes, Places, Holding, Installing, Starting, Closing,
         Start!WriteManifest, Start!Step
    <2>6. QED
      BY <1>6, <2>1, <2>2, <2>3, <2>4, <2>5, OthersKeep DEF StartTypes, Start!WriteManifest,
         Start!Step
  <1>7. ASSUME Start!SetupFails(p) PROVE StartInv'
    <2>1. StartTypes'
      BY <1>7 DEF StartTypes, Places, Holding, Installing, Starting, Closing, Start!SetupFails
    <2>2. InstallInv'
      BY <1>7 DEF InstallInv, StartTypes, Places, Holding, Installing, Starting, Closing,
         Start!SetupFails
    <2>3. Start!Admissible => Start!Admissible'
      BY <1>7 DEF Start!Admissible, Start!SetupFails
    <2>4. Keeper(p)'
      BY <1>0, <1>7, <2>3 DEF Keeper, StartTypes, Places, Holding, Installing, Starting, Closing,
         Start!SetupFails
    <2>5. Opened(p)'
      BY <1>0, <1>7 DEF Opened, StartTypes, Places, Holding, Installing, Starting, Closing,
         Start!SetupFails
    <2>6. QED
      BY <1>7, <2>1, <2>2, <2>3, <2>4, <2>5, OthersKeep DEF StartTypes, Start!SetupFails
  <1>8. ASSUME Start!Admitted(p) PROVE StartInv'
    <2>1. StartTypes'
      BY <1>8 DEF StartTypes, Places, Holding, Installing, Starting, Closing, Start!Admitted,
         Start!Step
    <2>2. InstallInv'
      BY <1>8 DEF InstallInv, StartTypes, Places, Holding, Installing, Starting, Closing,
         Start!Admitted, Start!Step
    <2>3. Start!Admissible => Start!Admissible'
      BY <1>8 DEF Start!Admissible, Start!Admitted, Start!Step
    <2>4. Keeper(p)'
      BY <1>0, <1>8, <2>3 DEF Keeper, StartTypes, Places, Holding, Installing, Starting, Closing,
         Start!Admitted, Start!Step
    <2>5. Opened(p)'
      BY <1>0, <1>8 DEF Opened, StartTypes, Places, Holding, Installing, Starting, Closing,
         Start!Admitted, Start!Step
    <2>6. QED
      BY <1>8, <2>1, <2>2, <2>3, <2>4, <2>5, OthersKeep DEF StartTypes, Start!Admitted, Start!Step
  <1>9. ASSUME Start!Serve(p) PROVE StartInv'
    <2>1. StartTypes'
      BY <1>9 DEF StartTypes, Places, Holding, Installing, Starting, Closing, Start!Serve
    <2>2. InstallInv'
      BY <1>9 DEF InstallInv, StartTypes, Places, Holding, Installing, Starting, Closing,
         Start!Serve
    <2>3. Start!Admissible => Start!Admissible'
      BY <1>9 DEF Start!Admissible, Start!Serve
    <2>4. Keeper(p)'
      BY <1>0, <1>9, <2>3 DEF Keeper, StartTypes, Places, Holding, Installing, Starting, Closing,
         Start!Serve
    <2>5. Opened(p)'
      BY <1>0, <1>9 DEF Opened, StartTypes, Places, Holding, Installing, Starting, Closing,
         Start!Serve
    <2>6. QED
      BY <1>9, <2>1, <2>2, <2>3, <2>4, <2>5, OthersKeep DEF StartTypes, Start!Serve
  <1>10. ASSUME Start!OpenLock(p) PROVE StartInv'
    <2>1. StartTypes'
      BY <1>10 DEF StartTypes, Places, Holding, Installing, Starting, Closing, Start!OpenLock
    <2>2. InstallInv'
      BY <1>10 DEF InstallInv, StartTypes, Places, Holding, Installing, Starting, Closing,
         Start!OpenLock
    <2>3. Start!Admissible => Start!Admissible'
      BY <1>10 DEF Start!Admissible, Start!OpenLock
    <2>4. Keeper(p)'
      BY <1>0, <1>10, <2>3 DEF Keeper, StartTypes, Places, Holding, Installing, Starting, Closing,
         Start!OpenLock
    <2>5. Opened(p)'
      BY <1>0, <1>10 DEF Opened, StartTypes, Places, Holding, Installing, Starting, Closing,
         Start!OpenLock
    <2>6. QED
      BY <1>10, <2>1, <2>2, <2>3, <2>4, <2>5, OthersKeep DEF StartTypes, Start!OpenLock
  <1>11. ASSUME Start!WriteByte(p) PROVE StartInv'
    <2>1. StartTypes'
      BY <1>11 DEF StartTypes, Places, Holding, Installing, Starting, Closing, Start!WriteByte
    <2>2. InstallInv'
      BY <1>11 DEF InstallInv, StartTypes, Places, Holding, Installing, Starting, Closing,
         Start!WriteByte
    <2>3. Start!Admissible => Start!Admissible'
      BY <1>11 DEF Start!Admissible, Start!WriteByte
    <2>4. Keeper(p)'
      BY <1>0, <1>11, <2>3 DEF Keeper, StartTypes, Places, Holding, Installing, Starting, Closing,
         Start!WriteByte
    <2>5. Opened(p)'
      BY <1>0, <1>11 DEF Opened, StartTypes, Places, Holding, Installing, Starting, Closing,
         Start!WriteByte
    <2>6. QED
      BY <1>11, <2>1, <2>2, <2>3, <2>4, <2>5, OthersKeep DEF StartTypes, Start!WriteByte
  <1>12. ASSUME Start!LockRefused(p) PROVE StartInv'
    <2>1. StartTypes'
      BY <1>12 DEF StartTypes, Places, Holding, Installing, Starting, Closing, Start!LockRefused
    <2>2. InstallInv'
      BY <1>12 DEF InstallInv, StartTypes, Places, Holding, Installing, Starting, Closing,
         Start!LockRefused
    <2>3. Start!Admissible => Start!Admissible'
      BY <1>12 DEF Start!Admissible, Start!LockRefused
    <2>4. Keeper(p)'
      BY <1>0, <1>12, <2>3 DEF Keeper, StartTypes, Places, Holding, Installing, Starting, Closing,
         Start!LockRefused
    <2>5. Opened(p)'
      BY <1>0, <1>12 DEF Opened, StartTypes, Places, Holding, Installing, Starting, Closing,
         Start!LockRefused
    <2>6. QED
      BY <1>12, <2>1, <2>2, <2>3, <2>4, <2>5, OthersKeep DEF StartTypes, Start!LockRefused
  <1>13. ASSUME Start!NativeLock(p) PROVE StartInv'
    <2>1. StartTypes'
      BY <1>13 DEF StartTypes, Places, Holding, Installing, Starting, Closing, Start!NativeLock,
         Start!Free
    <2>2. InstallInv'
      BY <1>13 DEF InstallInv, StartTypes, Places, Holding, Installing, Starting, Closing,
         Start!NativeLock, Start!Free
    <2>3. Start!Admissible => Start!Admissible'
      BY <1>13 DEF Start!Admissible, Start!NativeLock, Start!Free
    <2>4. Keeper(p)'
      BY <1>0, <1>13, <2>3 DEF Keeper, StartTypes, Places, Holding, Installing, Starting, Closing,
         Start!NativeLock, Start!Free
    <2>5. Opened(p)'
      BY <1>0, <1>13 DEF Opened, StartTypes, Places, Holding, Installing, Starting, Closing,
         Start!NativeLock, Start!Free
    <2>6. QED
      BY <1>13, <2>1, <2>2, <2>3, <2>4, <2>5, OthersKeep DEF StartTypes, Start!NativeLock,
         Start!Free
  <1>14. ASSUME Start!Storage(p) PROVE StartInv'
    <2>1. StartTypes'
      BY <1>14, LeftIsPart DEF StartTypes, Places, Holding, Installing, Starting, Closing,
         Start!Storage
    <2>2. InstallInv'
      BY <1>14 DEF InstallInv, StartTypes, Places, Holding, Installing, Starting, Closing,
         Start!Storage
    <2>3. Start!Admissible => Start!Admissible'
      BY <1>14 DEF Start!Admissible, Start!Storage
    <2>4. Keeper(p)'
      BY <1>0, <1>14, <2>3 DEF Keeper, StartTypes, Places, Holding, Installing, Starting, Closing,
         Start!Storage
    <2>5. Opened(p)'
      BY <1>0, <1>14, LeftIsPart DEF Opened, StartTypes, Places, Holding, Installing, Starting,
         Closing, Start!Storage
    <2>6. QED
      BY <1>14, <2>1, <2>2, <2>3, <2>4, <2>5, OthersKeep DEF StartTypes, Start!Storage
  <1>15. ASSUME Start!Compose(p) PROVE StartInv'
    <2>0. PICK some \in SUBSET {"analytics", "events"} :
               open' = [open EXCEPT ![p] = some \cup {"time", "exports", "stores"}]
      BY <1>15 DEF Start!Compose
    <2>00. some \cup {"time", "exports", "stores"} \subseteq Left("integration")
      BY LeftIsPart
    <2>1. StartTypes'
      BY <2>0, <2>00, <1>15, LeftIsPart DEF StartTypes, Places, Holding, Installing, Starting,
         Closing, Start!Compose
    <2>2. InstallInv'
      BY <1>15 DEF InstallInv, StartTypes, Places, Holding, Installing, Starting, Closing,
         Start!Compose
    <2>3. Start!Admissible => Start!Admissible'
      BY <1>15 DEF Start!Admissible, Start!Compose
    <2>4. Keeper(p)'
      BY <1>0, <1>15, <2>3 DEF Keeper, StartTypes, Places, Holding, Installing, Starting, Closing,
         Start!Compose
    <2>5. Opened(p)'
      BY <2>0, <2>00, <1>0, <1>15, LeftIsPart DEF Opened, StartTypes, Places, Holding, Installing,
         Starting, Closing, Start!Compose
    <2>6. QED
      BY <1>15, <2>1, <2>2, <2>3, <2>4, <2>5, OthersKeep DEF StartTypes, Start!Compose
  <1>16. ASSUME Start!StartFails(p) PROVE StartInv'
    <2>1. StartTypes'
      BY <1>16 DEF StartTypes, Places, Holding, Installing, Starting, Closing, Start!StartFails
    <2>2. InstallInv'
      BY <1>16 DEF InstallInv, StartTypes, Places, Holding, Installing, Starting, Closing,
         Start!StartFails
    <2>3. Start!Admissible => Start!Admissible'
      BY <1>16 DEF Start!Admissible, Start!StartFails
    <2>4. Keeper(p)'
      BY <1>0, <1>16, <2>3 DEF Keeper, StartTypes, Places, Holding, Installing, Starting, Closing,
         Start!StartFails
    <2>5. Opened(p)'
      BY <1>0, <1>16 DEF Opened, StartTypes, Places, Holding, Installing, Starting, Closing,
         Start!StartFails
    <2>6. QED
      BY <1>16, <2>1, <2>2, <2>3, <2>4, <2>5, OthersKeep DEF StartTypes, Start!StartFails
  <1>17. ASSUME Start!AssertHeld(p) PROVE StartInv'
    <2>1. StartTypes'
      BY <1>17 DEF StartTypes, Places, Holding, Installing, Starting, Closing, Start!AssertHeld
    <2>2. InstallInv'
      BY <1>17 DEF InstallInv, StartTypes, Places, Holding, Installing, Starting, Closing,
         Start!AssertHeld
    <2>3. Start!Admissible => Start!Admissible'
      BY <1>17 DEF Start!Admissible, Start!AssertHeld
    <2>4. Keeper(p)'
      BY <1>0, <1>17, <2>3 DEF Keeper, StartTypes, Places, Holding, Installing, Starting, Closing,
         Start!AssertHeld
    <2>5. Opened(p)'
      BY <1>0, <1>17 DEF Opened, StartTypes, Places, Holding, Installing, Starting, Closing,
         Start!AssertHeld
    <2>6. QED
      BY <1>17, <2>1, <2>2, <2>3, <2>4, <2>5, OthersKeep DEF StartTypes, Start!AssertHeld
  <1>18. ASSUME Start!ServiceStarts(p) PROVE StartInv'
    <2>1. StartTypes'
      BY <1>18, LeftIsPart DEF StartTypes, Places, Holding, Installing, Starting, Closing,
         Start!ServiceStarts
    <2>2. InstallInv'
      BY <1>18 DEF InstallInv, StartTypes, Places, Holding, Installing, Starting, Closing,
         Start!ServiceStarts
    <2>3. Start!Admissible => Start!Admissible'
      BY <1>18 DEF Start!Admissible, Start!ServiceStarts
    <2>4. Keeper(p)'
      BY <1>0, <1>18, <2>3 DEF Keeper, StartTypes, Places, Holding, Installing, Starting, Closing,
         Start!ServiceStarts
    <2>5. Opened(p)'
      BY <1>0, <1>18, LeftIsPart DEF Opened, StartTypes, Places, Holding, Installing, Starting,
         Closing, Start!ServiceStarts
    <2>6. QED
      BY <1>18, <2>1, <2>2, <2>3, <2>4, <2>5, OthersKeep DEF StartTypes, Start!ServiceStarts
  <1>19. ASSUME Start!EventsStart(p) PROVE StartInv'
    <2>1. StartTypes'
      BY <1>19 DEF StartTypes, Places, Holding, Installing, Starting, Closing, Start!EventsStart
    <2>2. InstallInv'
      BY <1>19 DEF InstallInv, StartTypes, Places, Holding, Installing, Starting, Closing,
         Start!EventsStart
    <2>3. Start!Admissible => Start!Admissible'
      BY <1>19 DEF Start!Admissible, Start!EventsStart
    <2>4. Keeper(p)'
      BY <1>0, <1>19, <2>3 DEF Keeper, StartTypes, Places, Holding, Installing, Starting, Closing,
         Start!EventsStart
    <2>5. Opened(p)'
      BY <1>0, <1>19 DEF Opened, StartTypes, Places, Holding, Installing, Starting, Closing,
         Start!EventsStart
    <2>6. QED
      BY <1>19, <2>1, <2>2, <2>3, <2>4, <2>5, OthersKeep DEF StartTypes, Start!EventsStart
  <1>20. ASSUME Start!Capture(p) PROVE StartInv'
    <2>1. StartTypes'
      BY <1>20 DEF StartTypes, Places, Holding, Installing, Starting, Closing, Start!Capture
    <2>2. InstallInv'
      BY <1>20 DEF InstallInv, StartTypes, Places, Holding, Installing, Starting, Closing,
         Start!Capture
    <2>3. Start!Admissible => Start!Admissible'
      BY <1>20 DEF Start!Admissible, Start!Capture
    <2>4. Keeper(p)'
      BY <1>0, <1>20, <2>3 DEF Keeper, StartTypes, Places, Holding, Installing, Starting, Closing,
         Start!Capture
    <2>5. Opened(p)'
      BY <1>0, <1>20 DEF Opened, StartTypes, Places, Holding, Installing, Starting, Closing,
         Start!Capture
    <2>6. QED
      BY <1>20, <2>1, <2>2, <2>3, <2>4, <2>5, OthersKeep DEF StartTypes, Start!Capture
  <1>21. ASSUME Start!CaptureEnds(p) PROVE StartInv'
    <2>1. StartTypes'
      BY <1>21 DEF StartTypes, Places, Holding, Installing, Starting, Closing, Start!CaptureEnds
    <2>2. InstallInv'
      BY <1>21 DEF InstallInv, StartTypes, Places, Holding, Installing, Starting, Closing,
         Start!CaptureEnds
    <2>3. Start!Admissible => Start!Admissible'
      BY <1>21 DEF Start!Admissible, Start!CaptureEnds
    <2>4. Keeper(p)'
      BY <1>0, <1>21, <2>3 DEF Keeper, StartTypes, Places, Holding, Installing, Starting, Closing,
         Start!CaptureEnds
    <2>5. Opened(p)'
      BY <1>0, <1>21 DEF Opened, StartTypes, Places, Holding, Installing, Starting, Closing,
         Start!CaptureEnds
    <2>6. QED
      BY <1>21, <2>1, <2>2, <2>3, <2>4, <2>5, OthersKeep DEF StartTypes, Start!CaptureEnds
  <1>22. ASSUME Start!Leave(p) PROVE StartInv'
    <2>0. pc'[p] = "integration" /\ open'[p] = open[p] /\ open[p] \subseteq Left("integration")
      BY <1>0, <1>22, StopOrder DEF Start!Leave, StartTypes, Opened, Starting
    <2>1. StartTypes'
      BY <2>0, <1>22, StopOrder, LeftIsPart DEF StartTypes, Places, Holding, Installing, Starting,
         Closing, Start!Leave
    <2>2. InstallInv'
      BY <1>22, StopOrder DEF InstallInv, StartTypes, Places, Holding, Installing, Starting,
         Closing, Start!Leave
    <2>3. Start!Admissible => Start!Admissible'
      BY <1>22 DEF Start!Admissible, Start!Leave
    <2>4. Keeper(p)'
      BY <1>0, <1>22, <2>3, StopOrder DEF Keeper, StartTypes, Places, Holding, Installing,
         Starting, Closing, Start!Leave
    <2>5. Opened(p)'
      BY <2>0, <1>0, <1>22, StopOrder, LeftIsPart DEF Opened, StartTypes, Places, Holding,
         Installing, Starting, Closing, Start!Leave
    <2>6. QED
      BY <1>22, <2>1, <2>2, <2>3, <2>4, <2>5, OthersKeep DEF StartTypes, Start!Leave
  <1>23. ASSUME Start!StopPart(p) PROVE StartInv'
    <2>0. /\ pc[p] \in Closing /\ pc'[p] = Start!After(pc[p]) /\ pc'[p] \in Closing \cup {"lease"}
          /\ open'[p] \subseteq Left(pc'[p])
      BY <1>0, <1>23, StopOrder DEF Start!StopPart, StartTypes, Opened, Closing
    <2>1. StartTypes'
      BY <2>0, <1>23, StopOrder, LeftIsPart DEF StartTypes, Places, Holding, Installing, Starting,
         Closing, Start!StopPart, Start!CaptureOver, Start!ThreadDone
    <2>2. InstallInv'
      BY <1>23, StopOrder DEF InstallInv, StartTypes, Places, Holding, Installing, Starting,
         Closing, Start!StopPart, Start!CaptureOver, Start!ThreadDone
    <2>3. Start!Admissible => Start!Admissible'
      BY <1>23 DEF Start!Admissible, Start!StopPart, Start!CaptureOver, Start!ThreadDone
    <2>4. Keeper(p)'
      BY <1>0, <1>23, <2>3, StopOrder DEF Keeper, StartTypes, Places, Holding, Installing,
         Starting, Closing, Start!StopPart, Start!CaptureOver, Start!ThreadDone
    <2>5. Opened(p)'
      BY <2>0, LeftIsPart DEF Opened, Closing, Starting
    <2>6. QED
      BY <1>23, <2>1, <2>2, <2>3, <2>4, <2>5, OthersKeep DEF StartTypes, Start!StopPart,
         Start!CaptureOver, Start!ThreadDone
  <1>24. ASSUME Start!CloseLease(p) PROVE StartInv'
    <2>1. StartTypes'
      BY <1>24, StopOrder DEF StartTypes, Places, Holding, Installing, Starting, Closing,
         Start!CloseLease
    <2>2. InstallInv'
      BY <1>24, StopOrder DEF InstallInv, StartTypes, Places, Holding, Installing, Starting,
         Closing, Start!CloseLease
    <2>3. Start!Admissible => Start!Admissible'
      BY <1>24 DEF Start!Admissible, Start!CloseLease
    <2>4. Keeper(p)'
      BY <1>0, <1>24, <2>3, StopOrder DEF Keeper, StartTypes, Places, Holding, Installing,
         Starting, Closing, Start!CloseLease
    <2>5. Opened(p)'
      BY <1>0, <1>24, StopOrder DEF Opened, StartTypes, Places, Holding, Installing, Starting,
         Closing, Start!CloseLease
    <2>6. QED
      BY <1>24, <2>1, <2>2, <2>3, <2>4, <2>5, OthersKeep DEF StartTypes, Start!CloseLease
  <1>25. ASSUME Start!Crash(p) PROVE StartInv'
    <2>1. StartTypes'
      BY <1>25 DEF StartTypes, Places, Holding, Installing, Starting, Closing, Start!Crash
    <2>2. InstallInv'
      BY <1>25 DEF InstallInv, StartTypes, Places, Holding, Installing, Starting, Closing,
         Start!Crash
    <2>3. Start!Admissible => Start!Admissible'
      BY <1>25 DEF Start!Admissible, Start!Crash
    <2>4. Keeper(p)'
      BY <1>0, <1>25, <2>3 DEF Keeper, StartTypes, Places, Holding, Installing, Starting, Closing,
         Start!Crash
    <2>5. Opened(p)'
      BY <1>0, <1>25 DEF Opened, StartTypes, Places, Holding, Installing, Starting, Closing,
         Start!Crash
    <2>6. QED
      BY <1>25, <2>1, <2>2, <2>3, <2>4, <2>5, OthersKeep DEF StartTypes, Start!Crash
  <1>26. QED
    BY <1>1, <1>2, <1>3, <1>4, <1>5, <1>6, <1>7, <1>8, <1>9, <1>10, <1>11, <1>12, <1>13, <1>14,
       <1>15, <1>16, <1>17, <1>18, <1>19, <1>20, <1>21, <1>22, <1>23, <1>24, <1>25 DEF
       Start!SetUp, Start!Served

-----------------------------------------------------------------------------
(* Proofs: the audit log.                                                  *)

\* A linked log is one that _state and _verify_chain accept.
LEMMA LinkedIsChained ==
  ASSUME Linked(logRows, state), state \in LogState, logRows \subseteq LogRow
  PROVE  Audit!Chained
  <1>1. \A n : \A y \in logRows : y.id = n => Audit!ChainOf(n) = y
    <2> TAKE n
    <2> SUFFICES ASSUME NEW y \in logRows, y.id = n PROVE Audit!ChainOf(n) = y
      OBVIOUS
    <2>1. \A x \in logRows : x.id = n => x = y
      BY DEF Linked
    <2>2. Audit!ChainOf(n) \in logRows /\ Audit!ChainOf(n).id = n
      BY DEF Audit!ChainOf
    <2>3. QED
      BY <2>1, <2>2
  <1>2. ASSUME NEW x \in logRows
        PROVE  x.prev = IF x.id = state.anchor + 1 THEN state.anchorDig ELSE Audit!ChainOf(x.id - 1).dig
    <2>1. x.id \in (state.anchor + 1)..state.last
      BY DEF Linked
    <2>2. CASE x.id = state.anchor + 1
      <3>1. \A y \in logRows : y.id # x.id - 1
        <4>1. \A y \in logRows : y.id \in (state.anchor + 1)..state.last
          BY DEF Linked
        <4>2. QED
          BY <2>2, <4>1 DEF LogState, LogRow
      <3>2. QED
        BY <2>2, <3>1 DEF Linked
    <2>3. CASE x.id # state.anchor + 1
      <3>1. PICK y \in logRows : y.id = x.id - 1 /\ x.prev = y.dig
        BY <2>3 DEF Linked
      <3>2. Audit!ChainOf(x.id - 1) = y
        BY <1>1, <3>1
      <3>3. QED
        BY <2>3, <3>1, <3>2
    <2>4. QED
      BY <2>2, <2>3
  <1>3. state.lastDig = IF logRows = {} THEN state.anchorDig ELSE Audit!ChainOf(state.last).dig
    <2>1. CASE logRows = {}
      BY <2>1 DEF Linked
    <2>2. CASE logRows # {}
      <3>1. PICK y \in logRows : y.id = state.last /\ state.lastDig = y.dig
        BY <2>2 DEF Linked
      <3>2. QED
        BY <1>1, <2>2, <3>1
    <2>3. QED
      BY <2>1, <2>2
  <1>4. /\ {x.id : x \in logRows} = (state.anchor + 1)..state.last
        /\ Cardinality(logRows) = state.last - state.anchor
        /\ state.last - state.anchor <= AuditRows
        /\ state.last > 0 => state.last > state.anchor
    BY DEF Linked
  <1>5. Audit!Cardinality(logRows) = Cardinality(logRows)
    BY Zenon DEF Audit!Cardinality, Cardinality
  <1>6. QED
    BY <1>2, <1>3, <1>4, <1>5, Zenon DEF Audit!Chained

\* A row that is added keeps the chain while there is room for it.
LEMMA RowAdded ==
  ASSUME NEW rs, rs \subseteq LogRow, IsFiniteSet(rs), NEW s \in LogState, NEW t \in LogState,
         NEW row \in LogRow, Linked(rs, s), s.last - s.anchor < AuditRows,
         row.id = s.last + 1, row.prev = s.lastDig,
         t.anchor = s.anchor, t.anchorDig = s.anchorDig, t.last = s.last + 1, t.lastDig = row.dig
  PROVE  Linked(rs \cup {row}, t)
  <1>0. /\ s.anchor \in Nat /\ s.last \in Nat /\ AuditRows \in Nat /\ s.anchor <= s.last
        /\ \A x \in rs : x.id \in Nat
    BY ServicesAssumption DEF LogState, LogRow, Linked
  <1>1. \A x \in rs : x.id \in (s.anchor + 1)..s.last
    BY DEF Linked
  <1>2. row \notin rs
    BY <1>0, <1>1
  <1>3. \A x, y \in rs \cup {row} : x.id = y.id => x = y
    BY <1>0, <1>1 DEF Linked
  <1>4. {x.id : x \in rs \cup {row}} = (t.anchor + 1)..t.last
    <2>1. {x.id : x \in rs} = (s.anchor + 1)..s.last
      BY DEF Linked
    <2>2. {x.id : x \in rs \cup {row}} = {x.id : x \in rs} \cup {s.last + 1}
      OBVIOUS
    <2>3. (s.anchor + 1)..(s.last + 1) = ((s.anchor + 1)..s.last) \cup {s.last + 1}
      BY <1>0
    <2>4. QED
      BY <2>1, <2>2, <2>3
  <1>5. Cardinality(rs \cup {row}) = t.last - t.anchor
    <2>1. Cardinality(rs \cup {row}) = Cardinality(rs) + 1
      BY <1>2, FS_AddElement
    <2>2. Cardinality(rs) = s.last - s.anchor
      BY DEF Linked
    <2>3. QED
      BY <1>0, <2>1, <2>2
  <1>6. ASSUME NEW x \in rs \cup {row}
        PROVE  \/ x.id = t.anchor + 1 /\ x.prev = t.anchorDig
               \/ \E y \in rs \cup {row} : y.id = x.id - 1 /\ x.prev = y.dig
    <2>1. CASE x \in rs
      BY <2>1 DEF Linked
    <2>2. CASE x = row /\ rs = {}
      <3>1. s.last = s.anchor
        BY <1>0, <2>2, FS_EmptySet DEF Linked
      <3>2. s.lastDig = s.anchorDig
        BY <2>2 DEF Linked
      <3>3. QED
        BY <2>2, <3>1, <3>2
    <2>3. CASE x = row /\ rs # {}
      <3>1. PICK y \in rs : y.id = s.last /\ s.lastDig = y.dig
        BY <2>3 DEF Linked
      <3>2. QED
        BY <1>0, <2>3, <3>1
    <2>4. QED
      BY <2>1, <2>2, <2>3
  <1>7. t.anchor <= t.last /\ t.last - t.anchor <= AuditRows /\ (t.last > 0 => t.last > t.anchor)
    BY <1>0
  <1>8. \E y \in rs \cup {row} : y.id = t.last /\ t.lastDig = y.dig
    OBVIOUS
  <1>9. QED
    BY <1>3, <1>4, <1>5, <1>6, <1>7, <1>8 DEF Linked

\* Retention: the oldest row leaves and is the anchor of those that stay.
LEMMA RowRetired ==
  ASSUME NEW rs, rs \subseteq LogRow, IsFiniteSet(rs), NEW s \in LogState, NEW t \in LogState,
         NEW row \in LogRow, Linked(rs, s), s.last - s.anchor = AuditRows,
         row.id = s.last + 1, row.prev = s.lastDig, NEW old \in rs, old.id = s.anchor + 1,
         t.anchor = s.anchor + 1, t.anchorDig = old.dig, t.last = s.last + 1, t.lastDig = row.dig
  PROVE  Linked((rs \cup {row}) \ {old}, t)
  <1> DEFINE rt == (rs \cup {row}) \ {old}
  <1>0. /\ s.anchor \in Nat /\ s.last \in Nat /\ AuditRows \in Nat \ {0} /\ s.anchor < s.last
        /\ \A x \in rs : x.id \in Nat
    BY ServicesAssumption DEF LogState, LogRow, Linked
  <1>1. \A x \in rs : x.id \in (s.anchor + 1)..s.last
    BY DEF Linked
  <1>2. row \notin rs /\ row # old
    BY <1>0, <1>1
  <1>3. \A x, y \in rt : x.id = y.id => x = y
    BY <1>0, <1>1 DEF Linked
  <1>4. {x.id : x \in rt} = (t.anchor + 1)..t.last
    <2>1. {x.id : x \in rs} = (s.anchor + 1)..s.last
      BY DEF Linked
    <2>2. \A x \in rs : x.id = old.id => x = old
      BY DEF Linked
    <2>3. {x.id : x \in rt} = ({x.id : x \in rs} \ {s.anchor + 1}) \cup {s.last + 1}
      BY <1>0, <1>2, <2>2
    <2>4. (s.anchor + 2)..(s.last + 1) = (((s.anchor + 1)..s.last) \ {s.anchor + 1}) \cup {s.last + 1}
      BY <1>0
    <2>5. t.anchor + 1 = s.anchor + 2
      BY <1>0
    <2>6. QED
      BY <2>1, <2>3, <2>4, <2>5
  <1>5. Cardinality(rt) = t.last - t.anchor
    <2>1. Cardinality(rs \cup {row}) = Cardinality(rs) + 1 /\ IsFiniteSet(rs \cup {row})
      BY <1>2, FS_AddElement
    <2>2. Cardinality(rt) = Cardinality(rs \cup {row}) - 1
      BY <2>1, FS_RemoveElement
    <2>3. Cardinality(rs) = s.last - s.anchor
      BY DEF Linked
    <2>4. QED
      BY <1>0, <2>1, <2>2, <2>3
  <1>6. ASSUME NEW x \in rt
        PROVE  \/ x.id = t.anchor + 1 /\ x.prev = t.anchorDig
               \/ \E y \in rt : y.id = x.id - 1 /\ x.prev = y.dig
    <2>1. CASE x # row
      <3>1. x \in rs /\ x.id # s.anchor + 1
        BY <2>1 DEF Linked
      <3>2. PICK y \in rs : y.id = x.id - 1 /\ x.prev = y.dig
        BY <3>1 DEF Linked
      <3>3. CASE y = old
        BY <1>0, <3>1, <3>2, <3>3
      <3>4. CASE y # old
        BY <3>2, <3>4
      <3>5. QED
        BY <3>3, <3>4
    <2>2. CASE x = row
      <3>1. PICK y \in rs : y.id = s.last /\ s.lastDig = y.dig
        BY DEF Linked
      <3>2. CASE y = old
        BY <1>0, <2>2, <3>1, <3>2
      <3>3. CASE y # old
        BY <1>0, <2>2, <3>1, <3>3
      <3>4. QED
        BY <3>2, <3>3
    <2>3. QED
      BY <2>1, <2>2
  <1>7. t.anchor <= t.last /\ t.last - t.anchor <= AuditRows /\ (t.last > 0 => t.last > t.anchor)
    BY <1>0
  <1>8. \E y \in rt : y.id = t.last /\ t.lastDig = y.dig
    BY <1>2
  <1>9. QED
    BY <1>3, <1>4, <1>5, <1>6, <1>7, <1>8 DEF Linked

\* The fields of audit_state that a transaction sets, and those it leaves.
LEMMA AppendedFields ==
  ASSUME state \in LogState, serial \in Nat
  PROVE  /\ Audit!Appended \in LogState
         /\ Audit!Appended.anchor = state.anchor /\ Audit!Appended.anchorDig = state.anchorDig
         /\ Audit!Appended.last = state.last + 1 /\ Audit!Appended.lastDig = serial + 1
  <1>1. PICK a \in Nat, b \in Nat : a = state.last + 1 /\ b = serial + 1
    BY DEF LogState
  <1>2. Audit!Appended = [state EXCEPT !.last = a, !.lastDig = b]
    BY <1>1, Zenon DEF Audit!Appended
  <1>3. QED
    BY <1>1, <1>2 DEF LogState
\* And those of the state a retirement anchors anew.
LEMMA AnchoredFields ==
  ASSUME NEW s \in LogState, NEW rs, NEW cutoff \in Nat, NEW old,
         old = CHOOSE x \in rs : x.id = cutoff, old.dig \in Nat
  PROVE  /\ Audit!Anchored(s, rs, cutoff) \in LogState
         /\ Audit!Anchored(s, rs, cutoff).anchor = cutoff
         /\ Audit!Anchored(s, rs, cutoff).anchorDig = old.dig
         /\ Audit!Anchored(s, rs, cutoff).last = s.last
         /\ Audit!Anchored(s, rs, cutoff).lastDig = s.lastDig
  <1>1. Audit!Anchored(s, rs, cutoff) = [s EXCEPT !.anchor = cutoff, !.anchorDig = old.dig]
    BY Zenon DEF Audit!Anchored
  <1>2. QED
    BY <1>1 DEF LogState

\* One transaction of record: the log stays linked, what was durable stays so, and so is what
\* was just written.
LEMMA CommitKeeps ==
  ASSUME AuditTypes, file = "ready", Linked(logRows, state), NEW w \in [op : Ops, outcome : Outcomes],
         Audit!Commit(w)
  PROVE  /\ Linked(logRows', state') /\ state' \in LogState /\ serial' \in Nat
         /\ logRows' \subseteq LogRow /\ IsFiniteSet(logRows')
         /\ \A o \in Ops : Durable(o) => Durable(o)'
         /\ w.outcome = "started" => Durable(w.op)'
  <1>01. /\ state.last \in Nat /\ state.lastDig \in Nat /\ serial \in Nat /\ state \in LogState
         /\ w.op \in Ops /\ w.outcome \in Outcomes
    BY DEF AuditTypes, LogState
  <1>02. state.last + 1 \in Nat /\ serial + 1 \in Nat
    BY <1>01
  <1> PICK row : row = Audit!NewRow(w)
    OBVIOUS
  <1>0. /\ row.id = state.last + 1 /\ row.prev = state.lastDig /\ row.dig = serial + 1
        /\ row.op = w.op /\ row.outcome = w.outcome
    BY DEF Audit!NewRow
  <1>03. row \in LogRow
    BY <1>01, <1>02 DEF LogRow, Audit!NewRow
  <1> PICK tail : tail = Audit!Appended
    OBVIOUS
  <1>1. /\ tail.anchor = state.anchor /\ tail.anchorDig = state.anchorDig
        /\ tail.last = state.last + 1 /\ tail.lastDig = row.dig /\ tail \in LogState
    BY <1>0, <1>01, AppendedFields
  <1> PICK cutoff : cutoff = state.last + 1 - AuditRows
    OBVIOUS
  <1>04. cutoff \in Int
    BY <1>01, ServicesAssumption
  <1>2. /\ logRows' = {x \in logRows \cup {row} : cutoff > state.anchor => x.id > cutoff}
        /\ state' = IF cutoff > state.anchor THEN Audit!Anchored(tail, logRows \cup {row}, cutoff) ELSE tail
        /\ serial' = serial + 1
    BY Zenon DEF Audit!Commit
  <1>3. /\ state \in LogState /\ serial \in Nat /\ state.anchor \in Nat /\ state.last \in Nat
        /\ logRows \subseteq LogRow /\ IsFiniteSet(logRows) /\ AuditRows \in Nat \ {0}
        /\ \A x \in logRows : x.id \in (state.anchor + 1)..state.last
        /\ state.anchor <= state.last /\ state.last - state.anchor <= AuditRows
    BY ServicesAssumption DEF AuditTypes, LogState, Linked
  <1>4. IsFiniteSet(logRows \cup {row})
    BY <1>3, FS_AddElement
  <1>5. CASE ~(cutoff > state.anchor)
    <2>1. logRows' = logRows \cup {row} /\ state' = tail
      BY <1>2, <1>5
    <2>2. state.last - state.anchor < AuditRows
      BY <1>3, <1>5
    <2>3. Linked(logRows \cup {row}, tail)
      BY <1>0, <1>03, <1>1, <1>3, <2>2, RowAdded
    <2>4. QED
      BY <1>0, <1>01, <1>02, <1>03, <1>1, <1>2, <1>3, <1>4, <2>1, <2>3 DEF Durable
  <1>6. CASE cutoff > state.anchor
    <2>1. state.last - state.anchor = AuditRows /\ cutoff = state.anchor + 1
      BY <1>3, <1>6
    <2>2. PICK old \in logRows : old.id = state.anchor + 1
      <3>1. state.anchor + 1 \in (state.anchor + 1)..state.last
        BY <1>3, <2>1
      <3>2. QED
        BY <3>1 DEF Linked
    <2>3. \A x \in logRows \cup {row} : x.id = cutoff <=> x = old
      <3>1. \A x, y \in logRows : x.id = y.id => x = y
        BY DEF Linked
      <3>2. row.id # cutoff
        BY <1>0, <1>3, <2>1
      <3>3. QED
        BY <2>1, <2>2, <3>1, <3>2
    <2>4. (CHOOSE x \in logRows \cup {row} : x.id = cutoff) = old
      BY <2>3
    <2>5. cutoff \in Nat /\ old.dig \in Nat
      BY <1>3, <2>1 DEF LogRow
    <2>6. /\ state' \in LogState /\ state'.anchor = state.anchor + 1 /\ state'.anchorDig = old.dig
          /\ state'.last = state.last + 1 /\ state'.lastDig = row.dig
      <3>1. state' = Audit!Anchored(tail, logRows \cup {row}, cutoff)
        BY <1>2, <1>6
      <3>2. QED
        BY <1>1, <2>1, <2>4, <2>5, <3>1, AnchoredFields
    <2>7. logRows' = (logRows \cup {row}) \ {old}
      <3>1. \A x \in logRows \cup {row} : x.id > cutoff <=> x # old
        BY <1>0, <1>03, <1>04, <1>3, <2>1, <2>3 DEF LogRow
      <3>2. QED
        BY <1>2, <1>6, <3>1
    <2>8. Linked((logRows \cup {row}) \ {old}, state')
      BY <1>0, <1>03, <1>3, <2>1, <2>2, <2>6, RowRetired
    <2>9. IsFiniteSet(logRows') /\ logRows' \subseteq LogRow
      BY <1>03, <1>3, <1>4, <2>7, FS_RemoveElement
    <2>10. state'.anchor > 0
      BY <1>3, <2>6
    <2>11. QED
      BY <1>02, <1>2, <1>3, <2>6, <2>7, <2>8, <2>9, <2>10 DEF Durable
  <1>7. QED
    BY <1>5, <1>6

\* No log yet.
LEMMA AuditInvInit == PartInit => AuditInv
  <1> SUFFICES ASSUME PartInit PROVE AuditInv
    OBVIOUS
  <1>1. AuditTypes
    BY FS_EmptySet DEF PartInit, Audit!AudInit, Audit!NoLog, AuditTypes, LogState, OpPlaces
  <1>2. ProcessInv /\ LossInv
    BY DEF PartInit, Audit!AudInit, ProcessInv, LossInv
  <1>3. AttemptInv /\ ChainInv
    BY DEF PartInit, Audit!AudInit, AttemptInv, ChainInv
  <1>4. QED
    BY <1>1, <1>2, <1>3 DEF AuditInv

\* What is durable stays so while the log is not touched.
LEMMA LogUntouched ==
  ASSUME UNCHANGED <<state, logRows>>
  PROVE  (\A o \in Ops : Durable(o)' <=> Durable(o)) /\ (Linked(logRows, state)' <=> Linked(logRows, state))
  BY DEF Durable, Linked

\* Every step of the process, the store and the middleware keeps the invariant.
LEMMA AuditInvStep == AuditInv /\ Audit!AudNext => AuditInv'
  <1> SUFFICES ASSUME AuditInv, Audit!AudNext PROVE AuditInv'
    OBVIOUS
  <1> USE DEF AuditInv, Audit!auddisk, Audit!audhist
  <1>1. ASSUME Audit!StartUp PROVE AuditInv'
    <2>0. UNCHANGED <<state, logRows>>
      BY <1>1 DEF Audit!StartUp, Audit!AnchorAllows
    <2>1. AuditTypes'
      BY <1>1 DEF AuditTypes, OpPlaces, Outcomes, Audit!StartUp, Audit!AnchorAllows
    <2>2. ProcessInv'
      BY <1>1 DEF ProcessInv, AuditTypes, OpPlaces, Audit!StartUp, Audit!AnchorAllows
    <2>3. AttemptInv'
      BY <1>1, <2>0, LogUntouched DEF AttemptInv, ProcessInv, AuditTypes, OpPlaces, Audit!StartUp,
         Audit!AnchorAllows
    <2>4. ChainInv'
      BY <1>1, <2>0, LogUntouched DEF ChainInv, ProcessInv, Audit!StartUp, Audit!AnchorAllows
    <2>5. LossInv'
      BY <1>1 DEF LossInv, ProcessInv, Audit!StartUp, Audit!AnchorAllows
    <2>6. QED
      BY <2>1, <2>2, <2>3, <2>4, <2>5
  <1>2. ASSUME Audit!CreateFile PROVE AuditInv'
    <2>0. UNCHANGED <<state, logRows>>
      BY <1>2 DEF Audit!CreateFile
    <2>1. AuditTypes'
      BY <1>2 DEF AuditTypes, OpPlaces, Outcomes, Audit!CreateFile
    <2>2. ProcessInv'
      BY <1>2 DEF ProcessInv, AuditTypes, OpPlaces, Audit!CreateFile
    <2>3. AttemptInv'
      BY <1>2, <2>0, LogUntouched DEF AttemptInv, ProcessInv, AuditTypes, OpPlaces, Audit!CreateFile
    <2>4. ChainInv'
      BY <1>2, <2>0, LogUntouched DEF ChainInv, ProcessInv, Audit!CreateFile
    <2>5. LossInv'
      BY <1>2 DEF LossInv, ProcessInv, Audit!CreateFile
    <2>6. QED
      BY <2>1, <2>2, <2>3, <2>4, <2>5
  <1>3. ASSUME Audit!CreateSchema PROVE AuditInv'
    <2>1. AuditTypes'
      BY <1>3, FS_EmptySet DEF AuditTypes, LogState, Audit!NoLog, Audit!CreateSchema
    <2>2. ProcessInv'
      BY <1>3 DEF ProcessInv, Audit!CreateSchema
    <2>3. AttemptInv'
      <3>1. effects' = {} /\ \A o \in Ops : op'[o] # "run"
        BY <1>3 DEF ProcessInv, Audit!CreateSchema
      <3>2. QED
        BY <3>1 DEF AttemptInv
    <2>4. ChainInv'
      <3>1. /\ logRows' = {} /\ state'.anchor = 0 /\ state'.last = 0 /\ state'.anchorDig = 0
            /\ state'.lastDig = 0
        BY <1>3 DEF Audit!CreateSchema, Audit!NoLog
      <3>2. Cardinality({}) = 0 /\ 1..0 = {}
        BY FS_EmptySet
      <3>3. QED
        BY <3>1, <3>2, ServicesAssumption DEF ChainInv, Linked
    <2>5. LossInv'
      BY <1>3 DEF LossInv, Audit!CreateSchema
    <2>6. QED
      BY <2>1, <2>2, <2>3, <2>4, <2>5
  <1>4. ASSUME Audit!Verify PROVE AuditInv'
    <2>0. UNCHANGED <<state, logRows>>
      BY <1>4 DEF Audit!Verify
    <2>1. AuditTypes'
      BY <1>4 DEF AuditTypes, OpPlaces, Outcomes, Audit!Verify
    <2>2. ProcessInv'
      BY <1>4 DEF ProcessInv, AuditTypes, OpPlaces, Audit!Verify
    <2>3. AttemptInv'
      BY <1>4, <2>0, LogUntouched DEF AttemptInv, ProcessInv, AuditTypes, OpPlaces, Audit!Verify
    <2>4. ChainInv'
      BY <1>4, <2>0, LogUntouched DEF ChainInv, ProcessInv, Audit!Verify
    <2>5. LossInv'
      BY <1>4 DEF LossInv, ProcessInv, Audit!Verify
    <2>6. QED
      BY <2>1, <2>2, <2>3, <2>4, <2>5
  <1>5. ASSUME Audit!Seal PROVE AuditInv'
    <2>0. UNCHANGED <<state, logRows>>
      BY <1>5 DEF Audit!Seal
    <2>1. AuditTypes'
      BY <1>5 DEF AuditTypes, OpPlaces, Outcomes, Audit!Seal
    <2>2. ProcessInv'
      BY <1>5 DEF ProcessInv, AuditTypes, OpPlaces, Audit!Seal
    <2>3. AttemptInv'
      BY <1>5, <2>0, LogUntouched DEF AttemptInv, ProcessInv, AuditTypes, OpPlaces, Audit!Seal
    <2>4. ChainInv'
      BY <1>5, <2>0, LogUntouched DEF ChainInv, ProcessInv, Audit!Seal
    <2>5. LossInv'
      BY <1>5 DEF LossInv, ProcessInv, Audit!Seal
    <2>6. QED
      BY <2>1, <2>2, <2>3, <2>4, <2>5
  <1>6. ASSUME Audit!Crash PROVE AuditInv'
    <2>0. UNCHANGED <<state, logRows>>
      BY <1>6 DEF Audit!Crash, Audit!Fault
    <2>1. AuditTypes'
      BY <1>6 DEF AuditTypes, OpPlaces, Outcomes, Audit!Crash, Audit!Fault
    <2>2. ProcessInv'
      BY <1>6 DEF ProcessInv, AuditTypes, OpPlaces, Audit!Crash, Audit!Fault
    <2>3. AttemptInv'
      BY <1>6, <2>0, LogUntouched DEF AttemptInv, ProcessInv, AuditTypes, OpPlaces, Audit!Crash,
         Audit!Fault
    <2>4. ChainInv'
      BY <1>6, <2>0, LogUntouched DEF ChainInv, ProcessInv, Audit!Crash, Audit!Fault
    <2>5. LossInv'
      BY <1>6 DEF LossInv, ProcessInv, Audit!Crash, Audit!Fault
    <2>6. QED
      BY <2>1, <2>2, <2>3, <2>4, <2>5
  <1>7. ASSUME Audit!FileLost PROVE AuditInv'
    <2>0. UNCHANGED <<state, logRows>>
      BY <1>7 DEF Audit!FileLost, Audit!Fault
    <2>1. AuditTypes'
      BY <1>7 DEF AuditTypes, OpPlaces, Outcomes, Audit!FileLost, Audit!Fault
    <2>2. ProcessInv'
      BY <1>7 DEF ProcessInv, AuditTypes, OpPlaces, Audit!FileLost, Audit!Fault
    <2>3. AttemptInv'
      BY <1>7, <2>0, LogUntouched DEF AttemptInv, ProcessInv, AuditTypes, OpPlaces,
         Audit!FileLost, Audit!Fault
    <2>4. ChainInv'
      BY <1>7, <2>0, LogUntouched DEF ChainInv, ProcessInv, Audit!FileLost, Audit!Fault
    <2>5. LossInv'
      BY <1>7 DEF LossInv, ProcessInv, Audit!FileLost, Audit!Fault
    <2>6. QED
      BY <2>1, <2>2, <2>3, <2>4, <2>5
  <1>8. ASSUME Audit!ReadFails PROVE AuditInv'
    <2>0. UNCHANGED <<state, logRows>>
      BY <1>8 DEF Audit!ReadFails, Audit!Fails, Audit!Fault
    <2>1. AuditTypes'
      BY <1>8 DEF AuditTypes, OpPlaces, Outcomes, Audit!ReadFails, Audit!Fails, Audit!Fault
    <2>2. ProcessInv'
      BY <1>8 DEF ProcessInv, AuditTypes, OpPlaces, Audit!ReadFails, Audit!Fails, Audit!Fault
    <2>3. AttemptInv'
      BY <1>8, <2>0, LogUntouched DEF AttemptInv, ProcessInv, AuditTypes, OpPlaces,
         Audit!ReadFails, Audit!Fails, Audit!Fault
    <2>4. ChainInv'
      BY <1>8, <2>0, LogUntouched DEF ChainInv, ProcessInv, Audit!ReadFails, Audit!Fails,
         Audit!Fault
    <2>5. LossInv'
      BY <1>8 DEF LossInv, ProcessInv, Audit!ReadFails, Audit!Fails, Audit!Fault
    <2>6. QED
      BY <2>1, <2>2, <2>3, <2>4, <2>5
  <1>9. ASSUME NEW w \in writes, Audit!RecordCommits(w) PROVE AuditInv'
    <2>0. w \in [op : Ops, outcome : Outcomes] /\ file = "ready" /\ Linked(logRows, state)
      BY <1>9 DEF AuditTypes, ProcessInv, ChainInv, Audit!RecordCommits
    <2>00. /\ Linked(logRows', state') /\ state' \in LogState /\ serial' \in Nat
           /\ logRows' \subseteq LogRow /\ IsFiniteSet(logRows')
           /\ \A o \in Ops : Durable(o) => Durable(o)'
           /\ w.outcome = "started" => Durable(w.op)'
      BY <1>9, <2>0, CommitKeeps DEF Audit!RecordCommits
    <2>1. AuditTypes'
      BY <1>9, <2>0, <2>00 DEF AuditTypes, OpPlaces, Audit!RecordCommits, Audit!Returned,
         Audit!Proceeds
    <2>2. ProcessInv'
      BY <1>9, <2>0 DEF ProcessInv, AuditTypes, OpPlaces, Audit!RecordCommits, Audit!Returned,
         Audit!Proceeds
    <2>3. AttemptInv'
      <3>1. ASSUME NEW o \in Ops, op'[o] = "run" PROVE Durable(o)'
        BY <1>9, <2>0, <2>00, <3>1 DEF AttemptInv, AuditTypes, Audit!RecordCommits,
           Audit!Returned, Audit!Proceeds
      <3>2. \A e \in effects' : Durable(e.op)'
        BY <1>9, <2>0, <2>00 DEF AttemptInv, AuditTypes, Audit!RecordCommits
      <3>3. QED
        BY <3>1, <3>2 DEF AttemptInv
    <2>4. ChainInv'
      BY <2>00 DEF ChainInv
    <2>5. LossInv'
      BY <1>9 DEF LossInv, ProcessInv, Audit!RecordCommits, Audit!Returned, Audit!Proceeds
    <2>6. QED
      BY <2>1, <2>2, <2>3, <2>4, <2>5
  <1>10. ASSUME NEW w \in writes, Audit!RecordDoubted(w) PROVE AuditInv'
    <2>0. w \in [op : Ops, outcome : Outcomes] /\ file = "ready" /\ Linked(logRows, state)
      BY <1>10 DEF AuditTypes, ProcessInv, ChainInv, Audit!RecordDoubted
    <2>00. /\ Linked(logRows', state') /\ state' \in LogState /\ serial' \in Nat
           /\ logRows' \subseteq LogRow /\ IsFiniteSet(logRows')
           /\ \A o \in Ops : Durable(o) => Durable(o)'
           /\ w.outcome = "started" => Durable(w.op)'
      BY <1>10, <2>0, CommitKeeps DEF Audit!RecordDoubted
    <2>1. AuditTypes'
      BY <1>10, <2>0, <2>00 DEF AuditTypes, OpPlaces, Audit!RecordDoubted, Audit!Returned,
         Audit!Proceeds, Audit!Fails, Audit!Fault
    <2>2. ProcessInv'
      BY <1>10, <2>0 DEF ProcessInv, AuditTypes, OpPlaces, Audit!RecordDoubted, Audit!Returned,
         Audit!Proceeds, Audit!Fails, Audit!Fault
    <2>3. AttemptInv'
      <3>1. ASSUME NEW o \in Ops, op'[o] = "run" PROVE Durable(o)'
        BY <1>10, <2>0, <2>00, <3>1 DEF AttemptInv, AuditTypes, Audit!RecordDoubted,
           Audit!Returned, Audit!Proceeds, Audit!Fails, Audit!Fault
      <3>2. \A e \in effects' : Durable(e.op)'
        BY <1>10, <2>0, <2>00 DEF AttemptInv, AuditTypes, Audit!RecordDoubted
      <3>3. QED
        BY <3>1, <3>2 DEF AttemptInv
    <2>4. ChainInv'
      BY <2>00 DEF ChainInv
    <2>5. LossInv'
      BY <1>10 DEF LossInv, ProcessInv, Audit!RecordDoubted, Audit!Returned, Audit!Proceeds,
         Audit!Fails, Audit!Fault
    <2>6. QED
      BY <2>1, <2>2, <2>3, <2>4, <2>5
  <1>11. ASSUME NEW w \in writes, Audit!RecordFails(w) PROVE AuditInv'
    <2>00. w \in [op : Ops, outcome : Outcomes]
      BY DEF AuditTypes
    <2>0. UNCHANGED <<state, logRows>>
      BY <1>11 DEF Audit!RecordFails, Audit!Returned, Audit!Proceeds, Audit!Fails, Audit!Fault
    <2>1. AuditTypes'
      BY <1>11, <2>00 DEF AuditTypes, OpPlaces, Outcomes, Audit!RecordFails, Audit!Returned,
         Audit!Proceeds, Audit!Fails, Audit!Fault
    <2>2. ProcessInv'
      BY <1>11, <2>00 DEF ProcessInv, AuditTypes, OpPlaces, Audit!RecordFails, Audit!Returned,
         Audit!Proceeds, Audit!Fails, Audit!Fault
    <2>3. AttemptInv'
      BY <1>11, <2>00, <2>0, LogUntouched DEF AttemptInv, ProcessInv, AuditTypes, OpPlaces,
         Audit!RecordFails, Audit!Returned, Audit!Proceeds, Audit!Fails, Audit!Fault
    <2>4. ChainInv'
      BY <1>11, <2>00, <2>0, LogUntouched DEF ChainInv, ProcessInv, Audit!RecordFails,
         Audit!Returned, Audit!Proceeds, Audit!Fails, Audit!Fault
    <2>5. LossInv'
      BY <1>11, <2>00 DEF LossInv, ProcessInv, Audit!RecordFails, Audit!Returned, Audit!Proceeds,
         Audit!Fails, Audit!Fault
    <2>6. QED
      BY <2>1, <2>2, <2>3, <2>4, <2>5
  <1>12. ASSUME NEW o \in Ops, Audit!Begin(o) PROVE AuditInv'
    <2>0. UNCHANGED <<state, logRows>>
      BY <1>12 DEF Audit!Begin
    <2>1. AuditTypes'
      BY <1>12 DEF AuditTypes, OpPlaces, Outcomes, Audit!Begin
    <2>2. ProcessInv'
      BY <1>12 DEF ProcessInv, AuditTypes, OpPlaces, Audit!Begin
    <2>3. AttemptInv'
      BY <1>12, <2>0, LogUntouched DEF AttemptInv, ProcessInv, AuditTypes, OpPlaces, Audit!Begin
    <2>4. ChainInv'
      BY <1>12, <2>0, LogUntouched DEF ChainInv, ProcessInv, Audit!Begin
    <2>5. LossInv'
      BY <1>12 DEF LossInv, ProcessInv, Audit!Begin
    <2>6. QED
      BY <2>1, <2>2, <2>3, <2>4, <2>5
  <1>13. ASSUME NEW o \in Ops, Audit!AttemptCancelled(o) PROVE AuditInv'
    <2>0. UNCHANGED <<state, logRows>>
      BY <1>13 DEF Audit!AttemptCancelled, Audit!Fault
    <2>1. AuditTypes'
      BY <1>13 DEF AuditTypes, OpPlaces, Outcomes, Audit!AttemptCancelled, Audit!Fault
    <2>2. ProcessInv'
      BY <1>13 DEF ProcessInv, AuditTypes, OpPlaces, Audit!AttemptCancelled, Audit!Fault
    <2>3. AttemptInv'
      BY <1>13, <2>0, LogUntouched DEF AttemptInv, ProcessInv, AuditTypes, OpPlaces,
         Audit!AttemptCancelled, Audit!Fault
    <2>4. ChainInv'
      BY <1>13, <2>0, LogUntouched DEF ChainInv, ProcessInv, Audit!AttemptCancelled, Audit!Fault
    <2>5. LossInv'
      BY <1>13 DEF LossInv, ProcessInv, Audit!AttemptCancelled, Audit!Fault
    <2>6. QED
      BY <2>1, <2>2, <2>3, <2>4, <2>5
  <1>14. ASSUME NEW o \in Ops, Audit!Effect(o) PROVE AuditInv'
    <2>0. UNCHANGED <<state, logRows>>
      BY <1>14 DEF Audit!Effect
    <2>1. AuditTypes'
      BY <1>14 DEF AuditTypes, OpPlaces, Outcomes, Audit!Effect
    <2>2. ProcessInv'
      BY <1>14 DEF ProcessInv, AuditTypes, OpPlaces, Audit!Effect
    <2>3. AttemptInv'
      BY <1>14, <2>0, LogUntouched DEF AttemptInv, ProcessInv, AuditTypes, OpPlaces, Audit!Effect
    <2>4. ChainInv'
      BY <1>14, <2>0, LogUntouched DEF ChainInv, ProcessInv, Audit!Effect
    <2>5. LossInv'
      BY <1>14 DEF LossInv, ProcessInv, Audit!Effect
    <2>6. QED
      BY <2>1, <2>2, <2>3, <2>4, <2>5
  <1>15. ASSUME NEW o \in Ops, Audit!Answered(o) PROVE AuditInv'
    <2>0. UNCHANGED <<state, logRows>>
      BY <1>15 DEF Audit!Answered, Audit!Finished
    <2>1. AuditTypes'
      BY <1>15 DEF AuditTypes, OpPlaces, Outcomes, Audit!Answered, Audit!Finished
    <2>2. ProcessInv'
      BY <1>15 DEF ProcessInv, AuditTypes, OpPlaces, Audit!Answered, Audit!Finished
    <2>3. AttemptInv'
      BY <1>15, <2>0, LogUntouched DEF AttemptInv, ProcessInv, AuditTypes, OpPlaces,
         Audit!Answered, Audit!Finished
    <2>4. ChainInv'
      BY <1>15, <2>0, LogUntouched DEF ChainInv, ProcessInv, Audit!Answered, Audit!Finished
    <2>5. LossInv'
      BY <1>15 DEF LossInv, ProcessInv, Audit!Answered, Audit!Finished
    <2>6. QED
      BY <2>1, <2>2, <2>3, <2>4, <2>5
  <1>16. ASSUME NEW o \in Ops, Audit!Interrupted(o) PROVE AuditInv'
    <2>0. UNCHANGED <<state, logRows>>
      BY <1>16 DEF Audit!Interrupted, Audit!Finished, Audit!Fault
    <2>1. AuditTypes'
      BY <1>16 DEF AuditTypes, OpPlaces, Outcomes, Audit!Interrupted, Audit!Finished, Audit!Fault
    <2>2. ProcessInv'
      BY <1>16 DEF ProcessInv, AuditTypes, OpPlaces, Audit!Interrupted, Audit!Finished, Audit!Fault
    <2>3. AttemptInv'
      BY <1>16, <2>0, LogUntouched DEF AttemptInv, ProcessInv, AuditTypes, OpPlaces,
         Audit!Interrupted, Audit!Finished, Audit!Fault
    <2>4. ChainInv'
      BY <1>16, <2>0, LogUntouched DEF ChainInv, ProcessInv, Audit!Interrupted, Audit!Finished,
         Audit!Fault
    <2>5. LossInv'
      BY <1>16 DEF LossInv, ProcessInv, Audit!Interrupted, Audit!Finished, Audit!Fault
    <2>6. QED
      BY <2>1, <2>2, <2>3, <2>4, <2>5
  <1>17. ASSUME NEW o \in Ops, Audit!FinishCancelled(o) PROVE AuditInv'
    <2>0. UNCHANGED <<state, logRows>>
      BY <1>17 DEF Audit!FinishCancelled, Audit!Fault
    <2>1. AuditTypes'
      BY <1>17 DEF AuditTypes, OpPlaces, Outcomes, Audit!FinishCancelled, Audit!Fault
    <2>2. ProcessInv'
      BY <1>17 DEF ProcessInv, AuditTypes, OpPlaces, Audit!FinishCancelled, Audit!Fault
    <2>3. AttemptInv'
      BY <1>17, <2>0, LogUntouched DEF AttemptInv, ProcessInv, AuditTypes, OpPlaces,
         Audit!FinishCancelled, Audit!Fault
    <2>4. ChainInv'
      BY <1>17, <2>0, LogUntouched DEF ChainInv, ProcessInv, Audit!FinishCancelled, Audit!Fault
    <2>5. LossInv'
      BY <1>17 DEF LossInv, ProcessInv, Audit!FinishCancelled, Audit!Fault
    <2>6. QED
      BY <2>1, <2>2, <2>3, <2>4, <2>5
  <1>18. QED
    BY <1>1, <1>2, <1>3, <1>4, <1>5, <1>6, <1>7, <1>8, <1>9, <1>10, <1>11, <1>12, <1>13, <1>14,
       <1>15, <1>16, <1>17 DEF Audit!AudNext

-----------------------------------------------------------------------------
(* The ONVIF probe.                                                        *)

\* A probe begins with nothing sent, nothing measured and no answer.
LEMMA ProbeBegins == Onvif!ProbeInit => Onvif!ProbeInv
  <1> SUFFICES ASSUME Onvif!ProbeInit PROVE Onvif!ProbeInv
    OBVIOUS
  <1>1. /\ s2 \in BOOLEAN /\ s3 \in BOOLEAN /\ s10 = FALSE /\ s12 = FALSE /\ s17 = FALSE
        /\ s19 = FALSE /\ s20 = FALSE
    BY Zenon DEF Onvif!ProbeInit
  <1>2. s1 = "describe" => ~s3
    BY Zenon DEF Onvif!ProbeInit
  <1>3. s7 = "own" /\ s9 = 0 /\ s18 = {} /\ s4 = "send" /\ s22 = "none"
    BY DEF Onvif!ProbeInit
  <1>4. QED
    BY <1>1, <1>2, <1>3
       DEF Onvif!ProbeInv, Onvif!ProbeType, Onvif!RefusalsExplained, Onvif!CountsUsed,
           Onvif!HonestNotRefused, Onvif!NoAuthorizationReplayed, Onvif!AccountProtected

\* A message with the account uses the next count of its nonce, and is one whose
\* target was admitted.
LEMMA SendsFresh ==
  ASSUME Onvif!ProbeType, Onvif!CountsUsed, ~s19, ~s20, Onvif!Sends,
         Onvif!Target # s7 \/ Onvif!Admitted
  PROVE  s9' \in Nat /\ Onvif!CountsUsed' /\ s19' = FALSE /\ s20' = FALSE
  <1>1. s20' = FALSE
    BY Zenon DEF Onvif!Sends, Onvif!Target, Onvif!Admitted, Onvif!ProbeType
  <1>2. CASE s8 = 0
    BY <1>1, <1>2 DEF Onvif!Sends, Onvif!CountsUsed, Onvif!ProbeType
  <1>3. CASE s8 # 0
    <2> DEFINE use == <<s8, s9 + 1>>
    <2>1. s9' = s9 + 1 /\ s18' = s18 \cup {use} /\ s19' = (s19 \/ use \in s18)
      BY <1>3 DEF Onvif!Sends, Onvif!NextCount
    <2>2. s9 \in Nat
      BY DEF Onvif!ProbeType
    <2>3. use \notin s18
      BY <2>2 DEF Onvif!CountsUsed
    <2>4. \A u \in s18' : u[2] \in 1..s9'
      BY <2>1, <2>2 DEF Onvif!CountsUsed
    <2>5. s19' = FALSE
      BY Zenon, <2>1, <2>3
    <2>6. QED
      BY <1>1, <2>1, <2>2, <2>4, <2>5 DEF Onvif!CountsUsed
  <1>4. QED
    BY <1>2, <1>3

\* A camera that behaves refuses only a time other than its own.
LEMMA AnswersExplained ==
  ASSUME Onvif!ProbeType, Onvif!RefusalsExplained, Onvif!CameraAnswers, s4 \in {"send", "again"},
         s3' = s3, s10' = s10, s11' = s11, s12' = s12, s14' = s14, s17' = s17
  PROVE  Onvif!RefusalsExplained'
  <1> SUFFICES ASSUME s3, ~s17
               PROVE  /\ s4' # "refused"
                      /\ s4' = "answer" /\ s6' = "auth_failed" => ~s12 /\ Onvif!CreatedAt # s14
                      /\ s12 => s10 /\ s11 = s14
    BY DEF Onvif!RefusalsExplained, Onvif!CreatedAt
  <1>1. s12 => s10 /\ s11 = s14
    BY DEF Onvif!RefusalsExplained
  <1>2. CASE s4' = s4
    BY <1>1, <1>2
  <1>3. CASE s4' = "answer" /\ s6' # "auth_failed"
    BY <1>1, <1>3
  <1>4. CASE s4' = "answer" /\ ~Onvif!Accepts /\ s8 = s15 /\ s8 # 0
    <2>1. Onvif!CreatedAt # s14
      BY <1>4 DEF Onvif!Accepts
    <2>2. ~s12
      BY Zenon, <1>1, <2>1 DEF Onvif!CreatedAt
    <2>3. QED
      BY <1>1, <1>4, <2>1, <2>2
  <1>5. QED
    BY <1>2, <1>3, <1>4 DEF Onvif!CameraAnswers, Onvif!Ends, Onvif!Challenged

\* Every step of a probe keeps its invariant.
LEMMA ProbeStep == Onvif!ProbeInv /\ Onvif!ProbeNext => Onvif!ProbeInv'
  <1> SUFFICES ASSUME Onvif!ProbeInv, Onvif!ProbeNext PROVE Onvif!ProbeInv'
    OBVIOUS
  <1>T. /\ Onvif!ProbeType /\ Onvif!RefusalsExplained /\ Onvif!CountsUsed
        /\ Onvif!HonestNotRefused /\ ~s19 /\ ~s20
    BY DEF Onvif!ProbeInv, Onvif!NoAuthorizationReplayed, Onvif!AccountProtected
  <1>B. /\ s2 \in BOOLEAN /\ s3 \in BOOLEAN /\ s10 \in BOOLEAN /\ s12 \in BOOLEAN
        /\ s17 \in BOOLEAN /\ s19 = FALSE /\ s20 = FALSE
    BY Zenon, <1>T DEF Onvif!ProbeType
  <1> USE DEF Onvif!camera, Onvif!memory, Onvif!history, Onvif!place
  <1>1. CASE Onvif!ClockSet
    <2>1. Onvif!ProbeType'
      <3>1. s17' \in BOOLEAN
        BY Zenon, <1>1, <1>B DEF Onvif!ClockSet
      <3>2. QED
        BY <1>1, <1>T, <3>1 DEF Onvif!ClockSet, Onvif!ProbeType
    <2>2. Onvif!RefusalsExplained'
      <3> SUFFICES ASSUME s3', ~s17'
                   PROVE  s4' # "refused" /\ ~(s4' = "answer" /\ s6' = "auth_failed") /\ ~s12'
        BY DEF Onvif!RefusalsExplained
      <3>1. ~s17 /\ ~s12 /\ s6 # "auth_failed" /\ s3
        BY Zenon, <1>1, <1>B DEF Onvif!ClockSet
      <3>2. QED
        BY <1>1, <3>1, <1>T DEF Onvif!ClockSet, Onvif!RefusalsExplained
    <2>3. Onvif!HonestNotRefused'
      BY <1>1 DEF Onvif!ClockSet, Onvif!HonestNotRefused
    <2>4. Onvif!CountsUsed' /\ Onvif!NoAuthorizationReplayed' /\ Onvif!AccountProtected'
      BY <1>1, <1>T DEF Onvif!ClockSet, Onvif!CountsUsed, Onvif!NoAuthorizationReplayed,
         Onvif!AccountProtected
    <2>5. QED
      BY <2>1, <2>2, <2>3, <2>4 DEF Onvif!ProbeInv
  <1>2. CASE Onvif!Clock
    <2>1. s10' \in BOOLEAN
      BY Zenon, <1>2, <1>B DEF Onvif!Clock, Onvif!ReadClock
    <2>2. Onvif!ProbeType'
      BY <1>2, <1>T, <2>1 DEF Onvif!Clock, Onvif!ProbeType
    <2>3. Onvif!RefusalsExplained'
      <3> SUFFICES ASSUME s3', ~s17', s12' PROVE s10' /\ s11' = s14'
        BY <1>2 DEF Onvif!Clock, Onvif!RefusalsExplained
      <3>1. s10 /\ s11 = s14
        BY <1>2, <1>T DEF Onvif!Clock, Onvif!RefusalsExplained
      <3>2. QED
        BY Zenon, <1>2, <3>1 DEF Onvif!Clock, Onvif!ReadClock
    <2>4. Onvif!CountsUsed' /\ Onvif!HonestNotRefused' /\ Onvif!NoAuthorizationReplayed'
          /\ Onvif!AccountProtected'
      BY <1>2, <1>T DEF Onvif!Clock, Onvif!CountsUsed, Onvif!HonestNotRefused,
         Onvif!NoAuthorizationReplayed, Onvif!AccountProtected
    <2>5. QED
      BY <2>2, <2>3, <2>4 DEF Onvif!ProbeInv
  <1>3. CASE Onvif!Request
    <2>1. /\ s4 \in {"send", "again"} /\ s1' = s1 /\ s7' = s7 /\ s2' = s2 /\ s3' = s3 /\ s10' = s10
          /\ s11' = s11 /\ s12' = s12 /\ s14' = s14 /\ s17' = s17 /\ s22' = s22
      BY <1>3 DEF Onvif!Request
    <2>2. s9' \in Nat /\ Onvif!CountsUsed' /\ s19' = FALSE /\ s20' = FALSE /\ Onvif!RefusalsExplained'
      <3>1. CASE s13 = 0 \/ (Onvif!Target = s7 /\ ~Onvif!Admitted)
        <4>1. /\ s4' = "answer" /\ s6' \in {"unreachable", "invalid_response"}
              /\ s9' = s9 /\ s18' = s18 /\ s19' = s19 /\ s20' = s20
          BY <1>3, <3>1 DEF Onvif!Request, Onvif!Ends
        <4>2. s9 \in Nat
          BY <1>T DEF Onvif!ProbeType
        <4>3. QED
          BY <1>T, <1>B, <2>1, <4>1, <4>2 DEF Onvif!CountsUsed, Onvif!RefusalsExplained
      <3>2. CASE ~(s13 = 0 \/ (Onvif!Target = s7 /\ ~Onvif!Admitted))
        <4>1. Onvif!Sends /\ Onvif!CameraAnswers
          BY <1>3, <3>2 DEF Onvif!Request
        <4>2. QED
          BY <1>T, <2>1, <3>2, <4>1, SendsFresh, AnswersExplained
      <3>3. QED
        BY <3>1, <3>2
    <2>3. Onvif!ProbeType'
      BY <1>T, <1>B, <2>1, <2>2 DEF Onvif!ProbeType
    <2>4. Onvif!HonestNotRefused'
      BY <1>T, <2>1 DEF Onvif!HonestNotRefused
    <2>5. QED
      BY <2>2, <2>3, <2>4 DEF Onvif!ProbeInv, Onvif!NoAuthorizationReplayed, Onvif!AccountProtected
  <1>4. CASE Onvif!Recheck
    <2>1. /\ s1' = s1 /\ s7' = s7 /\ s2' = s2 /\ s3' = s3 /\ s9' = s9 /\ s14' = s14 /\ s18' = s18
          /\ s19' = s19 /\ s20' = s20 /\ s22' = s22 /\ s12' = TRUE
          /\ s4 = "answer" /\ s6 = "auth_failed" /\ ~s12
      BY <1>4 DEF Onvif!Recheck, Onvif!MayRecheck
    <2>2. s10' \in BOOLEAN /\ s17' \in BOOLEAN
      BY Zenon, <1>4, <1>B DEF Onvif!Recheck, Onvif!ReadClock
    <2>3. Onvif!ProbeType'
      BY <1>T, <1>B, <2>1, <2>2 DEF Onvif!ProbeType
    <2>4. Onvif!RefusalsExplained'
      <3> SUFFICES ASSUME s3, ~s17' PROVE s4' = "again" /\ s10' /\ s11' = s14
        BY <2>1 DEF Onvif!RefusalsExplained
      <3>1. s13 # 0
        BY Zenon, <1>4 DEF Onvif!Recheck
      <3>2. PICK ok \in BOOLEAN :
              /\ Onvif!ReadClock(ok) /\ s17' = (s17 \/ ~ok)
              /\ s4' = IF ok /\ s14 # Onvif!CreatedAt THEN "again" ELSE "refused"
        BY <1>4, <3>1 DEF Onvif!Recheck
      <3>3. ok /\ ~s17
        BY Zenon, <3>2
      <3>4. Onvif!CreatedAt # s14
        BY <1>T, <2>1, <3>3 DEF Onvif!RefusalsExplained
      <3>5. s4' = "again"
        BY <3>2, <3>3, <3>4
      <3>6. s10' /\ s11' = s14
        BY Zenon, <3>2, <3>3 DEF Onvif!ReadClock
      <3>7. QED
        BY <3>5, <3>6
    <2>5. Onvif!HonestNotRefused'
      BY <1>T, <1>4, <2>1, <2>2 DEF Onvif!HonestNotRefused, Onvif!Recheck
    <2>6. QED
      BY <1>T, <2>1, <2>3, <2>4, <2>5
         DEF Onvif!ProbeInv, Onvif!CountsUsed, Onvif!NoAuthorizationReplayed, Onvif!AccountProtected
  <1>5. CASE Onvif!Proceed
    <2>1. /\ s2' = s2 /\ s3' = s3 /\ s9' = s9 /\ s10' = s10 /\ s11' = s11 /\ s12' = s12 /\ s14' = s14
          /\ s17' = s17 /\ s18' = s18 /\ s19' = s19 /\ s20' = s20
      BY <1>5 DEF Onvif!Proceed
    <2>2. s7' \in {"own", "http", "https"} /\ s1 # "describe" /\ s1' # "describe"
      BY <1>5, <1>T DEF Onvif!Proceed, Onvif!ProbeType, Onvif!Capabilities, Onvif!Profiles,
         Onvif!Services,
         Onvif!Profiles2, Onvif!StreamUri, Onvif!Given, Onvif!Goes, Onvif!Fails
    <2>3. Onvif!ProbeType'
      BY <1>T, <1>B, <2>1, <2>2 DEF Onvif!ProbeType
    <2>4. s3 /\ ~s17 => ~(s6 = "auth_failed")
      BY <1>5, <1>T DEF Onvif!Proceed, Onvif!Settled, Onvif!MayRecheck, Onvif!RefusalsExplained
    <2>5. s22' # s22 => s22' \in {s6, "invalid_response", "unsupported", "profiles"}
      BY <1>5 DEF Onvif!Proceed, Onvif!Capabilities, Onvif!Profiles, Onvif!Services,
         Onvif!Profiles2, Onvif!StreamUri, Onvif!Given, Onvif!Goes, Onvif!Fails
    <2>6. Onvif!HonestNotRefused'
      BY <1>T, <2>1, <2>4, <2>5 DEF Onvif!HonestNotRefused
    <2>7. s4' = "send" \/ (s4' = s4 /\ s6' = s6)
      BY <1>5 DEF Onvif!Proceed, Onvif!Capabilities, Onvif!Profiles, Onvif!Services,
         Onvif!Profiles2, Onvif!StreamUri, Onvif!Given, Onvif!Goes, Onvif!Fails
    <2>8. Onvif!RefusalsExplained'
      BY <1>T, <2>1, <2>7 DEF Onvif!RefusalsExplained, Onvif!CreatedAt
    <2>9. QED
      BY <1>T, <2>1, <2>3, <2>6, <2>8
         DEF Onvif!ProbeInv, Onvif!CountsUsed, Onvif!NoAuthorizationReplayed, Onvif!AccountProtected
  <1>6. CASE Onvif!Describe
    <2>1. /\ s1 = "describe" /\ s1' \in {"describe", "done"} /\ s7' = s7 /\ s2' = s2 /\ s3' = s3
          /\ s10' = s10 /\ s12' = s12 /\ s17' = s17
      BY <1>6 DEF Onvif!Describe
    <2>2. s3 = FALSE
      BY <1>T, <1>B, <2>1 DEF Onvif!ProbeType
    <2>3. s9' \in Nat /\ Onvif!CountsUsed' /\ s19' = FALSE /\ s20' = FALSE
      <3>1. CASE s13 = 0
        BY <1>6, <1>T, <1>B, <3>1 DEF Onvif!Describe, Onvif!CountsUsed, Onvif!ProbeType
      <3>2. CASE s13 # 0
        <4>1. Onvif!Sends
          BY <1>6, <3>2 DEF Onvif!Describe
        <4>2. Onvif!Target # s7 \/ Onvif!Admitted
          BY <2>1 DEF Onvif!Target, Onvif!Admitted
        <4>3. QED
          BY <1>T, <4>1, <4>2, SendsFresh
      <3>3. QED
        BY <3>1, <3>2
    <2>4. Onvif!ProbeType'
      BY <1>T, <1>B, <2>1, <2>2, <2>3 DEF Onvif!ProbeType
    <2>5. QED
      BY <2>1, <2>2, <2>3, <2>4
         DEF Onvif!ProbeInv, Onvif!NoAuthorizationReplayed, Onvif!AccountProtected,
             Onvif!HonestNotRefused, Onvif!RefusalsExplained
  <1>7. QED
    BY <1>1, <1>2, <1>3, <1>4, <1>5, <1>6 DEF Onvif!ProbeNext

-----------------------------------------------------------------------------
(* Person events.                                                          *)

\* Before the first scan nothing was seen, asked or stored.
LEMMA EventsBegin == Persons!EvInit => Persons!EvInv
  <1> SUFFICES ASSUME Persons!EvInit PROVE Persons!EvInv
    OBVIOUS
  <1>1. s16 \in BOOLEAN /\ s21 \in BOOLEAN
    BY Zenon DEF Persons!EvInit
  <1>2. (CHOOSE c \in Cams : TRUE) \in Cams
    BY ServicesAssumption
  <1>3. s10.cam \in Cams /\ s12 = s10.cam
    BY <1>2 DEF Persons!EvInit
  <1>4. Persons!EvType
    BY <1>1, <1>3 DEF Persons!EvInit, Persons!EvType, Persons!Sizes, Persons!NoFiles
  <1>5. Persons!SizesOrdered
    BY DEF Persons!EvInit, Persons!SizesOrdered, Persons!Below, Persons!NoFiles
  <1>6. Persons!WantsGrowth /\ Persons!PipeFollows /\ Persons!Closing /\ Persons!AnswersMatch
        /\ Persons!EventsCurrent
    BY DEF Persons!EvInit, Persons!WantsGrowth, Persons!PipeFollows, Persons!Closing,
       Persons!AnswersMatch, Persons!EventsCurrent
  <1>7. QED
    BY <1>4, <1>5, <1>6 DEF Persons!EvInv

\* A scan's new sizes lie between those of the scan before and the disk's.
LEMMA NoticedBetween ==
  ASSUME NEW c \in Cams, Persons!EvType, Persons!SizesOrdered, NEW old \in s5[c]
  PROVE  /\ Persons!Noticed(c, old) \in Persons!Sizes
         /\ Persons!Below(old, Persons!Noticed(c, old)) /\ Persons!Below(Persons!Noticed(c, old), s1[c])
  <1>1. old \in Persons!Sizes /\ s1[c] \in Persons!Sizes /\ s2[c] \in Persons!Sizes
    BY DEF Persons!EvType
  <1>2. Persons!Below(old, s1[c]) /\ Persons!Below(s2[c], s1[c])
    BY DEF Persons!SizesOrdered
  <1> DEFINE inv == [f \in Persons!FileIds |-> IF s2[c][f] = 0 THEN 0
                                               ELSE IF old[f] > s2[c][f] THEN old[f] ELSE s2[c][f]]
             cand == {f \in Persons!FileIds : inv[f] # old[f]} \cup s6[c]
             new == [f \in Persons!FileIds |-> IF f \in cand THEN s1[c][f] ELSE inv[f]]
  <1>3. Persons!Noticed(c, old) = new
    BY DEF Persons!Noticed
  <1>4. ASSUME NEW f \in Persons!FileIds
        PROVE  new[f] \in Nat /\ old[f] <= new[f] /\ new[f] <= s1[c][f]
    <2>1. old[f] \in Nat /\ s1[c][f] \in Nat /\ s2[c][f] \in Nat /\ old[f] <= s1[c][f]
          /\ s2[c][f] <= s1[c][f]
      BY <1>1, <1>2 DEF Persons!Sizes, Persons!Below
    <2>2. inv[f] \in Nat /\ inv[f] <= s1[c][f]
      BY <2>1
    <2>3. f \notin cand => inv[f] = old[f]
      OBVIOUS
    <2>4. new[f] = IF f \in cand THEN s1[c][f] ELSE inv[f]
      OBVIOUS
    <2>5. QED
      BY ONLY <2>1, <2>2, <2>3, <2>4
  <1>5. new \in Persons!Sizes
    BY <1>4 DEF Persons!Sizes
  <1>6. QED
    BY <1>3, <1>4, <1>5 DEF Persons!Below

\* The files to ask for come in some order, each of them once.
LEMMA OrderedFiles ==
  ASSUME NEW fs \in SUBSET Persons!FileIds, fs # {}, NEW old, NEW new, NEW s \in Persons!Ordered(fs, old, new)
  PROVE  s \in Seq(fs) /\ s # <<>>
  <1>1. IsFiniteSet(Persons!FileIds)
    BY ServicesAssumption, FS_Interval DEF Persons!FileIds
  <1>2. IsFiniteSet(fs)
    BY <1>1, FS_Subset
  <1>3. Cardinality(fs) \in Nat /\ Cardinality(fs) # 0
    BY <1>2, FS_CardinalityType, FS_EmptySet
  <1>4. Persons!Cardinality(fs) = Cardinality(fs)
    BY Zenon DEF Persons!Cardinality, Cardinality
  <1>5. s \in [1..Cardinality(fs) -> fs]
    BY <1>4 DEF Persons!Ordered
  <1>6. QED
    BY <1>3, <1>5

\* The parts of the invariant say nothing of the variables a step leaves alone.
LEMMA EventsScan == Persons!EvInv /\ Persons!Scan => Persons!EvInv'
  <1> SUFFICES ASSUME Persons!EvInv, Persons!Scan PROVE Persons!EvInv'
    OBVIOUS
  <1>T. Persons!EvType /\ Persons!SizesOrdered /\ Persons!WantsGrowth /\ Persons!PipeFollows
    BY DEF Persons!EvInv
  <1>U. /\ s11 = "scan" /\ s11' \in {"done", "ask"}
        /\ s1' = s1 /\ s2' = s2 /\ s3' = s3 /\ s4' = s4 /\ s8' = s8 /\ s10' = s10 /\ s12' = s12
        /\ s14' = s14 /\ s16' = s16 /\ s18' = s18 /\ s19' = s19 /\ s21' = s21 /\ s22' = s22
    BY DEF Persons!Scan, Persons!camvars, Persons!svcvars, Persons!procvars
  <1>c. s12 \in Cams
    BY <1>T DEF Persons!EvType
  <1>1. PICK new \in Persons!Sizes :
          /\ s5' = [s5 EXCEPT ![s12] = {new}] /\ Persons!Below(new, s1[s12])
          /\ Persons!Below(s7'[s12], new)
          /\ s7' \in [Cams -> Persons!Sizes]
          /\ \A c \in Cams : s5[c] # {} => s7'[c] = s7[c]
          /\ \A c \in Cams : c # s12 => s7'[c] = s7[c]
          /\ s13' \in Seq(Persons!Frames) /\ (s11' = "ask" => s13' # <<>>)
          /\ \/ s13' = s13
             \/ \A i \in DOMAIN s13' : s13'[i].cam = s12 /\ s13'[i].size > s7'[s12][s13'[i].file]
    <2>1. CASE s5[s12] = {}
      <3>1. s7' = [s7 EXCEPT ![s12] = s2[s12]] /\ s5' = [s5 EXCEPT ![s12] = {s2[s12]}] /\ s13' = s13
            /\ s11' = "done"
        BY <2>1 DEF Persons!Scan, Persons!Cold
      <3>2. s2[s12] \in Persons!Sizes /\ Persons!Below(s2[s12], s1[s12])
        BY <1>c, <1>T DEF Persons!EvType, Persons!SizesOrdered
      <3>3. Persons!Below(s2[s12], s2[s12])
        BY <3>2 DEF Persons!Below, Persons!Sizes
      <3>4. s7'[s12] = s2[s12] /\ s7' \in [Cams -> Persons!Sizes]
            /\ \A c \in Cams : c # s12 => s7'[c] = s7[c]
        BY <1>c, <1>T, <3>1, <3>2 DEF Persons!EvType
      <3>5. s13' \in Seq(Persons!Frames)
        BY <1>T, <3>1 DEF Persons!EvType
      <3>6. QED
        BY <2>1, <3>1, <3>2, <3>3, <3>4, <3>5
    <2>2. CASE s5[s12] # {}
      <3> DEFINE old == IF s5[s12] = {} THEN Persons!NoFiles ELSE CHOOSE o \in s5[s12] : TRUE
                 new == Persons!Noticed(s12, old)
                 changed == {f \in Persons!FileIds : new[f] # old[f] /\ new[f] > 0}
      <3>1. s7' = s7 /\ s5' = [s5 EXCEPT ![s12] = {new}]
            /\ \/ changed = {} /\ s11' = "done" /\ s13' = s13
               \/ changed # {} /\ \E s \in Persons!Ordered(changed, old, new) :
                    s13' = [i \in DOMAIN s |-> Persons!Frame(s12, s[i], new[s[i]])]
        BY <2>2 DEF Persons!Scan, Persons!Cold
      <3>2. old \in s5[s12]
        BY <2>2
      <3>3. new \in Persons!Sizes /\ Persons!Below(old, new) /\ Persons!Below(new, s1[s12])
        BY <1>c, <1>T, <3>2, NoticedBetween
      <3>4. old \in Persons!Sizes /\ Persons!Below(s7[s12], old) /\ s7[s12] \in Persons!Sizes
        BY <1>c, <1>T, <3>2 DEF Persons!EvType, Persons!SizesOrdered
      <3>5. Persons!Below(s7'[s12], new) /\ s7' \in [Cams -> Persons!Sizes]
        <4>1. \A f \in Persons!FileIds : s7[s12][f] <= new[f]
          <5> HIDE DEF new, old
          <5> QED BY <3>3, <3>4 DEF Persons!Below, Persons!Sizes
        <4>2. QED
          BY <1>T, <3>1, <4>1 DEF Persons!EvType, Persons!Below
      <3>6. \A f \in changed : new[f] \in Nat /\ new[f] > s7[s12][f]
        BY <3>3, <3>4 DEF Persons!Below, Persons!Sizes
      <3>7. CASE changed # {}
        <4>1. PICK s \in Persons!Ordered(changed, old, new) :
                s13' = [i \in DOMAIN s |-> Persons!Frame(s12, s[i], new[s[i]])]
          BY <3>1, <3>7
        <4>2. changed \in SUBSET Persons!FileIds
          OBVIOUS
        <4>3. s \in Seq(changed) /\ s # <<>>
          BY <3>7, <4>1, <4>2, OrderedFiles
        <4> HIDE DEF new, old
        <4>4. \A i \in DOMAIN s : s[i] \in changed
          BY <4>3
        <4>5. ASSUME NEW i \in DOMAIN s
              PROVE  Persons!Frame(s12, s[i], new[s[i]]) \in Persons!Frames
          BY <1>c, <3>6, <4>4, <4>5 DEF Persons!Frame, Persons!Frames
        <4>6. s13' \in Seq(Persons!Frames) /\ s13' # <<>>
          BY <4>1, <4>3, <4>5
        <4>7. \A i \in DOMAIN s13' : s13'[i].cam = s12 /\ s13'[i].size > s7'[s12][s13'[i].file]
          BY <3>1, <3>6, <4>1, <4>4 DEF Persons!Frame
        <4>8. QED
          BY <3>1, <3>3, <3>5, <4>6, <4>7
      <3>8. CASE changed = {}
        BY <1>T, <3>1, <3>3, <3>5, <3>8 DEF Persons!EvType
      <3>9. QED
        BY <3>7, <3>8
    <2>3. QED
      BY <2>1, <2>2
  <1>2. s5' \in [Cams -> SUBSET Persons!Sizes] /\ s5'[s12] = {new}
        /\ \A c \in Cams : s5[c] # {} => s5'[c] # {}
    BY <1>c, <1>T, <1>1 DEF Persons!EvType
  <1>3. Persons!EvType'
    BY <1>T, <1>U, <1>1, <1>2 DEF Persons!EvType, Persons!Sizes, Persons!Frames, Persons!FileIds
  <1>4. Persons!SizesOrdered'
    <2> SUFFICES ASSUME NEW c \in Cams
                 PROVE  /\ Persons!Below(s2[c], s1[c])
                        /\ \A o \in s5'[c] : s5'[c] = {o} /\ Persons!Below(s7'[c], o) /\ Persons!Below(o, s1[c])
      BY <1>U DEF Persons!SizesOrdered, Persons!Below, Persons!FileIds
    <2>1. CASE c = s12
      BY <1>T, <1>1, <1>2, <2>1 DEF Persons!SizesOrdered
    <2>2. CASE c # s12
      BY <1>T, <1>1, <2>2 DEF Persons!SizesOrdered, Persons!EvType
    <2>3. QED
      BY <2>1, <2>2
  <1>5. ASSUME NEW f \in Persons!Frames, Persons!Growth(f)
        PROVE  s5'[f.cam] # {} /\ f.size > s7'[f.cam][f.file]
    BY <1>1, <1>2, <1>5 DEF Persons!Growth, Persons!Frames
  <1>6. \A i \in DOMAIN s13' : s13'[i].cam = s12 /\ s5'[s12] # {} /\ s13'[i].size > s7'[s12][s13'[i].file]
    <2> SUFFICES ASSUME NEW i \in DOMAIN s13'
                 PROVE  s13'[i].cam = s12 /\ s5'[s12] # {} /\ s13'[i].size > s7'[s12][s13'[i].file]
      OBVIOUS
    <2>1. CASE s13' = s13
      <3>1. s13[i] \in Persons!Frames /\ s13[i].cam = s12 /\ Persons!Growth(s13[i])
        BY <1>T, <2>1 DEF Persons!EvType, Persons!WantsGrowth
      <3>2. QED
        BY <1>5, <2>1, <3>1
    <2>2. CASE s13' # s13
      BY <1>1, <1>2, <2>2
    <2>3. QED
      BY <2>1, <2>2
  <1>7. Persons!WantsGrowth'
    <2>1. \A a \in s14 : a.want.cam = s12 /\ s5'[a.want.cam] # {} /\ a.want.size > s7'[a.want.cam][a.want.file]
      BY <1>T, <1>U, <1>5 DEF Persons!EvType, Persons!WantsGrowth
    <2>2. \A r \in s22 : s5'[r.frame.cam] # {} /\ r.frame.size > s7'[r.frame.cam][r.frame.file]
      BY <1>T, <1>U, <1>5 DEF Persons!EvType, Persons!WantsGrowth
    <2>3. QED
      BY <1>U, <1>1, <1>6, <2>1, <2>2 DEF Persons!WantsGrowth, Persons!Growth
  <1>8. Persons!PipeFollows' /\ Persons!Closing' /\ Persons!AnswersMatch' /\ Persons!EventsCurrent'
    BY <1>U DEF Persons!EvInv, Persons!PipeFollows, Persons!Closing, Persons!AnswersMatch,
       Persons!EventsCurrent
  <1>9. QED
    BY <1>3, <1>4, <1>7, <1>8 DEF Persons!EvInv

\* The recorder's files grow, and the inventory follows them; settings and sources change.
LEMMA EventsOutside ==
  ASSUME Persons!EvInv, UNCHANGED <<s8, s9, s10>>, UNCHANGED Persons!thrvars,
         UNCHANGED Persons!procvars, UNCHANGED s22,
         \/ \E c \in Cams, f \in Persons!FileIds : Persons!Grow(c, f)
         \/ \E c \in Cams : Persons!RefreshInventory(c) \/ Persons!Readdress(c)
         \/ \E c \in Cams, on \in BOOLEAN : Persons!Configure(c, on)
  PROVE  Persons!EvInv'
  <1>T. Persons!EvType /\ Persons!SizesOrdered
    BY DEF Persons!EvInv
  <1>U. UNCHANGED <<s5, s7, s8, s10, s11, s12, s13, s14, s16, s18, s19, s21, s22>>
    BY DEF Persons!thrvars, Persons!procvars
  <1>1. /\ s1' \in [Cams -> Persons!Sizes] /\ s2' \in [Cams -> Persons!Sizes]
        /\ s3' \in [Cams -> [rec : BOOLEAN, uri : Nat]] /\ s4' \in [Cams -> [on : BOOLEAN, gen : Nat]]
        /\ \A c \in Cams : Persons!Below(s1[c], s1'[c]) /\ (s2'[c] = s2[c] \/ (s2'[c] = s1[c] /\ s1' = s1))
    <2>0. \A c \in Cams : s1[c] \in Persons!Sizes /\ Persons!Below(s1[c], s1[c])
      BY <1>T DEF Persons!EvType, Persons!Sizes, Persons!Below
    <2>1. ASSUME NEW c \in Cams, NEW f \in Persons!FileIds, Persons!Grow(c, f)
          PROVE  /\ s1' \in [Cams -> Persons!Sizes] /\ s2' \in [Cams -> Persons!Sizes]
                 /\ s3' \in [Cams -> [rec : BOOLEAN, uri : Nat]] /\ s4' \in [Cams -> [on : BOOLEAN, gen : Nat]]
                 /\ \A d \in Cams : Persons!Below(s1[d], s1'[d]) /\ (s2'[d] = s2[d] \/ (s2'[d] = s1[d] /\ s1' = s1))
      <3>1. s1' = [s1 EXCEPT ![c][f] = @ + 1] /\ s2' = s2 /\ s3' = s3 /\ s4' = s4
        BY <2>1 DEF Persons!Grow
      <3>2. s1' \in [Cams -> Persons!Sizes] /\ Persons!Below(s1[c], s1'[c])
        <4>1. s1[c] \in Persons!Sizes /\ s1' = [s1 EXCEPT ![c] = [s1[c] EXCEPT ![f] = s1[c][f] + 1]]
          BY <1>T, <3>1 DEF Persons!EvType
        <4>2. [s1[c] EXCEPT ![f] = s1[c][f] + 1] \in Persons!Sizes
              /\ \A g \in Persons!FileIds : s1[c][g] <= [s1[c] EXCEPT ![f] = s1[c][f] + 1][g]
          BY <4>1 DEF Persons!Sizes
        <4>3. QED
          BY <1>T, <4>1, <4>2 DEF Persons!EvType, Persons!Below
      <3>3. \A d \in Cams : Persons!Below(s1[d], s1'[d])
        BY <1>T, <2>0, <3>1, <3>2 DEF Persons!EvType
      <3>4. QED
        BY <1>T, <3>1, <3>2, <3>3 DEF Persons!EvType
    <2>2. ASSUME NEW c \in Cams, Persons!RefreshInventory(c)
          PROVE  /\ s1' \in [Cams -> Persons!Sizes] /\ s2' \in [Cams -> Persons!Sizes]
                 /\ s3' \in [Cams -> [rec : BOOLEAN, uri : Nat]] /\ s4' \in [Cams -> [on : BOOLEAN, gen : Nat]]
                 /\ \A d \in Cams : Persons!Below(s1[d], s1'[d]) /\ (s2'[d] = s2[d] \/ (s2'[d] = s1[d] /\ s1' = s1))
      <3>1. s2' = [s2 EXCEPT ![c] = s1[c]] /\ s1' = s1 /\ s3' = s3 /\ s4' = s4
        BY <2>2 DEF Persons!RefreshInventory
      <3>2. QED
        BY <1>T, <2>0, <3>1 DEF Persons!EvType
    <2>3. ASSUME NEW c \in Cams, Persons!Readdress(c)
          PROVE  /\ s1' \in [Cams -> Persons!Sizes] /\ s2' \in [Cams -> Persons!Sizes]
                 /\ s3' \in [Cams -> [rec : BOOLEAN, uri : Nat]] /\ s4' \in [Cams -> [on : BOOLEAN, gen : Nat]]
                 /\ \A d \in Cams : Persons!Below(s1[d], s1'[d]) /\ (s2'[d] = s2[d] \/ (s2'[d] = s1[d] /\ s1' = s1))
      <3>1. s3' = [s3 EXCEPT ![c].uri = 1] /\ s1' = s1 /\ s2' = s2 /\ s4' = s4
        BY <2>3 DEF Persons!Readdress
      <3>2. QED
        BY <1>T, <2>0, <3>1 DEF Persons!EvType
    <2>4. ASSUME NEW c \in Cams, NEW on \in BOOLEAN, Persons!Configure(c, on)
          PROVE  /\ s1' \in [Cams -> Persons!Sizes] /\ s2' \in [Cams -> Persons!Sizes]
                 /\ s3' \in [Cams -> [rec : BOOLEAN, uri : Nat]] /\ s4' \in [Cams -> [on : BOOLEAN, gen : Nat]]
                 /\ \A d \in Cams : Persons!Below(s1[d], s1'[d]) /\ (s2'[d] = s2[d] \/ (s2'[d] = s1[d] /\ s1' = s1))
      <3>1. s4' = [s4 EXCEPT ![c] = [on |-> on, gen |-> @.gen + 1]] /\ s1' = s1 /\ s2' = s2 /\ s3' = s3
        BY <2>4 DEF Persons!Configure
      <3>2. [on |-> on, gen |-> s4[c].gen + 1] \in [on : BOOLEAN, gen : Nat]
        BY <1>T DEF Persons!EvType
      <3>3. QED
        BY <1>T, <2>0, <3>1, <3>2 DEF Persons!EvType
    <2>5. QED
      BY <2>1, <2>2, <2>3, <2>4
  <1>2. Persons!EvType'
    BY <1>T, <1>U, <1>1 DEF Persons!EvType, Persons!Sizes, Persons!Frames, Persons!FileIds
  <1>3. Persons!SizesOrdered'
    <2> SUFFICES ASSUME NEW c \in Cams
                 PROVE  /\ Persons!Below(s2'[c], s1'[c])
                        /\ \A o \in s5[c] : s5[c] = {o} /\ Persons!Below(s7[c], o) /\ Persons!Below(o, s1'[c])
      BY <1>U DEF Persons!SizesOrdered, Persons!Below, Persons!FileIds
    <2>1. ASSUME NEW a \in Persons!Sizes, Persons!Below(a, s1[c]) PROVE Persons!Below(a, s1'[c])
      <3>1. Persons!Below(s1[c], s1'[c])
        BY Zenon, <1>1
      <3>3. s1[c] \in Persons!Sizes
        BY <1>T DEF Persons!EvType
      <3>4. s1'[c] \in Persons!Sizes
        BY <1>1
      <3>2. QED
        BY <2>1, <3>1, <3>3, <3>4 DEF Persons!Below, Persons!Sizes
    <2>2. Persons!Below(s2[c], s1[c]) /\ s2[c] \in Persons!Sizes /\ s1[c] \in Persons!Sizes
      BY <1>T DEF Persons!EvType, Persons!SizesOrdered
    <2>3. Persons!Below(s1[c], s1[c])
      BY <2>2 DEF Persons!Below, Persons!Sizes
    <2>4. Persons!Below(s2'[c], s1'[c])
      BY <1>1, <2>1, <2>2, <2>3
    <2>5. QED
      BY <1>T, <2>1, <2>4 DEF Persons!EvType, Persons!SizesOrdered
  <1>4. Persons!WantsGrowth' /\ Persons!PipeFollows' /\ Persons!Closing' /\ Persons!AnswersMatch'
        /\ Persons!EventsCurrent'
    BY <1>U DEF Persons!EvInv, Persons!WantsGrowth, Persons!Growth, Persons!PipeFollows,
       Persons!Closing,
       Persons!AnswersMatch, Persons!EventsCurrent
  <1>5. QED
    BY <1>2, <1>3, <1>4 DEF Persons!EvInv

\* The request on the pipe gets its own answer, whatever died or expired before.
LEMMA EventsAsked ==
  ASSUME Persons!EvInv, UNCHANGED Persons!camvars, UNCHANGED <<s5, s6, s7, s10, s12, s22>>,
         \/ Persons!Ask \/ Persons!AskFails \/ Persons!ProcAnswers \/ Persons!ProcDies \/ Persons!Deadline
         \/ Persons!ReadFrame \/ Persons!ReadFails \/ Persons!CloseBegins \/ Persons!CloseEnds
  PROVE  Persons!EvInv'
  <1>T. /\ Persons!EvType /\ Persons!SizesOrdered /\ Persons!WantsGrowth /\ Persons!PipeFollows
        /\ Persons!Closing /\ Persons!AnswersMatch /\ Persons!EventsCurrent
    BY DEF Persons!EvInv
  <1>U. UNCHANGED <<s1, s2, s3, s4>>
    BY DEF Persons!camvars
  <1> USE DEF Persons!svcvars, Persons!thrvars, Persons!procvars, Persons!NoProcess
  <1>1. s16' \in BOOLEAN /\ s21' \in BOOLEAN /\ (s8' \in {"closing", "closed"} => s21' /\ ~s16')
    <2>0. s16 \in BOOLEAN /\ s21 \in BOOLEAN /\ (s8 \in {"closing", "closed"} => s21 /\ ~s16)
      BY Zenon, <1>T DEF Persons!EvType, Persons!Closing
    <2>1. CASE Persons!Ask
      BY Zenon, <2>0, <2>1 DEF Persons!Ask, Persons!Refused
    <2>2. CASE Persons!AskFails \/ Persons!ProcAnswers \/ Persons!ProcDies \/ Persons!Deadline
      <3>1. s8' = s8 /\ s21' = s21 /\ (s16' = s16 \/ s16' = FALSE)
        BY Zenon, <2>2 DEF Persons!AskFails, Persons!ProcAnswers, Persons!ProcDies, Persons!Deadline
      <3>2. CASE s16' = s16
        BY Zenon, <2>0, <3>1, <3>2
      <3>3. CASE s16' = FALSE
        BY Zenon, <2>0, <3>1, <3>3
      <3>4. QED
        BY Zenon, <3>1, <3>2, <3>3
    <2>3. CASE Persons!ReadFrame
      BY Zenon, <2>0, <2>3 DEF Persons!ReadFrame, Persons!KeepProcess
    <2>4. CASE Persons!ReadFails
      BY Zenon, <2>0, <2>4 DEF Persons!ReadFails, Persons!CloseFailed
    <2>5. CASE Persons!CloseBegins \/ Persons!CloseEnds
      <3>1. CASE Persons!CloseBegins
        BY Zenon, <3>1 DEF Persons!CloseBegins
      <3>2. CASE Persons!CloseEnds
        <4>1. s8 = "closing" /\ s21' = s21 /\ s16' = FALSE
          BY Zenon, <3>2 DEF Persons!CloseEnds
        <4>2. s8 \in {"closing", "closed"}
          BY <4>1
        <4>3. QED
          BY Zenon, <2>0, <4>1, <4>2
      <3>3. QED
        BY Zenon, <2>5, <3>1, <3>2
    <2>6. QED
      BY Zenon, <2>1, <2>2, <2>3, <2>4, <2>5
  <1>2. /\ \/ s13' = s13
           \/ s11 = "asked" /\ s13' = Tail(s13)
        /\ s11' \in {"ask", "asked"} => s13' # <<>>
        /\ \/ s14' = s14
           \/ s11 = "asked" /\ s14' = {[want |-> s13[1], frame |-> s13[1]]}
    <2>1. CASE Persons!ReadFrame
      <3>1. s11 = "asked" /\ s18 # <<>> /\ Head(s18).kind \in {"frame", "empty"}
        BY <2>1 DEF Persons!ReadFrame
      <3>2. Head(s18).frame = s13[1]
        BY <1>T, <3>1 DEF Persons!PipeFollows
      <3>3. s13 # <<>> /\ s13 \in Seq(Persons!Frames)
        BY <1>T, <3>1 DEF Persons!WantsGrowth, Persons!EvType
      <3>4. QED
        BY <2>1, <3>1, <3>2, <3>3 DEF Persons!ReadFrame
    <2>2. CASE Persons!Ask \/ Persons!AskFails
      BY <1>T, <2>2 DEF Persons!Ask, Persons!AskFails, Persons!WantsGrowth
    <2>3. CASE \/ Persons!ProcAnswers \/ Persons!ProcDies \/ Persons!Deadline
               \/ Persons!ReadFails \/ Persons!CloseBegins \/ Persons!CloseEnds
      BY <1>T, <2>3 DEF Persons!ProcAnswers, Persons!ProcDies, Persons!Deadline, Persons!ReadFails,
         Persons!CloseBegins, Persons!CloseEnds, Persons!WantsGrowth
    <2>4. QED
      BY <2>1, <2>2, <2>3
  <1>3. Persons!PipeFollows'
    <2>1. CASE Persons!Ask
      <3>1. s18 = <<>> /\ s19 = {}
        BY <1>T, <2>1 DEF Persons!Ask, Persons!PipeFollows
      <3>2. QED
        BY <2>1, <3>1 DEF Persons!Ask, Persons!PipeFollows
    <2>2. CASE Persons!AskFails
      BY <1>T, <2>2 DEF Persons!AskFails, Persons!PipeFollows
    <2>3. CASE Persons!ProcAnswers
      <3>1. s11 = "asked" /\ s11' = s11 /\ s13' = s13 /\ s18 = <<>> /\ s19 = {s13[1]} /\ s19' = {}
        BY <1>T, <2>3 DEF Persons!ProcAnswers, Persons!PipeFollows
      <3>2. PICK k \in {"frame", "empty", "bad"} :
              s18' = s18 \o (IF k = "bad" THEN <<[kind |-> "bad", frame |-> s13[1]], [kind |-> "frame", frame |-> s13[1]]>>
                             ELSE <<[kind |-> k, frame |-> s13[1]]>>)
        BY <2>3, <3>1 DEF Persons!ProcAnswers
      <3>3. CASE k = "bad"
        <4>1. s18' = <<[kind |-> "bad", frame |-> s13[1]], [kind |-> "frame", frame |-> s13[1]]>>
          BY <3>1, <3>2, <3>3
        <4>2. QED
          BY <3>1, <4>1 DEF Persons!PipeFollows
      <3>4. CASE k # "bad"
        <4>1. s18' = <<[kind |-> k, frame |-> s13[1]]>> /\ k \in {"frame", "empty"}
          BY <3>1, <3>2, <3>4
        <4>2. QED
          BY <3>1, <4>1 DEF Persons!PipeFollows
      <3>5. QED
        BY <3>3, <3>4
    <2>4. CASE Persons!ProcDies \/ Persons!Deadline \/ Persons!CloseBegins
      BY <1>T, <2>4 DEF Persons!ProcDies, Persons!Deadline, Persons!CloseBegins, Persons!PipeFollows
    <2>5. CASE Persons!ReadFrame
      <3>1. s11 = "asked" /\ s18 # <<>> /\ Head(s18).kind \in {"frame", "empty"}
        BY <2>5 DEF Persons!ReadFrame
      <3>2. Tail(s18) = <<>> /\ s19 = {}
        <4>1. s19 = {} /\ \E m : s18 = <<m>>
          BY <1>T, <3>1 DEF Persons!PipeFollows
        <4>2. QED
          BY <4>1
      <3>3. s11' \in {"ask", "done"}
        BY <2>5 DEF Persons!ReadFrame
      <3>4. QED
        BY <2>5, <3>2, <3>3 DEF Persons!ReadFrame, Persons!KeepProcess, Persons!PipeFollows
    <2>6. CASE Persons!ReadFails \/ Persons!CloseEnds
      BY <2>6 DEF Persons!ReadFails, Persons!CloseFailed, Persons!CloseEnds, Persons!PipeFollows
    <2>7. QED
      BY <2>1, <2>2, <2>3, <2>4, <2>5, <2>6
  <1>4. s11 = "asked" => s13[1] \in Persons!Frames /\ s13[1].cam = s12 /\ Persons!Growth(s13[1])
    <2> SUFFICES ASSUME s11 = "asked" PROVE s13[1] \in Persons!Frames /\ s13[1].cam = s12 /\ Persons!Growth(s13[1])
      OBVIOUS
    <2>1. s13 \in Seq(Persons!Frames) /\ s13 # <<>>
      BY <1>T DEF Persons!EvType, Persons!WantsGrowth
    <2>2. 1 \in DOMAIN s13
      BY <2>1
    <2>3. QED
      BY <1>T, <2>1, <2>2 DEF Persons!WantsGrowth
  <1>5. s13' \in Seq(Persons!Frames) /\ \A i \in DOMAIN s13' : s13'[i] \in {s13[j] : j \in DOMAIN s13}
    <2>1. s13 \in Seq(Persons!Frames)
      BY <1>T DEF Persons!EvType
    <2>2. CASE s13' = s13
      BY <2>1, <2>2
    <2>3. CASE s11 = "asked" /\ s13' = Tail(s13)
      <3>1. s13 # <<>>
        BY <1>T, <2>3 DEF Persons!WantsGrowth
      <3>2. QED
        BY <2>1, <2>3, <3>1
    <2>4. QED
      BY <1>2, <2>2, <2>3
  <1>6. s14' \subseteq [want : Persons!Frames, frame : Persons!Frames]
        /\ \A a \in s14' : a.frame = a.want /\ a.want.cam = s12 /\ Persons!Growth(a.want)
    <2>1. s14 \subseteq [want : Persons!Frames, frame : Persons!Frames]
          /\ \A a \in s14 : a.frame = a.want /\ a.want.cam = s12 /\ Persons!Growth(a.want)
      BY <1>T DEF Persons!EvType, Persons!AnswersMatch, Persons!WantsGrowth
    <2>2. CASE s11 = "asked" /\ s14' = {[want |-> s13[1], frame |-> s13[1]]}
      BY <1>4, <2>2
    <2>3. QED
      BY <1>2, <2>1, <2>2
  <1>7. Persons!EvType'
    BY <1>T, <1>U, <1>1, <1>5, <1>6 DEF Persons!EvType, Persons!Sizes, Persons!Frames,
       Persons!FileIds
  <1>8. Persons!SizesOrdered'
    BY <1>T, <1>U DEF Persons!SizesOrdered, Persons!Below, Persons!FileIds
  <1>9. Persons!WantsGrowth'
    <2>1. \A i \in DOMAIN s13' : s13'[i].cam = s12 /\ s5[s13'[i].cam] # {}
                                 /\ s13'[i].size > s7[s13'[i].cam][s13'[i].file]
      BY <1>T, <1>5 DEF Persons!WantsGrowth, Persons!Growth
    <2>2. QED
      BY <1>T, <1>2, <1>6, <2>1 DEF Persons!WantsGrowth, Persons!Growth
  <1>10. Persons!AnswersMatch' /\ Persons!EventsCurrent' /\ Persons!Closing'
    BY <1>T, <1>1, <1>6 DEF Persons!AnswersMatch, Persons!EventsCurrent, Persons!Closing
  <1>11. QED
    BY <1>3, <1>7, <1>8, <1>9, <1>10 DEF Persons!EvInv

\* The service's loop starts a sample where no thread is at work, and stores what it brings
\* back under the settings it began with.
LEMMA EventsLoop ==
  ASSUME Persons!EvInv, UNCHANGED Persons!camvars, UNCHANGED <<s5, s6, s7>>, UNCHANGED Persons!procvars,
         \/ Persons!Cycle \/ Persons!CycleEnds \/ Persons!SampleTimesOut
         \/ \E c \in Cams : Persons!SampleSkipped(c) \/ Persons!SampleStarts(c)
         \/ Persons!SampleRecorded
  PROVE  Persons!EvInv'
  <1>T. /\ Persons!EvType /\ Persons!SizesOrdered /\ Persons!WantsGrowth /\ Persons!PipeFollows
        /\ Persons!Closing /\ Persons!AnswersMatch /\ Persons!EventsCurrent
    BY DEF Persons!EvInv
  <1>U. UNCHANGED <<s1, s2, s3, s4, s5, s7, s16, s18, s19, s21>>
    BY DEF Persons!camvars, Persons!procvars
  <1>1. Persons!SizesOrdered'
    BY <1>T, <1>U DEF Persons!SizesOrdered, Persons!Below, Persons!FileIds
  <1>2. s8' \notin {"closing", "closed"}
    BY DEF Persons!Cycle, Persons!CycleEnds, Persons!SampleTimesOut, Persons!SampleSkipped,
       Persons!SampleStarts, Persons!SampleRecorded
  <1>3. ASSUME UNCHANGED <<s10, s11, s12, s13, s14, s22>> PROVE Persons!EvInv'
    <2>1. Persons!EvType' /\ Persons!WantsGrowth' /\ Persons!PipeFollows' /\ Persons!AnswersMatch'
          /\ Persons!EventsCurrent'
      BY <1>T, <1>U, <1>3 DEF Persons!EvType, Persons!Sizes, Persons!Frames, Persons!FileIds,
         Persons!WantsGrowth, Persons!Growth, Persons!PipeFollows, Persons!AnswersMatch, Persons!EventsCurrent
    <2>2. QED
      BY <1>1, <1>2, <2>1 DEF Persons!EvInv, Persons!Closing
  <1>4. ASSUME NEW c \in Cams, Persons!SampleStarts(c) PROVE Persons!EvInv'
    <2>1. s10'.cam = c /\ s12' = c /\ s13' = <<>> /\ s14' = {} /\ s22' = s22 /\ s11 \in {"none", "done"}
          /\ s11' = "scan"
      BY <1>4 DEF Persons!SampleStarts
    <2>2. Persons!EvType'
      BY <1>T, <1>U, <2>1 DEF Persons!EvType, Persons!Sizes, Persons!Frames, Persons!FileIds
    <2>3. Persons!WantsGrowth' /\ Persons!PipeFollows' /\ Persons!AnswersMatch' /\ Persons!EventsCurrent'
      BY <1>T, <1>U, <2>1 DEF Persons!WantsGrowth, Persons!Growth, Persons!PipeFollows,
         Persons!AnswersMatch, Persons!EventsCurrent
    <2>4. QED
      BY <1>1, <1>2, <2>2, <2>3 DEF Persons!EvInv, Persons!Closing
  <1>5. ASSUME Persons!SampleRecorded PROVE Persons!EvInv'
    <2>1. s10' = s10 /\ s12' = s12 /\ s13' = s13 /\ s14' = {} /\ s11' = "none" /\ s11 = "done"
      BY <1>5 DEF Persons!SampleRecorded
    <2>2. \A r \in s22' \ s22 : \E a \in s14 :
            /\ r.frame = a.frame /\ r.cam = s12 /\ r.gen = r.now /\ r.uri = r.live
      <3> SUFFICES ASSUME NEW r \in s22' \ s22
                   PROVE \E a \in s14 : r.frame = a.frame /\ r.cam = s12 /\ r.gen = r.now /\ r.uri = r.live
        OBVIOUS
      <3>1. PICK a \in s14 : /\ Persons!StillCurrent
                            /\ r = [frame |-> a.frame, cam |-> s10.cam, gen |-> s10.gen, now |-> s4[s10.cam].gen,
                                     uri |-> s10.uri, live |-> s3[s10.cam].uri]
        BY <1>5 DEF Persons!SampleRecorded
      <3>2. s4[s10.cam].gen = s10.gen /\ s3[s10.cam].uri = s10.uri
        BY <3>1 DEF Persons!StillCurrent
      <3>3. QED
        BY <1>T, <3>1, <3>2 DEF Persons!EvType
    <2>3. \A a \in s14 : a.frame \in Persons!Frames /\ a.frame.cam = s12 /\ Persons!Growth(a.frame)
      BY <1>T DEF Persons!EvType, Persons!AnswersMatch, Persons!WantsGrowth
    <2>4. s12 \in Cams
      BY <1>T DEF Persons!EvType
    <2>5. \A r \in s22' : /\ r.frame \in Persons!Frames /\ r.cam \in Cams /\ r.frame.cam = r.cam
                          /\ r.gen = r.now /\ r.uri = r.live /\ Persons!Growth(r.frame)
      <3>1. \A r \in s22 : /\ r.frame \in Persons!Frames /\ r.cam \in Cams /\ r.frame.cam = r.cam
                           /\ r.gen = r.now /\ r.uri = r.live /\ Persons!Growth(r.frame)
        BY <1>T DEF Persons!EvType, Persons!AnswersMatch, Persons!WantsGrowth, Persons!EventsCurrent
      <3>2. QED
        BY <2>2, <2>3, <2>4, <3>1
    <2>6. Persons!EvType'
      BY <1>T, <1>U, <2>1, <2>5 DEF Persons!EvType, Persons!Sizes, Persons!Frames, Persons!FileIds
    <2>7. Persons!WantsGrowth' /\ Persons!PipeFollows' /\ Persons!AnswersMatch' /\ Persons!EventsCurrent'
      BY <1>T, <1>U, <2>1, <2>5 DEF Persons!WantsGrowth, Persons!Growth, Persons!PipeFollows,
         Persons!AnswersMatch, Persons!EventsCurrent
    <2>8. QED
      BY <1>1, <1>2, <2>6, <2>7 DEF Persons!EvInv, Persons!Closing
  <1>6. QED
    BY <1>3, <1>4, <1>5
       DEF Persons!Cycle, Persons!CycleEnds, Persons!SampleTimesOut, Persons!SampleSkipped, Persons!thrvars

\* Every step of the person events keeps their invariant.
LEMMA EventsStep == Persons!EvInv /\ Persons!EvNext => Persons!EvInv'
  <1> SUFFICES ASSUME Persons!EvInv, Persons!EvNext PROVE Persons!EvInv'
    OBVIOUS
  <1> USE DEF Persons!svcvars, Persons!thrvars, Persons!camvars
  <1>1. CASE \/ \E c \in Cams, f \in Persons!FileIds : Persons!Grow(c, f)
             \/ \E c \in Cams : Persons!RefreshInventory(c) \/ Persons!Readdress(c)
             \/ \E c \in Cams, on \in BOOLEAN : Persons!Configure(c, on)
    <2>1. UNCHANGED <<s8, s9, s10>> /\ UNCHANGED Persons!thrvars /\ UNCHANGED Persons!procvars
          /\ UNCHANGED s22
      BY <1>1 DEF Persons!Grow, Persons!RefreshInventory, Persons!Readdress, Persons!Configure
    <2>2. QED
      BY <1>1, <2>1, EventsOutside
  <1>2. CASE \/ Persons!Ask \/ Persons!AskFails \/ Persons!ProcAnswers \/ Persons!ProcDies
             \/ Persons!Deadline \/ Persons!ReadFrame \/ Persons!ReadFails \/ Persons!CloseBegins
             \/ Persons!CloseEnds
    <2>1. UNCHANGED Persons!camvars /\ UNCHANGED <<s5, s6, s7, s10, s12, s22>>
      BY <1>2 DEF Persons!Ask, Persons!AskFails, Persons!ProcAnswers, Persons!ProcDies,
         Persons!Deadline,
         Persons!ReadFrame, Persons!ReadFails, Persons!CloseBegins, Persons!CloseEnds
    <2>2. QED
      BY <1>2, <2>1, EventsAsked
  <1>3. CASE \/ Persons!Cycle \/ Persons!CycleEnds \/ Persons!SampleTimesOut
             \/ \E c \in Cams : Persons!SampleSkipped(c) \/ Persons!SampleStarts(c)
             \/ Persons!SampleRecorded
    <2>1. UNCHANGED Persons!camvars /\ UNCHANGED <<s5, s6, s7>> /\ UNCHANGED Persons!procvars
      BY <1>3 DEF Persons!Cycle, Persons!CycleEnds, Persons!SampleTimesOut, Persons!SampleSkipped,
         Persons!SampleStarts, Persons!SampleRecorded
    <2>2. QED
      BY <1>3, <2>1, EventsLoop
  <1>4. CASE Persons!Scan
    BY <1>4, EventsScan
  <1>5. QED
    BY <1>1, <1>2, <1>3, <1>4 DEF Persons!EvNext

-----------------------------------------------------------------------------
(* Camera onboarding.                                                      *)

\* A site with one camera, and no request.
LEMMA OnboardingBegins == Onboard!OnbInit => Onboard!OnbInv
  <1> SUFFICES ASSUME Onboard!OnbInit PROVE Onboard!OnbInv
    OBVIOUS
  <1> USE DEF Onboard!NoRow, Onboard!NoSource, Onboard!NoDev, Onboard!NoProbe, Onboard!NoJob, Onboard!FirstRow,
              Onboard!Device
  <1>0. Onboard!First \in Devs
    BY ServicesAssumption DEF Onboard!First
  <1>1. s1 \in [Devs -> Onboard!Rows] /\ s2 \in [Devs -> Onboard!Places] /\ s3 \in [Devs -> BOOLEAN]
    BY <1>0 DEF Onboard!OnbInit, Onboard!Rows, Onboard!Places, Onboard!Devices
  <1>2. Onboard!Selections \in [Devs -> [source : Onboard!Places, rec : BOOLEAN]]
    BY <1>1 DEF Onboard!Selections
  <1>3. s7 = [r \in AdminReqs |-> "free"] /\ s8 = [r \in AdminReqs |-> Onboard!NoJob] /\ s6 = {}
        /\ s9 = [r \in AdminReqs |-> Onboard!Selections] /\ s5 = Onboard!Selections
    BY DEF Onboard!OnbInit
  <1>4. Onboard!NoJob \in Onboard!Jobs
    BY DEF Onboard!Jobs, Onboard!Rows
  <1>5. s10 = [p \in ProbeIds |-> Onboard!NoProbe] /\ s11 = 0 /\ s12 = 0
    BY DEF Onboard!OnbInit
  <1>6. Onboard!NoProbe \in Onboard!Probes
    BY DEF Onboard!Probes
  <1>x. s4 \in Onboard!Txs
    BY DEF Onboard!OnbInit, Onboard!NoTx, Onboard!Txs, Onboard!Rows, Onboard!Places, Onboard!Devices
  <1>7. Onboard!OnbType
    BY <1>1, <1>2, <1>3, <1>4, <1>5, <1>6, <1>x DEF Onboard!OnbType
  <1>8. Onboard!OneHolder /\ \A r \in AdminReqs : Onboard!JobHolds(r)
    BY <1>3 DEF Onboard!OneHolder, Onboard!Holding, Onboard!JobHolds, Onboard!InStore
  <1>9. Onboard!StoreAdmissible /\ Onboard!StoredEnrolled
    BY <1>0 DEF Onboard!OnbInit, Onboard!StoreAdmissible, Onboard!Readable,
       Onboard!StoredEnrolled, Onboard!Stored
  <1>10. Onboard!ProbesOwned
    BY <1>3, <1>5 DEF Onboard!ProbesOwned
  <1>11. Onboard!Following
    BY <1>3 DEF Onboard!Following
  <1>12. Onboard!SlotsExact
    <2>1. Onboard!Probing = {}
      BY <1>5 DEF Onboard!Probing
    <2>2. Onboard!Cardinality({}) = Cardinality({})
      BY Zenon DEF Onboard!Cardinality, Cardinality
    <2>3. QED
      BY <1>5, <2>1, <2>2, FS_EmptySet, ServicesAssumption DEF Onboard!SlotsExact
  <1>13. QED
    BY <1>7, <1>8, <1>9, <1>10, <1>11, <1>12 DEF Onboard!OnbInv

\* The running ONVIF probes are finitely many.
LEMMA ProbingFinite ==
  /\ IsFiniteSet(Onboard!Probing) /\ Cardinality(Onboard!Probing) \in Nat
  /\ \A S : Onboard!Cardinality(S) = Cardinality(S)
  <1>1. Onboard!Probing \subseteq ProbeIds /\ IsFiniteSet(ProbeIds)
    BY ServicesAssumption DEF Onboard!Probing
  <1>2. IsFiniteSet(Onboard!Probing)
    BY <1>1, FS_Subset
  <1>3. ASSUME NEW S PROVE Onboard!Cardinality(S) = Cardinality(S)
    BY Zenon DEF Onboard!Cardinality, Cardinality
  <1>4. QED
    BY <1>2, <1>3, FS_CardinalityType

\* What the probes and sessions do while no request is at the store changes no request's state.
LEMMA ProbesApart ==
  ASSUME Onboard!OnbInv, Onboard!LoopFree, UNCHANGED <<s1, s2, s3, s4, s5, s6, s7, s8, s9, s15>>,
         s10' \in [ProbeIds -> Onboard!Probes], s11' \in Nat, s12' \in Nat, Onboard!SlotsExact',
         \A p \in ProbeIds : /\ s10'[p].conn = s10[p].conn
                             /\ s10'[p].conn => s10'[p].st = "ready"
                             /\ s10'[p].st # "none" => s10'[p].port # 0
  PROVE  Onboard!OnbInv'
  <1>1. Onboard!OnbType'
    BY DEF Onboard!OnbInv, Onboard!OnbType
  <1>2. Onboard!OneHolder' /\ Onboard!StoreAdmissible' /\ Onboard!StoredEnrolled' /\ Onboard!Following'
    BY DEF Onboard!OnbInv, Onboard!OneHolder, Onboard!Holding, Onboard!StoreAdmissible,
       Onboard!Readable,
       Onboard!StoredEnrolled, Onboard!Stored, Onboard!Following, Onboard!Selections
  <1>3. \A r \in AdminReqs : s8[r].probe \in ProbeIds \cup {0}
    BY DEF Onboard!OnbInv, Onboard!OnbType, Onboard!Jobs
  <1>4. Onboard!ProbesOwned'
    BY <1>3 DEF Onboard!OnbInv, Onboard!ProbesOwned
  <1>5. ASSUME NEW r \in AdminReqs PROVE Onboard!JobHolds(r)'
    <2>1. s7[r] \notin Onboard!InStore /\ Onboard!JobHolds(r)
      BY DEF Onboard!LoopFree, Onboard!OnbInv
    <2>2. QED
      BY <2>1 DEF Onboard!JobHolds, Onboard!InStore, Onboard!Selections, Onboard!Preferred
  <1>6. QED
    BY <1>1, <1>2, <1>4, <1>5 DEF Onboard!OnbInv

\* A probe takes a slot of the connector; its worker gives it back, however the request ends.
LEMMA OnboardingProbes ==
  ASSUME Onboard!OnbInv,
         \/ \E p \in ProbeIds, s \in Sessions, k \in Ports, o \in BOOLEAN : Onboard!ProbeStarts(p, s, k, o)
         \/ \E p \in ProbeIds, ok \in BOOLEAN : Onboard!ProbeEnds(p, ok)
         \/ \E p \in ProbeIds : Onboard!ProbeCancelled(p) \/ Onboard!Expire(p)
         \/ Onboard!WorkerEnds \/ \E s \in Sessions : Onboard!SignOut(s) \/ Onboard!ClearToken(s)
  PROVE  Onboard!OnbInv'
  <1> USE DEF Onboard!onbdisk, Onboard!onbprobe
  <1>T. s10 \in [ProbeIds -> Onboard!Probes] /\ s11 \in Nat /\ s12 \in Nat
        /\ s11 = s12 + Cardinality(Onboard!Probing) /\ s11 <= MaxSlots /\ MaxSlots \in Nat
        /\ \A p \in ProbeIds : /\ s10[p].conn => s10[p].st = "ready"
                               /\ s10[p].st # "none" => s10[p].port # 0
    BY ProbingFinite, ServicesAssumption
       DEF Onboard!OnbInv, Onboard!OnbType, Onboard!SlotsExact, Onboard!ProbesOwned
  <1>F. IsFiniteSet(Onboard!Probing) /\ Cardinality(Onboard!Probing) \in Nat
        /\ \A S : Onboard!Cardinality(S) = Cardinality(S)
    BY ProbingFinite
  <1>N. Onboard!NoProbe \in Onboard!Probes /\ Onboard!NoProbe.conn = FALSE /\ Onboard!NoProbe.st = "none"
    BY DEF Onboard!NoProbe, Onboard!Probes
  <1>1. ASSUME NEW p \in ProbeIds, NEW s \in Sessions, NEW k \in Ports, NEW o \in BOOLEAN,
               Onboard!ProbeStarts(p, s, k, o)
        PROVE  Onboard!OnbInv'
    <2> DEFINE new == [st |-> "run", sess |-> s, port |-> k, onvif |-> o, in |-> TRUE, conn |-> FALSE]
    <2>1. /\ Onboard!LoopFree /\ s10[p] = Onboard!NoProbe /\ s10' = [s10 EXCEPT ![p] = new]
          /\ s12' = s12 /\ UNCHANGED <<s1, s2, s3, s4, s5, s6, s7, s8, s9, s15>>
          /\ (o => s11 < MaxSlots) /\ s11' = IF o THEN s11 + 1 ELSE s11
      BY <1>1 DEF Onboard!ProbeStarts
    <2>2. new \in Onboard!Probes /\ k # 0
      BY ServicesAssumption DEF Onboard!Probes
    <2>3. Onboard!Probing' = (IF o THEN Onboard!Probing \cup {p} ELSE Onboard!Probing) /\ p \notin Onboard!Probing
      BY <1>T, <1>N, <2>1 DEF Onboard!Probing
    <2>4. Cardinality(Onboard!Probing') = Cardinality(Onboard!Probing) + (IF o THEN 1 ELSE 0)
      <3>1. CASE o
        BY <1>F, <2>3, <3>1, FS_AddElement
      <3>2. CASE ~o
        BY <1>F, <2>3, <3>2
      <3>3. QED
        BY <3>1, <3>2
    <2>5. Onboard!SlotsExact' /\ s11' \in Nat
      BY <1>T, <1>F, <2>1, <2>4 DEF Onboard!SlotsExact
    <2>6. QED
      BY <1>T, <1>N, <2>1, <2>2, <2>5, ProbesApart
  <1>2. ASSUME NEW p \in ProbeIds, NEW ok \in BOOLEAN, Onboard!ProbeEnds(p, ok)
        PROVE  Onboard!OnbInv'
    <2>1. /\ Onboard!LoopFree /\ s10[p].st = "run"
          /\ s12' = s12 /\ UNCHANGED <<s1, s2, s3, s4, s5, s6, s7, s8, s9, s15>>
          /\ s11' = IF s10[p].onvif THEN s11 - 1 ELSE s11
      BY <1>2 DEF Onboard!ProbeEnds
    <2>2. PICK v : s10' = [s10 EXCEPT ![p] = v] /\ v \in {[s10[p] EXCEPT !.st = "ready"], Onboard!NoProbe}
      BY <1>2 DEF Onboard!ProbeEnds
    <2>3. v \in Onboard!Probes /\ v.conn = s10[p].conn /\ v.conn = FALSE /\ v.st # "run"
          /\ (v.st # "none" => v.port # 0)
      BY <1>T, <1>N, <2>1, <2>2 DEF Onboard!Probes
    <2>4. Onboard!Probing' = Onboard!Probing \ {p} /\ (p \in Onboard!Probing <=> s10[p].onvif)
      BY <1>T, <2>1, <2>2, <2>3 DEF Onboard!Probing
    <2>5. Cardinality(Onboard!Probing') = Cardinality(Onboard!Probing) - (IF s10[p].onvif THEN 1 ELSE 0)
      <3>1. CASE s10[p].onvif
        BY <1>F, <2>4, <3>1, FS_RemoveElement
      <3>2. CASE ~s10[p].onvif
        <4>1. Onboard!Probing' = Onboard!Probing
          BY <2>4, <3>2
        <4>2. QED
          BY <1>F, <3>2, <4>1
      <3>3. QED
        BY <3>1, <3>2
    <2>6. s10[p].onvif => Cardinality(Onboard!Probing) # 0
      BY <1>F, <2>4, FS_EmptySet
    <2>7. Onboard!SlotsExact' /\ s11' \in Nat
      BY <1>T, <1>F, <2>1, <2>5, <2>6 DEF Onboard!SlotsExact
    <2>8. QED
      BY <1>T, <2>1, <2>2, <2>3, <2>7, ProbesApart
  <1>3. ASSUME NEW p \in ProbeIds, Onboard!ProbeCancelled(p) PROVE Onboard!OnbInv'
    <2>1. /\ Onboard!LoopFree /\ s10[p].st = "run" /\ s10' = [s10 EXCEPT ![p] = Onboard!NoProbe]
          /\ UNCHANGED <<s1, s2, s3, s4, s5, s6, s7, s8, s9, s15>>
          /\ s11' = s11 /\ s12' = IF s10[p].onvif THEN s12 + 1 ELSE s12
      BY <1>3 DEF Onboard!ProbeCancelled, Onboard!SlotKept
    <2>2. Onboard!Probing' = Onboard!Probing \ {p} /\ (p \in Onboard!Probing <=> s10[p].onvif)
      BY <1>T, <1>N, <2>1 DEF Onboard!Probing
    <2>3. Cardinality(Onboard!Probing') = Cardinality(Onboard!Probing) - (IF s10[p].onvif THEN 1 ELSE 0)
      <3>1. CASE s10[p].onvif
        BY <1>F, <2>2, <3>1, FS_RemoveElement
      <3>2. CASE ~s10[p].onvif
        <4>1. Onboard!Probing' = Onboard!Probing
          BY <2>2, <3>2
        <4>2. QED
          BY <1>F, <3>2, <4>1
      <3>3. QED
        BY <3>1, <3>2
    <2>4. Onboard!SlotsExact' /\ s12' \in Nat
      BY <1>T, <1>F, <2>1, <2>3 DEF Onboard!SlotsExact
    <2>5. s10[p].conn = FALSE
      BY <1>T, <2>1 DEF Onboard!Probes
    <2>6. QED
      BY <1>T, <1>N, <2>1, <2>4, <2>5, ProbesApart
  <1>4. CASE Onboard!WorkerEnds \/ \E s \in Sessions : Onboard!SignOut(s)
    <2>1. /\ UNCHANGED <<s1, s2, s3, s4, s5, s6, s7, s8, s9, s10, s15>>
          /\ \/ s12 > 0 /\ s12' = s12 - 1 /\ s11' = s11 - 1 /\ s13' = s13
             \/ Onboard!LoopFree /\ s12' = s12 /\ s11' = s11
      BY <1>4 DEF Onboard!WorkerEnds, Onboard!SignOut
    <2>2. Onboard!Probing' = Onboard!Probing
      BY <2>1 DEF Onboard!Probing
    <2>3. Onboard!SlotsExact' /\ s12' \in Nat /\ s11' \in Nat
      BY <1>T, <1>F, <2>1, <2>2 DEF Onboard!SlotsExact
    <2>4. CASE Onboard!LoopFree
      BY <1>T, <2>1, <2>3, <2>4, ProbesApart
    <2>5. CASE s13' = s13
      <3>1. Onboard!OnbType' /\ Onboard!OneHolder' /\ Onboard!StoreAdmissible' /\ Onboard!StoredEnrolled'
            /\ Onboard!Following' /\ Onboard!ProbesOwned'
        BY <2>1, <2>3 DEF Onboard!OnbInv, Onboard!OnbType, Onboard!OneHolder, Onboard!Holding,
           Onboard!StoreAdmissible, Onboard!Readable, Onboard!StoredEnrolled, Onboard!Stored,
           Onboard!Following, Onboard!Selections, Onboard!ProbesOwned
      <3>2. ASSUME NEW r \in AdminReqs PROVE Onboard!JobHolds(r)'
        BY <2>1, <2>5 DEF Onboard!OnbInv, Onboard!JobHolds, Onboard!Selections, Onboard!Preferred,
           Onboard!Claimed
      <3>3. QED
        BY <2>3, <3>1, <3>2 DEF Onboard!OnbInv
    <2>6. QED
      BY <2>1, <2>4, <2>5
  <1>5. ASSUME Onboard!LoopFree, UNCHANGED <<s1, s2, s3, s4, s5, s6, s7, s8, s9, s11, s12, s15>>,
               \A p \in ProbeIds : s10'[p] = s10[p] \/ s10'[p] = Onboard!Out(s10[p]),
               s10' = [p \in ProbeIds |-> s10'[p]]
        PROVE  Onboard!OnbInv'
    <2>1. ASSUME NEW p \in ProbeIds
          PROVE  /\ s10'[p] \in Onboard!Probes /\ s10'[p].conn = s10[p].conn
                 /\ s10'[p].conn => s10'[p].st = "ready"
                 /\ s10'[p].st # "none" => s10'[p].port # 0
                 /\ (s10'[p].st = "run" /\ s10'[p].onvif) <=> (s10[p].st = "run" /\ s10[p].onvif)
      <3>1. PICK v \in Onboard!Probes : v = s10[p]
        BY <1>T
      <3>2. /\ v.conn \in BOOLEAN /\ v.conn => v.st = "ready"
            /\ v.st # "none" => v.port # 0
        BY <1>T, <3>1 DEF Onboard!Probes
      <3>3. CASE v.st = "run" \/ v.conn
        BY <1>5, <3>1, <3>2, <3>3 DEF Onboard!Out, Onboard!Probes
      <3>4. CASE ~(v.st = "run" \/ v.conn)
        <4>1. s10'[p] = v \/ s10'[p] = Onboard!NoProbe
          BY <1>5, <3>1, <3>4 DEF Onboard!Out
        <4>2. v.conn = FALSE /\ v.st # "run"
          BY <3>2, <3>4
        <4>3. CASE s10'[p] = v
          BY <3>1, <3>2, <4>3
        <4>4. CASE s10'[p] = Onboard!NoProbe
          BY <1>N, <3>1, <4>2, <4>4
        <4>5. QED
          BY <4>1, <4>3, <4>4
      <3>5. QED
        BY <3>3, <3>4
    <2>2. Onboard!Probing' = Onboard!Probing
      BY <2>1 DEF Onboard!Probing
    <2>3. Onboard!SlotsExact'
      BY <1>T, <1>F, <1>5, <2>2 DEF Onboard!SlotsExact
    <2>4. s10' \in [ProbeIds -> Onboard!Probes]
      BY <1>5, <2>1
    <2>5. QED
      BY <1>T, <1>5, <2>1, <2>3, <2>4, ProbesApart
  <1>6. ASSUME NEW p \in ProbeIds, Onboard!Expire(p) PROVE Onboard!OnbInv'
    <2>1. Onboard!LoopFree /\ s10' = [s10 EXCEPT ![p] = Onboard!Out(s10[p])]
          /\ UNCHANGED <<s1, s2, s3, s4, s5, s6, s7, s8, s9, s11, s12, s15>>
      BY <1>6 DEF Onboard!Expire
    <2>2. QED
      BY <1>T, <1>5, <2>1
  <1>7. ASSUME NEW s \in Sessions, Onboard!ClearToken(s) PROVE Onboard!OnbInv'
    <2>1. Onboard!LoopFree /\ UNCHANGED <<s1, s2, s3, s4, s5, s6, s7, s8, s9, s11, s12, s15>>
          /\ s10' = [p \in ProbeIds |-> IF s10[p].in /\ s10[p].sess = s THEN Onboard!Out(s10[p]) ELSE s10[p]]
      BY <1>7 DEF Onboard!ClearToken
    <2>2. QED
      BY <1>5, <2>1
  <1>8. QED
    BY <1>1, <1>2, <1>3, <1>4, <1>6, <1>7

\* A request that does not hold the lock has done nothing yet.
LEMMA WaitingHolds ==
  ASSUME Onboard!OnbInv, NEW r \in AdminReqs, s7[r] \in {"free", "lock"}, s7'[r] = s7[r], s8'[r] = s8[r]
  PROVE  Onboard!JobHolds(r)'
  BY DEF Onboard!OnbInv, Onboard!JobHolds, Onboard!InStore

\* Nothing that the service has to follow changes.
LEMMA FollowingRests ==
  ASSUME Onboard!Following, UNCHANGED <<s2, s3, s5, s6, s15>>,
         \A q \in AdminReqs : (s7'[q] = "apply" <=> s7[q] = "apply") /\ (s7'[q] = "pstore" <=> s7[q] = "pstore")
  PROVE  Onboard!Following'
  BY DEF Onboard!Following, Onboard!Selections

\* A request comes in and waits for the lock.
LEMMA OnboardingSubmits ==
  ASSUME Onboard!OnbInv, NEW r \in AdminReqs, NEW j \in Onboard!Jobs, Onboard!Submit(r, j),
         j.kind \in {"add", "move"} => j.row.port # 0, j.kind = "prefer" => j.probe = 0,
         \/ j.probe = 0 /\ s10' = s10
         \/ j.probe \in ProbeIds /\ s10[j.probe].st = "ready" /\ ~s10[j.probe].conn
            /\ s10' = [s10 EXCEPT ![j.probe].conn = TRUE]
  PROVE  Onboard!OnbInv'
  <1> USE DEF Onboard!onbdisk
  <1>T. Onboard!OnbType /\ Onboard!OneHolder /\ Onboard!ProbesOwned /\ Onboard!Following /\ Onboard!SlotsExact
    BY DEF Onboard!OnbInv
  <1>1. /\ Onboard!LoopFree /\ s7[r] = "free" /\ s7' = [s7 EXCEPT ![r] = "lock"] /\ s8' = [s8 EXCEPT ![r] = j]
        /\ UNCHANGED <<s1, s2, s3, s4, s5, s6, s9, s11, s12, s13, s15>>
    BY DEF Onboard!Submit
  <1>2. \A q \in AdminReqs : q # r => s7'[q] = s7[q] /\ s8'[q] = s8[q]
    BY <1>T, <1>1 DEF Onboard!OnbType
  <1>3. s7'[r] = "lock" /\ s8'[r] = j
    BY <1>T, <1>1 DEF Onboard!OnbType
  <1>4. s10 \in [ProbeIds -> Onboard!Probes]
    BY <1>T DEF Onboard!OnbType
  <1>5. s10' \in [ProbeIds -> Onboard!Probes]
        /\ \A p \in ProbeIds : /\ s10'[p].st = s10[p].st /\ s10'[p].onvif = s10[p].onvif
                               /\ s10'[p].port = s10[p].port /\ s10'[p].in = s10[p].in
                               /\ s10[p].conn => s10'[p].conn
                               /\ s10'[p].conn => s10[p].conn \/ (p = j.probe /\ s10[p].st = "ready")
    <2>1. CASE j.probe = 0 /\ s10' = s10
      BY Zenon, <1>4, <2>1
    <2>2. CASE j.probe \in ProbeIds /\ s10[j.probe].st = "ready" /\ s10' = [s10 EXCEPT ![j.probe].conn = TRUE]
      <3>1. s10' \in [ProbeIds -> Onboard!Probes] /\ s10'[j.probe] = [s10[j.probe] EXCEPT !.conn = TRUE]
            /\ \A p \in ProbeIds : p # j.probe => s10'[p] = s10[p]
        BY <1>4, <2>2 DEF Onboard!Probes
      <3>2. s10'[j.probe].conn /\ s10'[j.probe].st = s10[j.probe].st /\ s10'[j.probe].port = s10[j.probe].port
            /\ s10'[j.probe].in = s10[j.probe].in /\ s10'[j.probe].onvif = s10[j.probe].onvif
        BY <1>4, <2>2, <3>1 DEF Onboard!Probes
      <3>3. ASSUME NEW p \in ProbeIds
            PROVE  /\ s10'[p].st = s10[p].st /\ s10'[p].onvif = s10[p].onvif
                   /\ s10'[p].port = s10[p].port /\ s10'[p].in = s10[p].in
                   /\ (s10[p].conn => s10'[p].conn)
                   /\ (s10'[p].conn => s10[p].conn \/ (p = j.probe /\ s10[p].st = "ready"))
        <4>1. CASE p = j.probe
          BY Zenon, <2>2, <3>2, <4>1
        <4>2. CASE p # j.probe
          BY Zenon, <3>1, <4>2
        <4>3. QED
          BY <4>1, <4>2
      <3>4. QED
        BY Zenon, <3>1, <3>3
    <2>3. QED
      BY <2>1, <2>2
  <1>6. j.probe # 0 => j.probe \in ProbeIds /\ s10'[j.probe].conn
    BY <1>4 DEF Onboard!Probes
  <1>7. Onboard!ProbesOwned'
    <2>1. ASSUME NEW p \in ProbeIds
          PROVE  (s10'[p].conn => s10'[p].st = "ready") /\ (s10'[p].st # "none" => s10'[p].port # 0)
      BY <1>T, <1>5 DEF Onboard!ProbesOwned
    <2>2. ASSUME NEW q \in AdminReqs, s8'[q].probe # 0
          PROVE  s10'[s8'[q].probe].conn /\ (q # r => s8'[q].probe # j.probe)
      <3>1. CASE q = r
        BY <1>3, <1>6, <2>2, <3>1
      <3>2. CASE q # r
        <4>1. s8'[q].probe \in ProbeIds /\ s10[s8'[q].probe].conn
          BY <1>2, <1>T, <2>2, <3>2 DEF Onboard!OnbType, Onboard!Jobs, Onboard!ProbesOwned
        <4>2. j.probe # 0 => ~s10[j.probe].conn
          OBVIOUS
        <4>3. QED
          BY <1>5, <2>2, <4>1, <4>2
      <3>3. QED
        BY <3>1, <3>2
    <2>3. ASSUME NEW q \in AdminReqs, NEW t \in AdminReqs, s8'[q].probe # 0, s8'[q].probe = s8'[t].probe
          PROVE  q = t
      <3>1. CASE q # r /\ t # r
        BY <1>T, <1>2, <2>3, <3>1 DEF Onboard!ProbesOwned
      <3>2. CASE q = r \/ t = r
        BY <1>3, <2>2, <2>3, <3>2
      <3>3. QED
        BY <3>1, <3>2
    <2>4. QED
      BY <2>1, <2>2, <2>3 DEF Onboard!ProbesOwned
  <1>8. Onboard!OnbType'
    BY <1>T, <1>1, <1>5 DEF Onboard!OnbType
  <1>9. Onboard!OneHolder'
    BY <1>T, <1>1, <1>2, <1>3 DEF Onboard!OneHolder, Onboard!Holding
  <1>10. Onboard!StoreAdmissible' /\ Onboard!StoredEnrolled'
    BY <1>1 DEF Onboard!OnbInv, Onboard!StoreAdmissible, Onboard!Readable, Onboard!StoredEnrolled,
       Onboard!Stored
  <1>11. Onboard!Following'
    BY <1>T, <1>1, <1>2, <1>3, FollowingRests
  <1>12. Onboard!SlotsExact'
    <2>1. Onboard!Probing' = Onboard!Probing
      BY <1>5 DEF Onboard!Probing
    <2>2. QED
      BY <1>T, <1>1, <2>1, ProbingFinite DEF Onboard!SlotsExact
  <1>13. ASSUME NEW q \in AdminReqs PROVE Onboard!JobHolds(q)'
    <2>1. CASE q = r
      BY <1>3, <2>1 DEF Onboard!JobHolds, Onboard!InStore
    <2>2. CASE q # r
      <3>1. s7[q] \notin Onboard!InStore /\ Onboard!JobHolds(q)
        BY <1>1 DEF Onboard!LoopFree, Onboard!OnbInv
      <3>2. QED
        BY <1>1, <1>2, <2>2, <3>1 DEF Onboard!JobHolds, Onboard!InStore, Onboard!Selections,
           Onboard!Preferred
    <2>3. QED
      BY <2>1, <2>2
  <1>14. QED
    BY <1>7, <1>8, <1>9, <1>10, <1>11, <1>12, <1>13 DEF Onboard!OnbInv

\* Every request that comes in is one of these.
LEMMA OnboardingRequests ==
  ASSUME Onboard!OnbInv,
         \/ \E r \in AdminReqs, p \in ProbeIds, n \in Names, d \in Devs \cup {0} : Onboard!Connect(r, p, n, d)
         \/ \E r \in AdminReqs, s \in Sessions, n \in Names : Onboard!EnrollCamera(r, s, n)
         \/ \E r \in AdminReqs, s \in Sessions, d \in Devs, on \in BOOLEAN : Onboard!RecordingPreference(r, s, d, on)
         \/ \E r \in AdminReqs, s \in Sessions, d \in Devs : Onboard!RemoveCamera(r, s, d)
  PROVE  Onboard!OnbInv'
  <1>T. Onboard!OnbType /\ Onboard!ProbesOwned
    BY DEF Onboard!OnbInv
  <1>N. Onboard!NoJob \in Onboard!Jobs /\ Onboard!NoJob.probe = 0
    BY DEF Onboard!NoJob, Onboard!Jobs, Onboard!NoRow, Onboard!Rows
  <1>1. ASSUME NEW r \in AdminReqs, NEW p \in ProbeIds, NEW n \in Names, NEW d \in Devs \cup {0},
               Onboard!Connect(r, p, n, d)
        PROVE  Onboard!OnbInv'
    <2> DEFINE row == [name |-> n, port |-> s10[p].port, onvif |-> s10[p].onvif,
                       key |-> IF s10[p].onvif THEN 0 ELSE 1]
               j == [Onboard!NoJob EXCEPT !.kind = IF d = 0 THEN "add" ELSE "move", !.sess = s10[p].sess,
                     !.probe = p, !.uri = 2, !.dev = d, !.row = row]
    <2>1. /\ s10[p].st = "ready" /\ ~s10[p].conn /\ s10' = [s10 EXCEPT ![p].conn = TRUE]
          /\ Onboard!Submit(r, j)
      BY <1>1 DEF Onboard!Connect
    <2>2. s10[p] \in Onboard!Probes /\ s10[p].port # 0 /\ p # 0
      BY <1>T, <2>1, ServicesAssumption DEF Onboard!OnbType, Onboard!ProbesOwned
    <2>3. row \in Onboard!Rows
      BY <2>2 DEF Onboard!Probes, Onboard!Rows
    <2>4. j \in Onboard!Jobs /\ j.probe = p /\ j.kind # "prefer" /\ j.row.port # 0
      BY <2>2, <2>3 DEF Onboard!NoJob, Onboard!Jobs, Onboard!Probes
    <2> HIDE DEF j
    <2>5. QED
      BY <2>1, <2>4, OnboardingSubmits
  <1>2. ASSUME NEW r \in AdminReqs, NEW s \in Sessions, NEW n \in Names, Onboard!EnrollCamera(r, s, n)
        PROVE  Onboard!OnbInv'
    <2> DEFINE row == [name |-> n, port |-> 1, onvif |-> FALSE, key |-> 0]
               j == [Onboard!NoJob EXCEPT !.kind = "add", !.sess = s, !.uri = 3, !.row = row]
    <2>1. s10' = s10 /\ Onboard!Submit(r, j)
      BY <1>2 DEF Onboard!EnrollCamera
    <2>2. row \in Onboard!Rows /\ row.port # 0
      BY DEF Onboard!Rows
    <2>4. j \in Onboard!Jobs
      BY <2>2 DEF Onboard!NoJob, Onboard!Jobs
    <2>5. j.probe = 0 /\ j.row = row /\ j.kind = "add"
      BY DEF Onboard!NoJob
    <2> HIDE DEF j, row
    <2>3. QED
      BY <2>1, <2>2, <2>4, <2>5, OnboardingSubmits
  <1>3. ASSUME NEW r \in AdminReqs, NEW s \in Sessions, NEW d \in Devs, NEW on \in BOOLEAN,
               Onboard!RecordingPreference(r, s, d, on)
        PROVE  Onboard!OnbInv'
    <2> DEFINE j == [Onboard!NoJob EXCEPT !.kind = "prefer", !.sess = s, !.dev = d, !.on = on]
    <2>1. s10' = s10 /\ Onboard!Submit(r, j)
      BY <1>3 DEF Onboard!RecordingPreference
    <2>2. j \in Onboard!Jobs /\ j.probe = 0 /\ j.kind = "prefer"
      BY DEF Onboard!NoJob, Onboard!Jobs, Onboard!Rows, Onboard!NoRow
    <2> HIDE DEF j
    <2>3. QED
      BY <2>1, <2>2, OnboardingSubmits
  <1>4. ASSUME NEW r \in AdminReqs, NEW s \in Sessions, NEW d \in Devs, Onboard!RemoveCamera(r, s, d)
        PROVE  Onboard!OnbInv'
    <2> DEFINE j == [Onboard!NoJob EXCEPT !.kind = "remove", !.sess = s, !.dev = d]
    <2>1. s10' = s10 /\ Onboard!Submit(r, j)
      BY <1>4 DEF Onboard!RemoveCamera
    <2>2. j \in Onboard!Jobs /\ j.probe = 0 /\ j.kind = "remove"
      BY DEF Onboard!NoJob, Onboard!Jobs, Onboard!Rows, Onboard!NoRow
    <2> HIDE DEF j
    <2>3. QED
      BY <2>1, <2>2, OnboardingSubmits
  <1>5. QED
    BY <1>1, <1>2, <1>3, <1>4

\* The request that has the lock goes on to another place, alone.
LEMMA HolderMoves ==
  ASSUME Onboard!OnbInv, NEW r \in AdminReqs, s7[r] \notin {"free", "lock"},
         NEW to \in {"auth", "apply", "papply", "pstore", "roll"} \cup Onboard!InStore,
         s7' = [s7 EXCEPT ![r] = to], s8' \in [AdminReqs -> Onboard!Jobs],
         \A q \in AdminReqs : s8'[q].probe = s8[q].probe /\ (q # r => s8'[q] = s8[q]),
         UNCHANGED <<s10, s11, s12>>,
         s4' \in Onboard!Txs, s1' \in [Devs -> Onboard!Rows], s2' \in [Devs -> Onboard!Places], s3' \in [Devs -> BOOLEAN],
         s9' \in [AdminReqs -> [Devs -> [source : Onboard!Places, rec : BOOLEAN]]],
         Onboard!StoreAdmissible', Onboard!StoredEnrolled', Onboard!JobHolds(r)', Onboard!Following'
  PROVE  Onboard!OnbInv'
  <1>T. Onboard!OnbType /\ Onboard!OneHolder /\ Onboard!ProbesOwned
    BY DEF Onboard!OnbInv
  <1>1. \A q \in AdminReqs : q # r => s7'[q] = s7[q] /\ s8'[q] = s8[q] /\ s7[q] \in {"free", "lock"}
    BY <1>T DEF Onboard!OnbType, Onboard!OneHolder, Onboard!Holding
  <1>2. Onboard!OneHolder'
    BY <1>1 DEF Onboard!OneHolder, Onboard!Holding
  <1>3. Onboard!OnbType'
    BY <1>T DEF Onboard!OnbType
  <1>4. Onboard!ProbesOwned'
    BY <1>T DEF Onboard!ProbesOwned
  <1>5. Onboard!SlotsExact'
    <2>1. Onboard!Probing' = Onboard!Probing
      BY DEF Onboard!Probing
    <2>2. QED
      BY <2>1, ProbingFinite DEF Onboard!OnbInv, Onboard!SlotsExact
  <1>6. \A q \in AdminReqs : Onboard!JobHolds(q)'
    BY <1>1, WaitingHolds
  <1>7. QED
    BY <1>2, <1>3, <1>4, <1>5, <1>6 DEF Onboard!OnbInv

\* A request that returns gives its lock and its probe back.
LEMMA HolderReturns ==
  ASSUME Onboard!OnbInv, NEW r \in AdminReqs, s7[r] \notin {"free", "lock"},
         NEW served \in BOOLEAN, Onboard!Finish(r, served), UNCHANGED <<s9, s11, s12>>,
         s4' \in Onboard!Txs, s1' \in [Devs -> Onboard!Rows], s2' \in [Devs -> Onboard!Places], s3' \in [Devs -> BOOLEAN],
         Onboard!StoreAdmissible', Onboard!StoredEnrolled', Onboard!Following'
  PROVE  Onboard!OnbInv'
  <1>T. Onboard!OnbType /\ Onboard!OneHolder /\ Onboard!ProbesOwned
    BY DEF Onboard!OnbInv
  <1>0. s7' = [s7 EXCEPT ![r] = "free"] /\ s8' = [s8 EXCEPT ![r] = Onboard!NoJob]
    BY DEF Onboard!Finish
  <1>N. Onboard!NoJob \in Onboard!Jobs /\ Onboard!NoJob.probe = 0 /\ Onboard!NoJob.kind = "none"
    BY DEF Onboard!NoJob, Onboard!Jobs, Onboard!NoRow, Onboard!Rows
  <1>1. \A q \in AdminReqs : q # r => s7'[q] = s7[q] /\ s8'[q] = s8[q] /\ s7[q] \in {"free", "lock"}
    BY <1>T, <1>0 DEF Onboard!OnbType, Onboard!OneHolder, Onboard!Holding
  <1>2. s7'[r] = "free" /\ s8'[r] = Onboard!NoJob
    BY <1>T, <1>0 DEF Onboard!OnbType
  <1>3. Onboard!OneHolder'
    BY <1>1, <1>2 DEF Onboard!OneHolder, Onboard!Holding
  <1>4. s10' \in [ProbeIds -> Onboard!Probes]
        /\ \A p \in ProbeIds : \/ s10'[p] = s10[p]
                               \/ /\ p = s8[r].probe /\ s10[p].st = "ready" /\ s10'[p].st \in {"none", "ready"}
                                  /\ s10'[p].conn = FALSE /\ (s10'[p].st # "none" => s10'[p].port = s10[p].port)
    <2>1. s10 \in [ProbeIds -> Onboard!Probes] /\ s8[r].probe \in ProbeIds \cup {0}
      BY <1>T DEF Onboard!OnbType, Onboard!Jobs
    <2>2. CASE s8[r].probe = 0
      BY <2>1, <2>2 DEF Onboard!Finish
    <2>3. CASE s8[r].probe # 0
      <3>1. PICK v : /\ s10' = [s10 EXCEPT ![s8[r].probe] = v]
                     /\ v \in {[s10[s8[r].probe] EXCEPT !.conn = FALSE], Onboard!NoProbe}
        BY <2>1, <2>3 DEF Onboard!Finish
      <3>2. s10[s8[r].probe].st = "ready"
        BY <1>T, <2>1, <2>3 DEF Onboard!ProbesOwned
      <3>3. v \in Onboard!Probes /\ v.st \in {"none", "ready"} /\ v.conn = FALSE
            /\ (v.st # "none" => v.port = s10[s8[r].probe].port)
        <4>1. PICK w \in Onboard!Probes : w = s10[s8[r].probe]
          BY <2>1, <2>3
        <4>2. CASE v = [w EXCEPT !.conn = FALSE]
          BY <3>2, <4>1, <4>2 DEF Onboard!Probes
        <4>3. CASE v = Onboard!NoProbe
          BY <4>3 DEF Onboard!Probes, Onboard!NoProbe
        <4>4. QED
          BY <3>1, <4>1, <4>2, <4>3
      <3>4. QED
        BY <2>1, <2>3, <3>1, <3>2, <3>3
    <2>4. QED
      BY <2>2, <2>3
  <1>5. Onboard!ProbesOwned'
    <2>1. ASSUME NEW p \in ProbeIds
          PROVE  (s10'[p].conn => s10'[p].st = "ready") /\ (s10'[p].st # "none" => s10'[p].port # 0)
      BY <1>T, <1>4 DEF Onboard!ProbesOwned
    <2>2. ASSUME NEW q \in AdminReqs, s8'[q].probe # 0
          PROVE  q # r /\ s10'[s8'[q].probe].conn
      <3>1. q # r
        BY <1>2, <1>N, <2>2
      <3>2. s8[q].probe \in ProbeIds /\ s8[q].probe # 0 /\ s10[s8[q].probe].conn /\ s8'[q] = s8[q]
        BY <1>T, <1>1, <2>2, <3>1 DEF Onboard!OnbType, Onboard!Jobs, Onboard!ProbesOwned
      <3>3. s8[q].probe # s8[r].probe
        BY <1>T, <3>1, <3>2 DEF Onboard!ProbesOwned
      <3>4. QED
        BY <1>4, <3>1, <3>2, <3>3
    <2>3. ASSUME NEW q \in AdminReqs, NEW t \in AdminReqs, s8'[q].probe # 0, s8'[q].probe = s8'[t].probe
          PROVE  q = t
      BY <1>T, <1>1, <2>2, <2>3 DEF Onboard!ProbesOwned
    <2>4. QED
      BY <2>1, <2>2, <2>3 DEF Onboard!ProbesOwned
  <1>6. Onboard!OnbType'
    BY <1>T, <1>0, <1>N, <1>4 DEF Onboard!OnbType
  <1>7. Onboard!SlotsExact'
    <2>1. Onboard!Probing' = Onboard!Probing
      BY <1>4 DEF Onboard!Probing
    <2>2. QED
      BY <2>1, ProbingFinite DEF Onboard!OnbInv, Onboard!SlotsExact
  <1>8. ASSUME NEW q \in AdminReqs PROVE Onboard!JobHolds(q)'
    <2>1. CASE q = r
      BY <1>2, <1>N, <2>1 DEF Onboard!JobHolds, Onboard!InStore
    <2>2. CASE q # r
      BY <1>1, <2>2, WaitingHolds
    <2>3. QED
      BY <2>1, <2>2
  <1>9. QED
    BY <1>3, <1>5, <1>6, <1>7, <1>8 DEF Onboard!OnbInv

\* The lock goes to one request.
LEMMA OnboardingAcquires ==
  ASSUME Onboard!OnbInv, NEW r \in AdminReqs, Onboard!Acquire(r) PROVE Onboard!OnbInv'
  <1> USE DEF Onboard!onbdisk, Onboard!onbprobe
  <1>1. /\ Onboard!LoopFree /\ s7[r] = "lock" /\ Onboard!Holding = {} /\ s7' = [s7 EXCEPT ![r] = "auth"]
        /\ UNCHANGED <<s1, s2, s3, s4, s5, s6, s8, s9, s10, s11, s12, s13, s15>>
    BY DEF Onboard!Acquire
  <1>2. s7'[r] = "auth" /\ \A q \in AdminReqs : q # r => s7'[q] = s7[q]
    BY <1>1 DEF Onboard!OnbInv, Onboard!OnbType
  <1>3. Onboard!OnbType'
    BY <1>1 DEF Onboard!OnbInv, Onboard!OnbType
  <1>4. Onboard!OneHolder'
    BY <1>1, <1>2 DEF Onboard!OneHolder, Onboard!Holding
  <1>5. Onboard!StoreAdmissible' /\ Onboard!StoredEnrolled' /\ Onboard!ProbesOwned'
    BY <1>1 DEF Onboard!OnbInv, Onboard!StoreAdmissible, Onboard!Readable, Onboard!StoredEnrolled,
       Onboard!Stored,
       Onboard!ProbesOwned
  <1>6. Onboard!Following'
    BY <1>1, <1>2, FollowingRests DEF Onboard!OnbInv
  <1>7. Onboard!SlotsExact'
    <2>1. Onboard!Probing' = Onboard!Probing
      BY <1>1 DEF Onboard!Probing
    <2>2. QED
      BY <1>1, <2>1, ProbingFinite DEF Onboard!OnbInv, Onboard!SlotsExact
  <1>8. ASSUME NEW q \in AdminReqs PROVE Onboard!JobHolds(q)'
    <2>1. Onboard!JobHolds(q) /\ (q # r => s7[q] \in {"free", "lock"})
      BY <1>1 DEF Onboard!OnbInv, Onboard!Holding
    <2>2. QED
      BY <1>1, <1>2, <2>1 DEF Onboard!JobHolds, Onboard!InStore
  <1>9. QED
    BY <1>3, <1>4, <1>5, <1>6, <1>7, <1>8 DEF Onboard!OnbInv

\* A request that returns without having changed anything.
LEMMA QuietReturn ==
  ASSUME Onboard!OnbInv, NEW r \in AdminReqs, s7[r] \notin {"free", "lock", "apply", "pstore"},
         NEW served \in BOOLEAN, Onboard!Finish(r, served),
         s4' \in Onboard!Txs, UNCHANGED <<s1, s2, s3, s5, s6, s9, s11, s12, s15>>
  PROVE  Onboard!OnbInv'
  <1>1. s7'[r] = "free" /\ \A q \in AdminReqs : q # r => s7'[q] = s7[q]
    BY DEF Onboard!Finish, Onboard!OnbInv, Onboard!OnbType
  <1>2. Onboard!Following'
    BY <1>1, FollowingRests DEF Onboard!OnbInv
  <1>3. Onboard!StoreAdmissible' /\ Onboard!StoredEnrolled'
    BY DEF Onboard!OnbInv, Onboard!StoreAdmissible, Onboard!Readable, Onboard!StoredEnrolled,
       Onboard!Stored
  <1>4. s1' \in [Devs -> Onboard!Rows] /\ s2' \in [Devs -> Onboard!Places] /\ s3' \in [Devs -> BOOLEAN]
    BY DEF Onboard!OnbInv, Onboard!OnbType
  <1>5. QED
    BY <1>2, <1>3, <1>4, HolderReturns

\* A request that goes on without having changed what the service follows.
LEMMA QuietMove ==
  ASSUME Onboard!OnbInv, NEW r \in AdminReqs, s7[r] \notin {"free", "lock", "apply", "pstore"},
         NEW to \in {"papply", "roll"} \cup Onboard!InStore, s7' = [s7 EXCEPT ![r] = to],
         s8' \in [AdminReqs -> Onboard!Jobs],
         \A q \in AdminReqs : s8'[q].probe = s8[q].probe /\ (q # r => s8'[q] = s8[q]),
         UNCHANGED <<s2, s3, s5, s6, s10, s11, s12, s15>>,
         s4' \in Onboard!Txs, s1' \in [Devs -> Onboard!Rows],
         s9' \in [AdminReqs -> [Devs -> [source : Onboard!Places, rec : BOOLEAN]]],
         Onboard!StoreAdmissible', Onboard!StoredEnrolled', Onboard!JobHolds(r)'
  PROVE  Onboard!OnbInv'
  <1>1. s7'[r] = to /\ \A q \in AdminReqs : q # r => s7'[q] = s7[q]
    BY DEF Onboard!OnbInv, Onboard!OnbType
  <1>2. Onboard!Following'
    BY <1>1, FollowingRests DEF Onboard!OnbInv, Onboard!InStore
  <1>4. s2' \in [Devs -> Onboard!Places] /\ s3' \in [Devs -> BOOLEAN]
    BY DEF Onboard!OnbInv, Onboard!OnbType
  <1>5. QED
    BY <1>2, <1>4, HolderMoves

\* Where the one device a name or an endpoint selects is.
LEMMA AdmissionSelects ==
  ASSUME Onboard!OnbType, NEW r \in AdminReqs, Onboard!Admission(r).to # "fail"
  PROVE  /\ s8[r].sess \in s13 /\ Onboard!Claimed(r)
         /\ Onboard!Admission(r).to \in {"enrol", "rcreg"} /\ Onboard!Admission(r).dev \in Devs \cup {0}
         /\ Onboard!Admission(r).to = "rcreg" => Onboard!Admission(r).dev \in Devs
  <1> DEFINE row == s8[r].row
  <1>1. ASSUME Onboard!Refused(r) PROVE FALSE
    <2>1. Onboard!Admission(r) = [to |-> "fail", dev |-> 0]
      BY <1>1 DEF Onboard!Admission
    <2>2. QED
      BY <2>1
  <1>2. s8[r].sess \in s13 /\ Onboard!Claimed(r) /\ ~Onboard!Refused(r)
    BY <1>1 DEF Onboard!Refused
  <1>3. CASE s8[r].kind = "move"
    <2>1. ASSUME ~(s8[r].dev \in Onboard!Stored /\ s2[s8[r].dev].dev.name = row.name) PROVE FALSE
      <3>1. Onboard!Admission(r) = [to |-> "fail", dev |-> s8[r].dev]
        BY <1>2, <1>3, <2>1 DEF Onboard!Admission
      <3>2. QED
        BY <3>1
    <2>2. Onboard!Admission(r) = [to |-> "rcreg", dev |-> s8[r].dev]
      BY <1>2, <1>3, <2>1 DEF Onboard!Admission
    <2>3. s8[r].dev \in Devs
      BY <2>1 DEF Onboard!Stored
    <2>4. QED
      BY <1>2, <2>2, <2>3
  <1>4. CASE s8[r].kind # "move" /\ row.onvif /\ Onboard!Cardinality(Onboard!SameName(row)) = 1
    <2>1. ~(Onboard!Cardinality(Onboard!SameName(row)) > 1)
      BY <1>4
    <2>2. Onboard!Admission(r) = [to |-> "rcreg", dev |-> CHOOSE d \in Onboard!SameName(row) : TRUE]
      BY <1>2, <1>4, <2>1 DEF Onboard!Admission
    <2>3. Onboard!SameName(row) # {}
      BY <1>4, FS_EmptySet, ProbingFinite
    <2>4. (CHOOSE d \in Onboard!SameName(row) : TRUE) \in Devs
      BY <2>3 DEF Onboard!SameName
    <2>5. QED
      BY <1>2, <2>2, <2>4
  <1>5. CASE s8[r].kind # "move" /\ ~(row.onvif /\ Onboard!Cardinality(Onboard!SameName(row)) = 1)
    <2>1. ASSUME row.onvif /\ Onboard!Cardinality(Onboard!SameName(row)) > 1 PROVE FALSE
      <3>1. Onboard!Admission(r) = [to |-> "fail", dev |-> 0]
        BY <1>2, <1>5, <2>1 DEF Onboard!Admission
      <3>2. QED
        BY <3>1
    <2>2. PICK x \in BOOLEAN : Onboard!Admission(r) = [to |-> IF x THEN "fail" ELSE "enrol", dev |-> 0]
      BY <1>2, <1>5, <2>1 DEF Onboard!Admission
    <2>3. QED
      BY <1>2, <2>2
  <1>6. QED
    BY <1>3, <1>4, <1>5

\* A step that only says where a request is, and which device its job is about.
LEMMA HolderTakes ==
  ASSUME Onboard!OnbType, NEW r \in AdminReqs
  PROVE  /\ s8[r] \in Onboard!Jobs
         /\ \A to : s7' = [s7 EXCEPT ![r] = to] => s7'[r] = to
         /\ \A d \in Devs \cup {0} : s8' = [s8 EXCEPT ![r].dev = d] =>
              /\ s8' \in [AdminReqs -> Onboard!Jobs] /\ s8'[r].dev = d
              /\ s8'[r].probe = s8[r].probe /\ s8'[r].kind = s8[r].kind /\ s8'[r].sess = s8[r].sess
              /\ s8'[r].row = s8[r].row
              /\ \A q \in AdminReqs : s8'[q].probe = s8[q].probe /\ (q # r => s8'[q] = s8[q])
  <1>1. s8 \in [AdminReqs -> Onboard!Jobs] /\ s8[r] \in Onboard!Jobs
    BY DEF Onboard!OnbType
  <1>2. ASSUME NEW to, s7' = [s7 EXCEPT ![r] = to] PROVE s7'[r] = to
    BY <1>2 DEF Onboard!OnbType
  <1>3. ASSUME NEW d \in Devs \cup {0}, s8' = [s8 EXCEPT ![r].dev = d]
        PROVE  /\ s8' \in [AdminReqs -> Onboard!Jobs] /\ s8'[r].dev = d
               /\ s8'[r].probe = s8[r].probe /\ s8'[r].kind = s8[r].kind /\ s8'[r].sess = s8[r].sess
               /\ s8'[r].row = s8[r].row
               /\ \A q \in AdminReqs : s8'[q].probe = s8[q].probe /\ (q # r => s8'[q] = s8[q])
    <2>1. PICK v : v = [s8[r] EXCEPT !.dev = d]
      OBVIOUS
    <2>2. /\ v \in Onboard!Jobs /\ v.dev = d /\ v.probe = s8[r].probe /\ v.kind = s8[r].kind
          /\ v.sess = s8[r].sess /\ v.row = s8[r].row
      BY ONLY <1>1, <2>1, d \in Devs \cup {0} DEF Onboard!Jobs
    <2>3. s8' = [s8 EXCEPT ![r] = v]
      BY <1>3, <2>1
    <2>4. QED
      BY <1>1, <2>2, <2>3
  <1>4. QED
    BY <1>1, <1>2, <1>3

\* Admission: the request takes its first place at the store, or returns.
LEMMA OnboardingAdmits ==
  ASSUME Onboard!OnbInv, NEW r \in AdminReqs, Onboard!Admit(r) PROVE Onboard!OnbInv'
  <1> USE DEF Onboard!onbdisk, Onboard!onbprobe
  <1>T. Onboard!OnbType /\ Onboard!StoreAdmissible /\ Onboard!StoredEnrolled /\ Onboard!JobHolds(r)
    BY DEF Onboard!OnbInv
  <1>t. /\ s1 \in [Devs -> Onboard!Rows] /\ s4 \in Onboard!Txs
        /\ s9 \in [AdminReqs -> [Devs -> [source : Onboard!Places, rec : BOOLEAN]]]
    BY <1>T DEF Onboard!OnbType
  <1>1. CASE Onboard!Admission(r).to = "fail"
    <2>1. Onboard!Finish(r, FALSE) /\ s7[r] = "auth" /\ UNCHANGED <<s1, s2, s3, s4, s5, s6, s9, s11, s12, s15>>
      BY <1>1 DEF Onboard!Admit
    <2>2. QED
      BY <1>t, <2>1, QuietReturn
  <1>2. CASE Onboard!Admission(r).to # "fail"
    <2>1. PICK to, d : to = Onboard!Admission(r).to /\ d = Onboard!Admission(r).dev
      OBVIOUS
    <2>2. /\ s7[r] = "auth" /\ s8[r].kind \in {"add", "move"} /\ s7' = [s7 EXCEPT ![r] = to]
          /\ s8' = [s8 EXCEPT ![r].dev = d]
          /\ UNCHANGED <<s1, s2, s3, s4, s5, s6, s9, s10, s11, s12, s13, s15>>
      BY <1>2, <2>1 DEF Onboard!Admit
    <2>3. s8[r].sess \in s13 /\ Onboard!Claimed(r) /\ to \in {"enrol", "rcreg"} /\ d \in Devs \cup {0}
          /\ (to = "rcreg" => d \in Devs)
      BY <1>T, <1>2, <2>1, AdmissionSelects
    <2>4. s7'[r] = to
      BY <1>T, <2>2, HolderTakes
    <2>5. /\ s8' \in [AdminReqs -> Onboard!Jobs] /\ s8'[r].dev = d
          /\ s8'[r].probe = s8[r].probe /\ s8'[r].kind = s8[r].kind /\ s8'[r].sess = s8[r].sess
          /\ s8'[r].row = s8[r].row
          /\ \A q \in AdminReqs : s8'[q].probe = s8[q].probe /\ (q # r => s8'[q] = s8[q])
      BY <1>T, <2>2, <2>3, HolderTakes
    <2>6. Onboard!Claimed(r)'
      BY <2>2, <2>3, <2>5 DEF Onboard!Claimed
    <2>7. Onboard!JobHolds(r)'
      BY <1>T, <2>2, <2>3, <2>4, <2>5, <2>6 DEF Onboard!JobHolds
    <2>8. Onboard!StoreAdmissible' /\ Onboard!StoredEnrolled'
      BY <1>T, <2>2 DEF Onboard!StoreAdmissible, Onboard!Readable, Onboard!StoredEnrolled,
         Onboard!Stored
    <2>9. to \in {"papply", "roll"} \cup Onboard!InStore
      BY <2>3 DEF Onboard!InStore
    <2>10. QED
      BY <1>t, <2>2, <2>5, <2>7, <2>8, <2>9, QuietMove
  <1>3. QED
    BY <1>1, <1>2

\* A row of the registry: the identical one, or a new one of a device no source is stored for.
LEMMA OnboardingEnrols ==
  ASSUME Onboard!OnbInv, NEW r \in AdminReqs, Onboard!EnrollRow(r) PROVE Onboard!OnbInv'
  <1>T. Onboard!OnbType /\ Onboard!StoreAdmissible /\ Onboard!StoredEnrolled /\ Onboard!JobHolds(r)
    BY DEF Onboard!OnbInv
  <1>t. /\ s1 \in [Devs -> Onboard!Rows] /\ s4 \in Onboard!Txs
        /\ s9 \in [AdminReqs -> [Devs -> [source : Onboard!Places, rec : BOOLEAN]]]
    BY <1>T DEF Onboard!OnbType
  <1>1. s7[r] = "enrol" /\ UNCHANGED <<s2, s3, s4, s5, s6, s9, s11, s12, s13, s15>>
    BY DEF Onboard!EnrollRow
  <1>2. s8[r].kind \in {"add", "move"} /\ s8[r].sess \in s13 /\ Onboard!Claimed(r) /\ s8[r].row.port # 0
    BY <1>T, <1>1 DEF Onboard!JobHolds, Onboard!InStore
  <1>3. \/ Onboard!Finish(r, FALSE) /\ s1' = s1
        \/ \E d \in Devs : /\ s8' = [s8 EXCEPT ![r].dev = d] /\ s7' = [s7 EXCEPT ![r] = "upsert"] /\ s10' = s10
                           /\ \/ s1[d] = s8[r].row /\ s1' = s1
                              \/ s1[d] = Onboard!NoRow /\ s1' = [s1 EXCEPT ![d] = s8[r].row]
    BY DEF Onboard!EnrollRow, Onboard!SameEndpoint
  <1>4. CASE Onboard!Finish(r, FALSE) /\ s1' = s1
    BY <1>t, <1>1, <1>4, QuietReturn
  <1>5. ASSUME NEW d \in Devs, s8' = [s8 EXCEPT ![r].dev = d], s7' = [s7 EXCEPT ![r] = "upsert"], s10' = s10,
               \/ s1[d] = s8[r].row /\ s1' = s1
               \/ s1[d] = Onboard!NoRow /\ s1' = [s1 EXCEPT ![d] = s8[r].row]
        PROVE  Onboard!OnbInv'
    <2>1. s8[r].row \in Onboard!Rows
      BY <1>T, HolderTakes DEF Onboard!Jobs
    <2>2. s1' \in [Devs -> Onboard!Rows] /\ s1'[d] = s8[r].row
          /\ \A e \in Devs : s1'[e] = s1[e] \/ (e = d /\ s1[e] = Onboard!NoRow)
      BY <1>t, <1>5, <2>1
    <2>3. \A e \in Onboard!Stored : s1'[e] = s1[e]
      BY <1>T, <2>2 DEF Onboard!StoredEnrolled, Onboard!NoRow, Onboard!Stored
    <2>4. Onboard!StoreAdmissible' /\ Onboard!StoredEnrolled'
      BY <1>T, <1>1, <2>3 DEF Onboard!StoreAdmissible, Onboard!Readable, Onboard!StoredEnrolled,
         Onboard!Stored
    <2>5. s7'[r] = "upsert"
      BY <1>T, <1>5, HolderTakes
    <2>6. /\ s8' \in [AdminReqs -> Onboard!Jobs] /\ s8'[r].dev = d
          /\ s8'[r].probe = s8[r].probe /\ s8'[r].kind = s8[r].kind /\ s8'[r].sess = s8[r].sess
          /\ s8'[r].row = s8[r].row
          /\ \A q \in AdminReqs : s8'[q].probe = s8[q].probe /\ (q # r => s8'[q] = s8[q])
      BY <1>T, <1>5, HolderTakes
    <2>7. Onboard!Claimed(r)'
      BY <1>1, <1>2, <1>5, <2>6 DEF Onboard!Claimed
    <2>8. Onboard!JobHolds(r)'
      BY <1>1, <1>2, <2>2, <2>5, <2>6, <2>7 DEF Onboard!JobHolds
    <2>9. "upsert" \in {"papply", "roll"} \cup Onboard!InStore
      BY DEF Onboard!InStore
    <2>10. QED
      BY <1>t, <1>1, <1>5, <2>2, <2>4, <2>6, <2>8, <2>9, QuietMove
  <1>6. QED
    BY <1>3, <1>4, <1>5

\* A camera that moves: the open transaction says of which device, at which address.
LEMMA OnboardingReconnects ==
  ASSUME Onboard!OnbInv, NEW r \in AdminReqs, Onboard!ReconnectRegistry(r) \/ Onboard!ReconnectSource(r)
  PROVE  Onboard!OnbInv'
  <1> USE DEF Onboard!onbdisk, Onboard!onbprobe
  <1>T. Onboard!OnbType /\ Onboard!StoreAdmissible /\ Onboard!StoredEnrolled /\ Onboard!JobHolds(r)
    BY DEF Onboard!OnbInv
  <1>t. /\ s1 \in [Devs -> Onboard!Rows] /\ s4 \in Onboard!Txs /\ s8 \in [AdminReqs -> Onboard!Jobs]
        /\ s9 \in [AdminReqs -> [Devs -> [source : Onboard!Places, rec : BOOLEAN]]]
    BY <1>T DEF Onboard!OnbType
  <1>j. s8[r] \in Onboard!Jobs
    BY <1>T, HolderTakes
  <1>1. s7[r] \in {"rcreg", "rcsource"} /\ UNCHANGED <<s1, s2, s3, s5, s6, s9, s11, s12, s13, s15>>
    BY DEF Onboard!ReconnectRegistry, Onboard!WriteAttached, Onboard!ReconnectSource
  <1>2. s8[r].kind \in {"add", "move"} /\ s8[r].sess \in s13 /\ Onboard!Claimed(r) /\ s8[r].row.port # 0
    BY <1>T, <1>1 DEF Onboard!JobHolds, Onboard!InStore
  <1>3. Onboard!StoreAdmissible' /\ Onboard!StoredEnrolled'
    BY <1>T, <1>1 DEF Onboard!StoreAdmissible, Onboard!Readable, Onboard!StoredEnrolled,
       Onboard!Stored
  <1>4. CASE Onboard!ReconnectRegistry(r) /\ Onboard!Finish(r, FALSE) /\ s4' = s4
    BY <1>t, <1>1, <1>4, QuietReturn
  <1>5. CASE /\ s7[r] = "rcreg" /\ s7' = [s7 EXCEPT ![r] = "rcsource"] /\ s8' = s8 /\ s10' = s10
             /\ Onboard!WriteAttached(s8[r].dev, Onboard!Moved(r))
    <2>1. s8[r].dev \in Devs
      BY <1>T, <1>5 DEF Onboard!JobHolds
    <2>2. s8[r].row \in Onboard!Rows /\ s1[s8[r].dev] \in Onboard!Rows
      BY <1>t, <1>j, <2>1 DEF Onboard!Jobs
    <2>3. Onboard!Moved(r) \in Onboard!Rows /\ Onboard!Moved(r).port # 0
      BY <1>2, <2>2 DEF Onboard!Moved, Onboard!Rows
    <2>4. s4' = [s4 EXCEPT !.dev = s8[r].dev, !.row = Onboard!Moved(r)]
      BY <1>5 DEF Onboard!WriteAttached
    <2>5. s4' \in Onboard!Txs /\ s4'.dev = s8[r].dev /\ s4'.row = Onboard!Moved(r)
      BY <1>t, <2>1, <2>3, <2>4 DEF Onboard!Txs
    <2>6. s7'[r] = "rcsource"
      BY <1>T, <1>5, HolderTakes
    <2>7. Onboard!Claimed(r)'
      BY <1>2, <1>5 DEF Onboard!Claimed
    <2>8. Onboard!JobHolds(r)'
      BY <1>1, <1>2, <1>5, <2>1, <2>3, <2>5, <2>6, <2>7 DEF Onboard!JobHolds
    <2>9. "rcsource" \in {"papply", "roll"} \cup Onboard!InStore
      BY DEF Onboard!InStore
    <2>10. QED
      BY <1>t, <1>1, <1>3, <1>5, <2>5, <2>8, <2>9, QuietMove
  <1>6. CASE Onboard!ReconnectSource(r)
    <2>1. /\ s7[r] = "rcsource" /\ s7' = [s7 EXCEPT ![r] = "rccommit"] /\ s8' = s8 /\ s10' = s10
          /\ s4' = [s4 EXCEPT !.source = [dev |-> Onboard!Device(s4.row), uri |-> s8[r].uri]]
      BY <1>6 DEF Onboard!ReconnectSource
    <2>2. s4.dev \in Devs /\ s4.row.port # 0
      BY <1>T, <2>1 DEF Onboard!JobHolds
    <2>3. s4.row \in Onboard!Rows /\ s8[r].uri \in {0, 1, 2, 3}
      BY <1>t, <1>j DEF Onboard!Txs, Onboard!Jobs
    <2>4. Onboard!Device(s4.row) \in Onboard!Devices
      BY <2>3 DEF Onboard!Device, Onboard!Devices, Onboard!Rows
    <2>5. [dev |-> Onboard!Device(s4.row), uri |-> s8[r].uri] \in Onboard!Places
      BY <2>3, <2>4 DEF Onboard!Places
    <2>6. s4' \in Onboard!Txs /\ s4'.dev = s4.dev /\ s4'.row = s4.row /\ s4'.source.dev = Onboard!Device(s4.row)
      BY <1>t, <2>1, <2>5 DEF Onboard!Txs
    <2>7. s7'[r] = "rccommit"
      BY <1>T, <2>1, HolderTakes
    <2>8. Onboard!Claimed(r)' /\ Onboard!Device(s4.row)' = Onboard!Device(s4.row)
      BY <1>2, <2>1, <2>6 DEF Onboard!Claimed, Onboard!Device
    <2>9. Onboard!JobHolds(r)'
      BY <1>1, <1>2, <2>1, <2>2, <2>6, <2>7, <2>8 DEF Onboard!JobHolds
    <2>10. "rccommit" \in {"papply", "roll"} \cup Onboard!InStore
      BY DEF Onboard!InStore
    <2>11. QED
      BY <1>t, <1>1, <1>3, <2>1, <2>6, <2>9, <2>10, QuietMove
  <1>7. QED
    BY <1>4, <1>5, <1>6 DEF Onboard!ReconnectRegistry

\* A statement fails: both files are rolled back and the request returns.
LEMMA OnboardingFails ==
  ASSUME Onboard!OnbInv, NEW r \in AdminReqs, Onboard!StoreFails(r) PROVE Onboard!OnbInv'
  <1>1. s7[r] \in Onboard!InStore /\ Onboard!Finish(r, FALSE) /\ s4' = Onboard!NoTx
        /\ UNCHANGED <<s1, s2, s3, s5, s6, s9, s11, s12, s15>>
    BY DEF Onboard!StoreFails
  <1>2. s7[r] \notin {"free", "lock", "apply", "pstore"}
    BY <1>1 DEF Onboard!InStore
  <1>3. s4' \in Onboard!Txs
    BY <1>1 DEF Onboard!NoTx, Onboard!Txs, Onboard!NoRow, Onboard!Rows, Onboard!NoSource,
       Onboard!NoDev,
                Onboard!Places, Onboard!Devices
  <1>4. QED
    BY <1>1, <1>2, <1>3, QuietReturn

\* The request has written and hands the selections over: what the service follows changes.
LEMMA HolderApplies ==
  ASSUME Onboard!OnbInv, NEW r \in AdminReqs, s7[r] \notin {"free", "lock"}, Onboard!Applying(r),
         UNCHANGED <<s9, s11, s12>>, s4' \in Onboard!Txs,
         s1' \in [Devs -> Onboard!Rows], s2' \in [Devs -> Onboard!Places], s3' \in [Devs -> BOOLEAN],
         Onboard!StoreAdmissible', Onboard!StoredEnrolled'
  PROVE  Onboard!OnbInv'
  <1>T. Onboard!OnbType /\ Onboard!JobHolds(r)
    BY DEF Onboard!OnbInv
  <1>1. s7' = [s7 EXCEPT ![r] = "apply"] /\ s8' = s8 /\ s10' = s10
    BY DEF Onboard!Applying
  <1>2. s7'[r] = "apply"
    BY <1>T, <1>1, HolderTakes
  <1>3. Onboard!Following'
    BY <1>2 DEF Onboard!Following
  <1>4. Onboard!JobHolds(r)'
    BY <1>T, <1>1, <1>2 DEF Onboard!JobHolds, Onboard!InStore
  <1>5. /\ s8' \in [AdminReqs -> Onboard!Jobs]
        /\ s9' \in [AdminReqs -> [Devs -> [source : Onboard!Places, rec : BOOLEAN]]]
    BY <1>T, <1>1 DEF Onboard!OnbType
  <1>6. QED
    BY <1>1, <1>3, <1>4, <1>5, HolderMoves

\* The store is written: its row is the device's of the registry.
LEMMA OnboardingUpserts ==
  ASSUME Onboard!OnbInv, NEW r \in AdminReqs, Onboard!Upsert(r) PROVE Onboard!OnbInv'
  <1>T. Onboard!OnbType /\ Onboard!StoreAdmissible /\ Onboard!StoredEnrolled /\ Onboard!JobHolds(r)
    BY DEF Onboard!OnbInv
  <1>t. /\ s1 \in [Devs -> Onboard!Rows] /\ s2 \in [Devs -> Onboard!Places] /\ s3 \in [Devs -> BOOLEAN]
        /\ s4 \in Onboard!Txs
    BY <1>T DEF Onboard!OnbType
  <1>1. s7[r] = "upsert" /\ UNCHANGED <<s1, s3, s4, s5, s6, s9, s11, s12, s13, s15>>
    BY DEF Onboard!Upsert
  <1>2. s8[r].dev \in Devs /\ s1[s8[r].dev].port # 0
    BY <1>T, <1>1 DEF Onboard!JobHolds
  <1>3. PICK v : v = [dev |-> Onboard!Device(s1[s8[r].dev]), uri |-> s8[r].uri]
    OBVIOUS
  <1>4. \/ s2' = s2 /\ Onboard!Finish(r, FALSE)
        \/ s2' = [s2 EXCEPT ![s8[r].dev] = v] /\ Onboard!Applying(r)
    BY <1>3 DEF Onboard!Upsert
  <1>5. CASE s2' = s2 /\ Onboard!Finish(r, FALSE)
    BY <1>t, <1>1, <1>5, QuietReturn
  <1>6. CASE s2' = [s2 EXCEPT ![s8[r].dev] = v] /\ Onboard!Applying(r)
    <2>1. s8[r].uri \in {0, 1, 2, 3} /\ s1[s8[r].dev] \in Onboard!Rows
      BY <1>T, <1>t, <1>2, HolderTakes DEF Onboard!Jobs
    <2>2. Onboard!Device(s1[s8[r].dev]) \in Onboard!Devices
      BY <2>1 DEF Onboard!Device, Onboard!Devices, Onboard!Rows
    <2>3. v \in Onboard!Places /\ v.dev = Onboard!Device(s1[s8[r].dev])
      BY <1>3, <2>1, <2>2 DEF Onboard!Places
    <2>4. s2' \in [Devs -> Onboard!Places] /\ s2'[s8[r].dev] = v
          /\ \A d \in Devs : d # s8[r].dev => s2'[d] = s2[d]
      BY <1>t, <1>2, <1>6, <2>3
    <2>5. \A d \in Devs : Onboard!Device(s1[d])' = Onboard!Device(s1[d])
      BY <1>1 DEF Onboard!Device
    <2>6. Onboard!StoreAdmissible'
      BY <1>T, <1>1, <2>3, <2>4, <2>5 DEF Onboard!StoreAdmissible, Onboard!Readable, Onboard!Stored
    <2>7. Onboard!StoredEnrolled'
      BY <1>T, <1>1, <1>2, <2>4 DEF Onboard!StoredEnrolled, Onboard!Stored
    <2>8. QED
      BY <1>t, <1>1, <1>6, <2>4, <2>6, <2>7, HolderApplies
  <1>7. QED
    BY <1>4, <1>5, <1>6

\* Both files at once: the device's new address and the source that names it.
LEMMA OnboardingCommits ==
  ASSUME Onboard!OnbInv, NEW r \in AdminReqs, Onboard!ReconnectCommit(r) PROVE Onboard!OnbInv'
  <1>T. Onboard!OnbType /\ Onboard!StoreAdmissible /\ Onboard!StoredEnrolled /\ Onboard!JobHolds(r)
    BY DEF Onboard!OnbInv
  <1>t. /\ s1 \in [Devs -> Onboard!Rows] /\ s2 \in [Devs -> Onboard!Places] /\ s3 \in [Devs -> BOOLEAN]
        /\ s4 \in Onboard!Txs
    BY <1>T DEF Onboard!OnbType
  <1>1. /\ s7[r] = "rccommit" /\ Onboard!Applying(r) /\ s4' = Onboard!NoTx
        /\ s1' = [s1 EXCEPT ![s4.dev] = s4.row] /\ s2' = [s2 EXCEPT ![s4.dev] = s4.source]
        /\ UNCHANGED <<s3, s5, s6, s9, s11, s12, s13, s15>>
    BY DEF Onboard!ReconnectCommit
  <1>2. s4.dev \in Devs /\ s4.row.port # 0 /\ s4.source.dev = Onboard!Device(s4.row)
    BY <1>T, <1>1 DEF Onboard!JobHolds
  <1>3. s4.row \in Onboard!Rows /\ s4.source \in Onboard!Places
    BY <1>t DEF Onboard!Txs
  <1>4. /\ s1' \in [Devs -> Onboard!Rows] /\ s1'[s4.dev] = s4.row
        /\ s2' \in [Devs -> Onboard!Places] /\ s2'[s4.dev] = s4.source
        /\ \A d \in Devs : d # s4.dev => s1'[d] = s1[d] /\ s2'[d] = s2[d]
    BY <1>t, <1>1, <1>2, <1>3
  <1>5. ASSUME NEW d \in Devs, s2'[d] # Onboard!NoSource
        PROVE  s2'[d].dev = Onboard!Device(s1'[d]) /\ s1'[d].port # 0
    <2>1. CASE d = s4.dev
      BY <1>2, <1>4, <2>1
    <2>2. CASE d # s4.dev
      <3>1. s2'[d] = s2[d] /\ s1'[d] = s1[d] /\ d \in Onboard!Stored
        BY <1>4, <1>5, <2>2 DEF Onboard!Stored
      <3>2. QED
        BY <1>T, <3>1 DEF Onboard!StoreAdmissible, Onboard!Readable, Onboard!StoredEnrolled
    <2>3. QED
      BY <2>1, <2>2
  <1>6. Onboard!StoreAdmissible' /\ Onboard!StoredEnrolled'
    BY <1>5 DEF Onboard!StoreAdmissible, Onboard!Readable, Onboard!StoredEnrolled, Onboard!Stored,
       Onboard!Device,
       Onboard!NoSource, Onboard!NoDev
  <1>7. s4' \in Onboard!Txs
    BY <1>1 DEF Onboard!NoTx, Onboard!Txs, Onboard!NoRow, Onboard!Rows, Onboard!NoSource,
       Onboard!NoDev,
                Onboard!Places, Onboard!Devices
  <1>8. s3' \in [Devs -> BOOLEAN] /\ s7[r] \notin {"free", "lock"} /\ UNCHANGED <<s9, s11, s12>>
    BY <1>t, <1>1
  <1>9. QED
    BY <1>1, <1>4, <1>6, <1>7, <1>8, HolderApplies

\* A camera leaves the store; the registry keeps its device.
LEMMA OnboardingRemoves ==
  ASSUME Onboard!OnbInv, NEW r \in AdminReqs, Onboard!Remove(r) PROVE Onboard!OnbInv'
  <1>T. Onboard!OnbType /\ Onboard!StoreAdmissible /\ Onboard!StoredEnrolled
    BY DEF Onboard!OnbInv
  <1>t. /\ s1 \in [Devs -> Onboard!Rows] /\ s2 \in [Devs -> Onboard!Places] /\ s3 \in [Devs -> BOOLEAN]
        /\ s4 \in Onboard!Txs
    BY <1>T DEF Onboard!OnbType
  <1>1. s7[r] = "auth" /\ UNCHANGED <<s1, s4, s5, s6, s9, s11, s12, s13, s15>>
    BY DEF Onboard!Remove
  <1>2. \/ Onboard!Finish(r, FALSE) /\ UNCHANGED <<s2, s3>>
        \/ /\ s8[r].dev \in Onboard!Stored /\ Onboard!Applying(r)
           /\ s2' = [s2 EXCEPT ![s8[r].dev] = Onboard!NoSource] /\ s3' = [s3 EXCEPT ![s8[r].dev] = TRUE]
    BY DEF Onboard!Remove
  <1>3. CASE Onboard!Finish(r, FALSE) /\ UNCHANGED <<s2, s3>>
    BY <1>t, <1>1, <1>3, QuietReturn
  <1>4. CASE /\ s8[r].dev \in Onboard!Stored /\ Onboard!Applying(r)
             /\ s2' = [s2 EXCEPT ![s8[r].dev] = Onboard!NoSource] /\ s3' = [s3 EXCEPT ![s8[r].dev] = TRUE]
    <2>1. s8[r].dev \in Devs
      BY <1>4 DEF Onboard!Stored
    <2>2. Onboard!NoSource \in Onboard!Places
      BY DEF Onboard!NoSource, Onboard!NoDev, Onboard!Places, Onboard!Devices
    <2>3. /\ s2' \in [Devs -> Onboard!Places] /\ s3' \in [Devs -> BOOLEAN]
          /\ \A d \in Devs : s2'[d] = s2[d] \/ s2'[d] = Onboard!NoSource
      BY <1>t, <1>4, <2>1, <2>2
    <2>4. Onboard!NoSource' = Onboard!NoSource /\ \A d \in Devs : Onboard!Device(s1[d])' = Onboard!Device(s1[d])
      BY <1>1 DEF Onboard!NoSource, Onboard!NoDev, Onboard!Device
    <2>5. Onboard!StoreAdmissible' /\ Onboard!StoredEnrolled'
      BY <1>T, <1>1, <2>3, <2>4
         DEF Onboard!StoreAdmissible, Onboard!Readable, Onboard!StoredEnrolled, Onboard!Stored
    <2>6. QED
      BY <1>t, <1>1, <1>4, <2>3, <2>5, HolderApplies
  <1>5. QED
    BY <1>2, <1>3, <1>4

\* apply_sources: the service follows the store again, or is left astray by a cancellation.
LEMMA OnboardingHandsOver ==
  ASSUME Onboard!OnbInv, NEW r \in AdminReqs, Onboard!ApplySources(r) \/ Onboard!ApplyCancelled(r)
  PROVE  Onboard!OnbInv'
  <1> USE DEF Onboard!onbdisk
  <1>T. Onboard!OnbType /\ Onboard!StoreAdmissible /\ Onboard!StoredEnrolled
    BY DEF Onboard!OnbInv
  <1>1. /\ s7[r] = "apply" /\ UNCHANGED <<s1, s2, s3, s4, s6, s9, s11, s12>>
        /\ \/ s6 = {} /\ s5' = Onboard!Selections
           \/ s15' = s15 \cup {"unapplied"}
    BY DEF Onboard!ApplySources, Onboard!ApplyCancelled
  <1>2. PICK ok \in BOOLEAN : Onboard!Finish(r, ok)
    BY DEF Onboard!ApplySources, Onboard!ApplyCancelled
  <1>3. /\ s1' \in [Devs -> Onboard!Rows] /\ s2' \in [Devs -> Onboard!Places] /\ s3' \in [Devs -> BOOLEAN]
        /\ s4' \in Onboard!Txs
    BY <1>T, <1>1 DEF Onboard!OnbType
  <1>4. Onboard!StoreAdmissible' /\ Onboard!StoredEnrolled'
    BY <1>T, <1>1 DEF Onboard!StoreAdmissible, Onboard!Readable, Onboard!StoredEnrolled,
       Onboard!Stored
  <1>5. Onboard!Selections' = Onboard!Selections
    BY <1>1 DEF Onboard!Selections
  <1>6. CASE s6 = {} /\ s5' = Onboard!Selections
    <2>1. Onboard!Following'
      BY <1>1, <1>5, <1>6 DEF Onboard!Following
    <2>2. QED
      BY <1>1, <1>2, <1>3, <1>4, <2>1, HolderReturns
  <1>7. CASE s15' = s15 \cup {"unapplied"}
    <2>1. Onboard!Following'
      BY <1>7 DEF Onboard!Following
    <2>2. QED
      BY <1>1, <1>2, <1>3, <1>4, <2>1, HolderReturns
  <1>8. QED
    BY <1>1, <1>6, <1>7

\* The preference is refused, or the selections it starts from are kept.
LEMMA OnboardingPrefers ==
  ASSUME Onboard!OnbInv, NEW r \in AdminReqs, Onboard!Prefer(r) PROVE Onboard!OnbInv'
  <1> USE DEF Onboard!onbdisk
  <1>T. Onboard!OnbType /\ Onboard!StoreAdmissible /\ Onboard!StoredEnrolled /\ Onboard!JobHolds(r)
    BY DEF Onboard!OnbInv
  <1>t. /\ s1 \in [Devs -> Onboard!Rows] /\ s2 \in [Devs -> Onboard!Places] /\ s3 \in [Devs -> BOOLEAN]
        /\ s4 \in Onboard!Txs /\ s8 \in [AdminReqs -> Onboard!Jobs]
        /\ s9 \in [AdminReqs -> [Devs -> [source : Onboard!Places, rec : BOOLEAN]]]
    BY <1>T DEF Onboard!OnbType
  <1>1. s7[r] = "auth" /\ s8[r].kind = "prefer" /\ UNCHANGED <<s1, s2, s3, s4, s5, s6, s11, s12, s13, s15>>
    BY DEF Onboard!Prefer
  <1>2. \/ Onboard!Finish(r, FALSE) /\ s9' = s9
        \/ /\ s8[r].dev \in Onboard!Stored /\ s7' = [s7 EXCEPT ![r] = "papply"]
           /\ s9' = [s9 EXCEPT ![r] = Onboard!Selections] /\ s8' = s8 /\ s10' = s10
    BY DEF Onboard!Prefer
  <1>3. CASE Onboard!Finish(r, FALSE) /\ s9' = s9
    BY <1>t, <1>1, <1>3, QuietReturn
  <1>4. CASE /\ s8[r].dev \in Onboard!Stored /\ s7' = [s7 EXCEPT ![r] = "papply"]
             /\ s9' = [s9 EXCEPT ![r] = Onboard!Selections] /\ s8' = s8 /\ s10' = s10
    <2>1. s8[r].dev \in Devs
      BY <1>4 DEF Onboard!Stored
    <2>2. Onboard!Selections \in [Devs -> [source : Onboard!Places, rec : BOOLEAN]]
          /\ Onboard!Selections' = Onboard!Selections
      BY <1>t, <1>1 DEF Onboard!Selections
    <2>3. s9' \in [AdminReqs -> [Devs -> [source : Onboard!Places, rec : BOOLEAN]]]
          /\ s9'[r] = Onboard!Selections
      BY <1>t, <1>4, <2>2
    <2>4. s7'[r] = "papply"
      BY <1>T, <1>4, HolderTakes
    <2>5. Onboard!JobHolds(r)'
      BY <1>T, <1>1, <1>4, <2>1, <2>2, <2>3, <2>4 DEF Onboard!JobHolds, Onboard!InStore
    <2>6. Onboard!StoreAdmissible' /\ Onboard!StoredEnrolled'
      BY <1>T, <1>1 DEF Onboard!StoreAdmissible, Onboard!Readable, Onboard!StoredEnrolled,
         Onboard!Stored
    <2>7. QED
      BY <1>t, <1>1, <1>4, <2>3, <2>5, <2>6, QuietMove
  <1>5. QED
    BY <1>2, <1>3, <1>4

\* The service changes first; the store says what it said.
LEMMA OnboardingApplies ==
  ASSUME Onboard!OnbInv, NEW r \in AdminReqs, Onboard!PreferApplied(r) PROVE Onboard!OnbInv'
  <1> USE DEF Onboard!onbdisk, Onboard!onbprobe
  <1>T. Onboard!OnbType /\ Onboard!StoreAdmissible /\ Onboard!StoredEnrolled /\ Onboard!JobHolds(r)
    BY DEF Onboard!OnbInv
  <1>1. /\ s7[r] = "papply" /\ s6 = {} /\ s5' = Onboard!Preferred(r) /\ s7' = [s7 EXCEPT ![r] = "pstore"]
        /\ UNCHANGED <<s1, s2, s3, s4, s6, s8, s9, s10, s11, s12, s13, s15>>
    BY DEF Onboard!PreferApplied
  <1>2. s7'[r] = "pstore"
    BY <1>T, <1>1, HolderTakes
  <1>3. Onboard!Preferred(r)' = Onboard!Preferred(r) /\ Onboard!Selections' = Onboard!Selections
    BY <1>1 DEF Onboard!Preferred, Onboard!Selections
  <1>4. Onboard!Following'
    BY <1>1, <1>2 DEF Onboard!Following
  <1>5. Onboard!JobHolds(r)'
    BY <1>T, <1>1, <1>2, <1>3 DEF Onboard!JobHolds, Onboard!InStore
  <1>6. Onboard!StoreAdmissible' /\ Onboard!StoredEnrolled'
    BY <1>T, <1>1 DEF Onboard!StoreAdmissible, Onboard!Readable, Onboard!StoredEnrolled,
       Onboard!Stored
  <1>7. /\ s1' \in [Devs -> Onboard!Rows] /\ s2' \in [Devs -> Onboard!Places] /\ s3' \in [Devs -> BOOLEAN]
        /\ s4' \in Onboard!Txs /\ s8' \in [AdminReqs -> Onboard!Jobs]
        /\ s9' \in [AdminReqs -> [Devs -> [source : Onboard!Places, rec : BOOLEAN]]]
    BY <1>T, <1>1 DEF Onboard!OnbType
  <1>8. QED
    BY <1>1, <1>4, <1>5, <1>6, <1>7, HolderMoves

\* What is to be rolled back to is what the store says.
LEMMA HolderRollsBack ==
  ASSUME Onboard!OnbInv, NEW r \in AdminReqs, s7[r] \in {"papply", "pstore"}, Onboard!Rollback(r),
         UNCHANGED <<s1, s2, s3, s4, s9, s11, s12>>
  PROVE  Onboard!OnbInv'
  <1>T. Onboard!OnbType /\ Onboard!StoreAdmissible /\ Onboard!StoredEnrolled /\ Onboard!JobHolds(r)
    BY DEF Onboard!OnbInv
  <1>1. s7' = [s7 EXCEPT ![r] = "roll"] /\ s6' = {s9[r]} /\ s8' = s8 /\ s10' = s10
    BY DEF Onboard!Rollback
  <1>2. s7'[r] = "roll"
    BY <1>T, <1>1, HolderTakes
  <1>3. s9[r] = Onboard!Selections /\ s8[r].kind = "prefer" /\ s8[r].dev \in Devs
    BY <1>T DEF Onboard!JobHolds
  <1>4. Onboard!Selections' = Onboard!Selections
    BY DEF Onboard!Selections
  <1>5. Onboard!Following'
    BY <1>1, <1>3, <1>4 DEF Onboard!Following
  <1>6. Onboard!JobHolds(r)'
    BY <1>T, <1>1, <1>2, <1>3, <1>4 DEF Onboard!JobHolds, Onboard!InStore
  <1>7. Onboard!StoreAdmissible' /\ Onboard!StoredEnrolled'
    BY <1>T DEF Onboard!StoreAdmissible, Onboard!Readable, Onboard!StoredEnrolled, Onboard!Stored
  <1>8. /\ s1' \in [Devs -> Onboard!Rows] /\ s2' \in [Devs -> Onboard!Places] /\ s3' \in [Devs -> BOOLEAN]
        /\ s4' \in Onboard!Txs /\ s8' \in [AdminReqs -> Onboard!Jobs]
        /\ s9' \in [AdminReqs -> [Devs -> [source : Onboard!Places, rec : BOOLEAN]]]
    BY <1>T, <1>1 DEF Onboard!OnbType
  <1>9. QED
    BY <1>1, <1>5, <1>6, <1>7, <1>8, HolderMoves

\* The preference is stored, rolled back, or its roll-back is left behind.
LEMMA OnboardingStores ==
  ASSUME Onboard!OnbInv, NEW r \in AdminReqs,
         \/ Onboard!PreferFails(r) \/ Onboard!PreferStored(r) \/ Onboard!PreferUnstored(r)
         \/ Onboard!RollbackAbandoned(r)
  PROVE  Onboard!OnbInv'
  <1> USE DEF Onboard!onbdisk
  <1>T. Onboard!OnbType /\ Onboard!StoreAdmissible /\ Onboard!StoredEnrolled /\ Onboard!JobHolds(r)
    BY DEF Onboard!OnbInv
  <1>t. /\ s1 \in [Devs -> Onboard!Rows] /\ s2 \in [Devs -> Onboard!Places] /\ s3 \in [Devs -> BOOLEAN]
        /\ s4 \in Onboard!Txs /\ s8[r] \in Onboard!Jobs
    BY <1>T, HolderTakes DEF Onboard!OnbType
  <1>1. \/ /\ s7[r] \in {"papply", "pstore"} /\ Onboard!Rollback(r)
           /\ UNCHANGED <<s1, s2, s3, s4, s9, s11, s12>>
        \/ /\ s7[r] = "pstore" /\ s3' = [s3 EXCEPT ![s8[r].dev] = s8[r].on] /\ Onboard!Finish(r, TRUE)
           /\ UNCHANGED <<s1, s2, s4, s5, s6, s9, s11, s12, s15>>
        \/ /\ s7[r] = "roll" /\ Onboard!Finish(r, FALSE)
           /\ UNCHANGED <<s1, s2, s3, s4, s5, s6, s9, s11, s12, s15>>
    BY DEF Onboard!PreferFails, Onboard!PreferStored, Onboard!PreferUnstored,
       Onboard!RollbackAbandoned
  <1>2. CASE s7[r] \in {"papply", "pstore"} /\ Onboard!Rollback(r) /\ UNCHANGED <<s1, s2, s3, s4, s9, s11, s12>>
    BY <1>2, HolderRollsBack
  <1>3. CASE /\ s7[r] = "pstore" /\ s3' = [s3 EXCEPT ![s8[r].dev] = s8[r].on] /\ Onboard!Finish(r, TRUE)
             /\ UNCHANGED <<s1, s2, s4, s5, s6, s9, s11, s12, s15>>
    <2>1. /\ s8[r].dev \in Devs /\ s9[r] = Onboard!Selections /\ s6 = {} /\ s5 = Onboard!Preferred(r)
      BY <1>T, <1>3 DEF Onboard!JobHolds
    <2>2. s8[r].on \in BOOLEAN
      BY <1>t DEF Onboard!Jobs
    <2>3. s3' \in [Devs -> BOOLEAN]
      BY <1>t, <1>3, <2>1, <2>2
    <2>4. s5 = [Onboard!Selections EXCEPT ![s8[r].dev].rec = s8[r].on]
      BY <2>1 DEF Onboard!Preferred
    <2>5. s5 = [d \in Devs |-> [source |-> s2[d], rec |-> s3'[d]]]
      BY <1>t, <1>3, <2>1, <2>4 DEF Onboard!Selections
    <2>6. s5' = Onboard!Selections'
      BY <1>3, <2>5 DEF Onboard!Selections
    <2>7. Onboard!Following'
      BY <1>3, <2>1, <2>6 DEF Onboard!Following
    <2>8. Onboard!StoreAdmissible' /\ Onboard!StoredEnrolled'
      BY <1>T, <1>3 DEF Onboard!StoreAdmissible, Onboard!Readable, Onboard!StoredEnrolled,
         Onboard!Stored
    <2>9. QED
      BY <1>t, <1>3, <2>3, <2>7, <2>8, HolderReturns
  <1>4. CASE /\ s7[r] = "roll" /\ Onboard!Finish(r, FALSE)
             /\ UNCHANGED <<s1, s2, s3, s4, s5, s6, s9, s11, s12, s15>>
    BY <1>t, <1>4, QuietReturn
  <1>5. QED
    BY <1>1, <1>2, <1>3, <1>4

\* The roll-back ends: the service has the selections of before, or it is left astray.
LEMMA OnboardingRollsBack ==
  ASSUME Onboard!OnbInv, NEW ok \in BOOLEAN, Onboard!RolledBack(ok) PROVE Onboard!OnbInv'
  <1> USE DEF Onboard!onbdisk, Onboard!onbprobe
  <1>T. Onboard!OnbType /\ Onboard!OneHolder /\ Onboard!StoreAdmissible /\ Onboard!StoredEnrolled
        /\ Onboard!ProbesOwned /\ Onboard!Following
    BY DEF Onboard!OnbInv
  <1>1. PICK p \in s6 : \/ s5' = p /\ s15' = s15
                        \/ s5' = s5 /\ s15' = IF s5 = p THEN s15 ELSE s15 \cup {"unrolled"}
    BY DEF Onboard!RolledBack
  <1>2. /\ Onboard!LoopFree /\ s6' = {}
        /\ s7' = [q \in AdminReqs |-> IF s7[q] = "roll" THEN "free" ELSE s7[q]]
        /\ s8' = [q \in AdminReqs |-> IF s7[q] = "roll" THEN Onboard!NoJob ELSE s8[q]]
        /\ UNCHANGED <<s1, s2, s3, s4, s9, s10, s11, s12, s13>>
    BY DEF Onboard!RolledBack
  <1>N. Onboard!NoJob \in Onboard!Jobs /\ Onboard!NoJob.probe = 0 /\ Onboard!NoJob.kind = "none"
    BY DEF Onboard!NoJob, Onboard!Jobs, Onboard!NoRow, Onboard!Rows
  <1>3. \A q \in AdminReqs : \/ s7'[q] = "free" /\ s8'[q] = Onboard!NoJob
                             \/ s7'[q] = s7[q] /\ s8'[q] = s8[q] /\ s7[q] # "roll"
    BY <1>2
  <1>4. \A q \in AdminReqs : s7[q] # "pstore" /\ (s7'[q] = "apply" <=> s7[q] = "apply")
    BY <1>1, <1>2 DEF Onboard!OnbInv, Onboard!JobHolds
  <1>5. Onboard!OnbType'
    BY <1>T, <1>2, <1>N DEF Onboard!OnbType
  <1>6. Onboard!OneHolder' /\ Onboard!StoreAdmissible' /\ Onboard!StoredEnrolled'
    BY <1>T, <1>2, <1>3 DEF Onboard!OneHolder, Onboard!Holding, Onboard!StoreAdmissible,
       Onboard!Readable,
       Onboard!StoredEnrolled, Onboard!Stored
  <1>7. Onboard!ProbesOwned'
    BY <1>T, <1>2, <1>3, <1>N DEF Onboard!ProbesOwned
  <1>8. Onboard!Following'
    <2>1. Onboard!Selections' = Onboard!Selections
      BY <1>2 DEF Onboard!Selections
    <2>2. SUFFICES ASSUME s15' = {}, \A q \in AdminReqs : s7'[q] # "apply" PROVE s5' = Onboard!Selections'
      BY <1>2 DEF Onboard!Following
    <2>3. s15 = {} /\ s5' = p
      BY <1>1, <2>2
    <2>4. p = Onboard!Selections
      BY <1>T, <1>4, <2>2, <2>3 DEF Onboard!Following
    <2>5. QED
      BY <2>1, <2>3, <2>4
  <1>9. Onboard!SlotsExact'
    <2>1. Onboard!Probing' = Onboard!Probing
      BY <1>2 DEF Onboard!Probing
    <2>2. QED
      BY <1>2, <2>1, ProbingFinite DEF Onboard!OnbInv, Onboard!SlotsExact
  <1>10. ASSUME NEW q \in AdminReqs PROVE Onboard!JobHolds(q)'
    <2>1. CASE s7'[q] = "free" /\ s8'[q] = Onboard!NoJob
      BY <1>N, <2>1 DEF Onboard!JobHolds, Onboard!InStore
    <2>2. CASE s7'[q] = s7[q] /\ s8'[q] = s8[q]
      <3>1. Onboard!JobHolds(q) /\ s7[q] \notin Onboard!InStore /\ s7[q] # "pstore"
            /\ Onboard!Selections' = Onboard!Selections
        BY <1>2, <1>4 DEF Onboard!OnbInv, Onboard!LoopFree, Onboard!Selections
      <3>2. QED
        BY <1>2, <2>2, <3>1 DEF Onboard!JobHolds, Onboard!InStore
    <2>3. QED
      BY <1>3, <2>1, <2>2
  <1>11. QED
    BY <1>5, <1>6, <1>7, <1>8, <1>9, <1>10 DEF Onboard!OnbInv

\* The process dies and starts with what the files say.
LEMMA OnboardingRestarts ==
  ASSUME Onboard!OnbInv, Onboard!CrashRestart PROVE Onboard!OnbInv'
  <1>T. Onboard!OnbType /\ Onboard!StoreAdmissible /\ Onboard!StoredEnrolled
    BY DEF Onboard!OnbInv
  <1>1. /\ s4' = Onboard!NoTx /\ s5' = Onboard!Selections /\ s6' = {}
        /\ s7' = [q \in AdminReqs |-> "free"] /\ s8' = [q \in AdminReqs |-> Onboard!NoJob]
        /\ s10' = [p \in ProbeIds |-> Onboard!NoProbe] /\ s11' = 0 /\ s12' = 0
        /\ UNCHANGED <<s1, s2, s3, s9>>
    BY DEF Onboard!CrashRestart
  <1>N. Onboard!NoJob \in Onboard!Jobs /\ Onboard!NoJob.probe = 0 /\ Onboard!NoJob.kind = "none"
        /\ Onboard!NoProbe \in Onboard!Probes /\ Onboard!NoProbe.conn = FALSE /\ Onboard!NoProbe.st = "none"
    BY DEF Onboard!NoJob, Onboard!Jobs, Onboard!NoRow, Onboard!Rows, Onboard!NoProbe, Onboard!Probes
  <1>2. s4' \in Onboard!Txs
    BY <1>1 DEF Onboard!NoTx, Onboard!Txs, Onboard!NoRow, Onboard!Rows, Onboard!NoSource,
       Onboard!NoDev,
                Onboard!Places, Onboard!Devices
  <1>3. Onboard!OnbType'
    BY <1>T, <1>1, <1>2, <1>N DEF Onboard!OnbType
  <1>4. Onboard!StoreAdmissible' /\ Onboard!StoredEnrolled'
    BY <1>T, <1>1 DEF Onboard!StoreAdmissible, Onboard!Readable, Onboard!StoredEnrolled,
       Onboard!Stored
  <1>5. Onboard!OneHolder' /\ \A q \in AdminReqs : Onboard!JobHolds(q)'
    BY <1>1, <1>N DEF Onboard!OneHolder, Onboard!Holding, Onboard!JobHolds, Onboard!InStore
  <1>6. Onboard!ProbesOwned'
    BY <1>1, <1>N DEF Onboard!ProbesOwned
  <1>7. Onboard!Following'
    BY <1>1 DEF Onboard!Following, Onboard!Selections
  <1>8. Onboard!SlotsExact'
    <2>1. Onboard!Probing' = {}
      BY <1>1, <1>N DEF Onboard!Probing
    <2>2. QED
      BY <1>1, <2>1, FS_EmptySet, ProbingFinite, ServicesAssumption DEF Onboard!SlotsExact
  <1>9. QED
    BY <1>3, <1>4, <1>5, <1>6, <1>7, <1>8 DEF Onboard!OnbInv

\* Every step of the component keeps its invariant.
LEMMA OnboardingStep == Onboard!OnbInv /\ Onboard!OnbNext => Onboard!OnbInv'
  <1> SUFFICES ASSUME Onboard!OnbInv, Onboard!OnbNext PROVE Onboard!OnbInv'
    OBVIOUS
  <1>1. CASE \/ \E p \in ProbeIds, s \in Sessions, k \in Ports, o \in BOOLEAN : Onboard!ProbeStarts(p, s, k, o)
             \/ \E p \in ProbeIds, ok \in BOOLEAN : Onboard!ProbeEnds(p, ok)
             \/ \E p \in ProbeIds : Onboard!ProbeCancelled(p) \/ Onboard!Expire(p)
             \/ Onboard!WorkerEnds \/ \E s \in Sessions : Onboard!SignOut(s) \/ Onboard!ClearToken(s)
    BY <1>1, OnboardingProbes
  <1>2. CASE \/ \E r \in AdminReqs, p \in ProbeIds, n \in Names, d \in Devs \cup {0} : Onboard!Connect(r, p, n, d)
             \/ \E r \in AdminReqs, s \in Sessions, n \in Names : Onboard!EnrollCamera(r, s, n)
             \/ \E r \in AdminReqs, s \in Sessions, d \in Devs, on \in BOOLEAN :
                  Onboard!RecordingPreference(r, s, d, on)
             \/ \E r \in AdminReqs, s \in Sessions, d \in Devs : Onboard!RemoveCamera(r, s, d)
    BY <1>2, OnboardingRequests
  <1>3. ASSUME NEW r \in AdminReqs,
               \/ Onboard!Acquire(r) \/ Onboard!Admit(r) \/ Onboard!EnrollRow(r) \/ Onboard!Upsert(r)
               \/ Onboard!ReconnectRegistry(r) \/ Onboard!ReconnectSource(r) \/ Onboard!ReconnectCommit(r)
               \/ Onboard!StoreFails(r) \/ Onboard!Remove(r) \/ Onboard!ApplySources(r)
               \/ Onboard!ApplyCancelled(r) \/ Onboard!Prefer(r) \/ Onboard!PreferApplied(r)
               \/ Onboard!PreferFails(r) \/ Onboard!PreferStored(r) \/ Onboard!PreferUnstored(r)
               \/ Onboard!RollbackAbandoned(r)
        PROVE  Onboard!OnbInv'
    BY <1>3, OnboardingAcquires, OnboardingAdmits, OnboardingEnrols, OnboardingUpserts,
       OnboardingReconnects,
       OnboardingCommits, OnboardingFails, OnboardingRemoves, OnboardingHandsOver, OnboardingPrefers,
       OnboardingApplies, OnboardingStores
  <1>4. CASE (\E ok \in BOOLEAN : Onboard!RolledBack(ok)) \/ Onboard!CrashRestart
    BY <1>4, OnboardingRollsBack, OnboardingRestarts
  <1>5. QED
    BY <1>1, <1>2, <1>3, <1>4 DEF Onboard!OnbNext

-----------------------------------------------------------------------------
(* The integration journal.                                                *)

\* A set of natural numbers has a least one.
LEMMA LeastNatural ==
  ASSUME NEW T, T \subseteq Nat, T # {} PROVE \E n \in T : \A m \in T : n <= m
  <1> DEFINE R == {ss \in Nat \X Nat : ss[1] < ss[2]}
  <1>1. IsWellFoundedOn(R, Nat)
    BY NatLessThanWellFounded DEF OpToRel
  <1>2. \A m, n \in T : m < n => <<m, n>> \in R
    <2> SUFFICES ASSUME NEW m \in T, NEW n \in T, m < n PROVE <<m, n>> \in R
      OBVIOUS
    <2>1. <<m, n>> \in Nat \X Nat /\ <<m, n>>[1] < <<m, n>>[2]
      OBVIOUS
    <2>2. QED
      BY Zenon, <2>1
  <1> HIDE DEF R
  <1>3. PICK n \in T : \A m \in T : ~(<<m, n>> \in R)
    BY <1>1, WFMin
  <1>4. ASSUME NEW m \in T PROVE n <= m
    <2>1. m \in Nat /\ n \in Nat
      OBVIOUS
    <2>2. ~(m < n)
      BY Zenon, <1>2, <1>3
    <2>3. QED
      BY <2>1, <2>2
  <1>5. QED
    BY Zenon, <1>4

\* What holds of 0 and passes from a number to the next holds of every number.
LEMMA EveryNatural ==
  ASSUME NEW G, 0 \in G, \A n \in Nat : n \in G => n + 1 \in G PROVE Nat \subseteq G
  <1>1. SUFFICES ASSUME Nat \ G # {} PROVE FALSE
    OBVIOUS
  <1>2. PICK n \in Nat \ G : \A m \in Nat \ G : n <= m
    BY <1>1, LeastNatural
  <1>3. n # 0 /\ n - 1 \in Nat /\ ~(n <= n - 1)
    BY <1>2
  <1>4. n - 1 \in G
    BY <1>2, <1>3
  <1>5. QED
    BY <1>2, <1>3, <1>4

\* The table a deletion leaves, row by row: the recursive definition has a value.
LEMMA KeepingIs ==
  ASSUME NEW S, NEW s \in Seq(S), NEW K
  PROVE  \E f : /\ f[0] = <<>> /\ Keeping(s, K) = f[Len(s)]
                /\ \A i \in 1..Len(s) :
                     f[i] = IF s[i] \in K THEN Append(f[i - 1], s[i]) ELSE f[i - 1]
  <1> DEFINE Grown(f, i) == IF s[i] \in K THEN Append(f[i - 1], s[i]) ELSE f[i - 1]
             Is(f, n) == f = [i \in 0..n |-> IF i = 0 THEN <<>> ELSE Grown(f, i)]
             G == {n \in Nat : \E f : Is(f, n)}
             rest == CHOOSE f : Is(f, Len(s))
  <1>1. 0 \in G
    <2>1. [i \in 0..0 |-> <<>>] = [j \in 0..0 |-> IF j = 0 THEN <<>> ELSE Grown([i \in 0..0 |-> <<>>], j)]
      OBVIOUS
    <2>2. QED
      BY <2>1
  <1>2. ASSUME NEW n \in Nat, n \in G PROVE n + 1 \in G
    <2>1. PICK f : f = [i \in 0..n |-> IF i = 0 THEN <<>> ELSE Grown(f, i)]
      BY <1>2
    <2> DEFINE g == [i \in 0..(n + 1) |-> IF i <= n THEN f[i] ELSE Grown(f, n + 1)]
    <2>2. ASSUME NEW i \in 0..(n + 1) PROVE g[i] = IF i = 0 THEN <<>> ELSE Grown(g, i)
      <3>1. CASE i = 0
        BY <2>1, <3>1
      <3>2. CASE i # 0
        <4>1. i - 1 \in 0..n /\ g[i - 1] = f[i - 1]
          BY <3>2
        <4>2. Grown(g, i) = Grown(f, i)
          BY <4>1
        <4>3. CASE i <= n
          <5>1. g[i] = f[i] /\ i \in 0..n
            BY <4>3
          <5>2. f[i] = Grown(f, i)
            BY <2>1, <3>2, <5>1
          <5>3. QED
            BY <3>2, <4>2, <5>1, <5>2
        <4>4. CASE ~(i <= n)
          <5>1. i = n + 1
            BY <4>4
          <5>2. g[i] = Grown(f, i)
            BY <4>4, <5>1
          <5>3. QED
            BY <3>2, <4>2, <5>2
        <4>5. QED
          BY <4>3, <4>4
      <3>3. QED
        BY <3>1, <3>2
    <2>3. g = [i \in 0..(n + 1) |-> IF i = 0 THEN <<>> ELSE Grown(g, i)]
      BY <2>2
    <2> HIDE DEF g, Grown, Is
    <2>4. \E x : Is(x, n + 1)
      BY Zenon, <2>3 DEF Is
    <2>5. QED
      BY <2>4
  <1> HIDE DEF G, Is
  <1>3. Nat \subseteq G
    BY <1>1, <1>2, EveryNatural
  <1>4. Len(s) \in G
    BY <1>3
  <1>5. Is(rest, Len(s))
    BY Zenon, <1>4 DEF G
  <1>6. Keeping(s, K) = rest[Len(s)]
    BY DEF Keeping, Is
  <1> HIDE DEF rest, Grown
  <1>7. ASSUME NEW i \in 0..Len(s) PROVE rest[i] = IF i = 0 THEN <<>> ELSE Grown(rest, i)
    BY <1>5 DEF Is
  <1>8. Len(s) \in Nat
    OBVIOUS
  <1>9. rest[0] = <<>>
    BY <1>7, <1>8
  <1>10. ASSUME NEW i \in 1..Len(s) PROVE rest[i] = Grown(rest, i)
    BY <1>7, <1>8
  <1>11. QED
    BY <1>6, <1>9, <1>10 DEF Grown

\* The rows Keeping leaves are those of s in K, each from a place of its own.
LEMMA KeepingRows ==
  ASSUME NEW S, NEW s \in Seq(S), NEW K
  PROVE  /\ Keeping(s, K) \in Seq(S)
         /\ \A k \in DOMAIN Keeping(s, K) : Keeping(s, K)[k] \in K
         /\ \A j \in DOMAIN s :
              s[j] \in K => \E k \in DOMAIN Keeping(s, K) : Keeping(s, K)[k] = s[j]
         /\ \E h \in [DOMAIN Keeping(s, K) -> DOMAIN s] :
              /\ \A j, m \in DOMAIN Keeping(s, K) : h[j] = h[m] => j = m
              /\ \A k \in DOMAIN Keeping(s, K) : Keeping(s, K)[k] = s[h[k]]
  <1>1. PICK f : /\ f[0] = <<>> /\ Keeping(s, K) = f[Len(s)]
                 /\ \A i \in 1..Len(s) :
                      f[i] = IF s[i] \in K THEN Append(f[i - 1], s[i]) ELSE f[i - 1]
    BY KeepingIs
  <1> DEFINE In(n) == \A k \in DOMAIN f[n] : f[n][k] \in K
             All(n) == \A j \in 1..n : s[j] \in K => \E k \in DOMAIN f[n] : f[n][k] = s[j]
             From(n) == \E h \in [DOMAIN f[n] -> 1..n] :
                          /\ \A j, m \in DOMAIN f[n] : h[j] = h[m] => j = m
                          /\ \A k \in DOMAIN f[n] : f[n][k] = s[h[k]]
             Good(n) == f[n] \in Seq(S) /\ In(n) /\ All(n) /\ From(n)
             G == {n \in Nat : n <= Len(s) => Good(n)}
  <1>2. 0 \in G
    <2>1. f[0] \in Seq(S) /\ DOMAIN f[0] = {}
      BY <1>1
    <2>2. QED
      BY <2>1
  <1>3. ASSUME NEW n \in Nat, n \in G, n + 1 <= Len(s) PROVE Good(n + 1)
    <2>1. Good(n)
      BY <1>3
    <2>2. n + 1 \in 1..Len(s) /\ (n + 1) - 1 = n /\ s[n + 1] \in S /\ DOMAIN s = 1..Len(s)
      BY <1>3
    <2>3. CASE s[n + 1] \notin K
      <3>1. f[n + 1] = f[n]
        BY <1>1, <2>2, <2>3
      <3>2. f[n + 1] \in Seq(S) /\ In(n + 1) /\ All(n + 1)
        BY <2>1, <2>3, <3>1
      <3>3. From(n + 1)
        <4>1. PICK h \in [DOMAIN f[n] -> 1..n] :
                /\ \A j, m \in DOMAIN f[n] : h[j] = h[m] => j = m
                /\ \A k \in DOMAIN f[n] : f[n][k] = s[h[k]]
          BY <2>1
        <4>2. h \in [DOMAIN f[n] -> 1..(n + 1)]
          BY <4>1
        <4>3. QED
          BY <3>1, <4>1, <4>2
      <3>4. QED
        BY <3>2, <3>3
    <2>4. CASE s[n + 1] \in K
      <3> DEFINE l == Len(f[n])
      <3>1. f[n + 1] = Append(f[n], s[n + 1])
        BY <1>1, <2>2, <2>4
      <3>2. /\ f[n + 1] \in Seq(S) /\ l \in Nat
            /\ DOMAIN f[n + 1] = 1..(l + 1) /\ DOMAIN f[n] = 1..l
            /\ f[n + 1][l + 1] = s[n + 1] /\ \A k \in 1..l : f[n + 1][k] = f[n][k]
        BY <2>1, <2>2, <3>1
      <3> HIDE DEF l
      <3>3. In(n + 1)
        <4>1. ASSUME NEW k \in 1..(l + 1) PROVE f[n + 1][k] \in K
          <5>1. CASE k = l + 1
            BY <2>4, <3>2, <5>1
          <5>2. CASE k \in 1..l
            BY <2>1, <3>2, <5>2
          <5>3. QED
            BY <3>2, <5>1, <5>2
        <4>2. QED
          BY <3>2, <4>1
      <3>4. All(n + 1)
        <4> SUFFICES ASSUME NEW j \in 1..(n + 1), s[j] \in K
                     PROVE  \E k \in 1..(l + 1) : f[n + 1][k] = s[j]
          BY <3>2
        <4>1. CASE j = n + 1
          BY <3>2, <4>1
        <4>2. CASE j \in 1..n
          <5>1. PICK k \in 1..l : f[n][k] = s[j]
            BY <2>1, <3>2, <4>2
          <5>2. k \in 1..(l + 1) /\ f[n + 1][k] = s[j]
            BY <3>2, <5>1
          <5>3. QED
            BY <5>2
        <4>3. QED
          BY <4>1, <4>2
      <3>5. From(n + 1)
        <4>0. PICK h \in [DOMAIN f[n] -> 1..n] :
                /\ \A j, m \in DOMAIN f[n] : h[j] = h[m] => j = m
                /\ \A k \in DOMAIN f[n] : f[n][k] = s[h[k]]
          BY <2>1
        <4>1. /\ h \in [1..l -> 1..n] /\ \A j, m \in 1..l : h[j] = h[m] => j = m
              /\ \A k \in 1..l : f[n][k] = s[h[k]]
          BY <3>2, <4>0
        <4> DEFINE g == [k \in 1..(l + 1) |-> IF k = l + 1 THEN n + 1 ELSE h[k]]
        <4>2. /\ g[l + 1] = n + 1
              /\ \A k \in 1..l : g[k] = h[k] /\ h[k] \in 1..n /\ h[k] # n + 1
          BY <3>2, <4>1
        <4>3. g \in [1..(l + 1) -> 1..(n + 1)]
          BY <3>2, <4>1
        <4> HIDE DEF g
        <4>4. \A k \in 1..(l + 1) : k = l + 1 \/ k \in 1..l
          BY <3>2
        <4>5. \A j, m \in 1..(l + 1) : g[j] = g[m] => j = m
          BY <4>1, <4>2, <4>4
        <4>6. \A k \in 1..(l + 1) : f[n + 1][k] = s[g[k]]
          BY <3>2, <4>1, <4>2, <4>4
        <4>7. /\ g \in [DOMAIN f[n + 1] -> 1..(n + 1)]
              /\ \A j, m \in DOMAIN f[n + 1] : g[j] = g[m] => j = m
              /\ \A k \in DOMAIN f[n + 1] : f[n + 1][k] = s[g[k]]
          BY <3>2, <4>3, <4>5, <4>6
        <4>8. QED
          BY Zenon, <4>7
      <3>6. QED
        BY <3>2, <3>3, <3>4, <3>5
    <2>5. QED
      BY <2>3, <2>4
  <1> HIDE DEF Good
  <1>4. ASSUME NEW n \in Nat, n \in G PROVE n + 1 \in G
    BY <1>3, <1>4
  <1>5. Nat \subseteq G
    <2> HIDE DEF G
    <2>1. QED
      BY <1>2, <1>4, EveryNatural
  <1>6. Good(Len(s)) /\ DOMAIN s = 1..Len(s)
    BY <1>5
  <1> DEFINE t == Keeping(s, K)
  <1>7. t = f[Len(s)]
    BY <1>1
  <1> HIDE DEF t
  <1>8. t \in Seq(S) /\ In(Len(s)) /\ All(Len(s)) /\ From(Len(s))
    BY <1>6, <1>7 DEF Good
  <1>9. /\ t \in Seq(S)
        /\ \A k \in DOMAIN t : t[k] \in K
        /\ \A j \in DOMAIN s : s[j] \in K => \E k \in DOMAIN t : t[k] = s[j]
        /\ \E h \in [DOMAIN t -> DOMAIN s] :
             /\ \A j, m \in DOMAIN t : h[j] = h[m] => j = m
             /\ \A k \in DOMAIN t : t[k] = s[h[k]]
    BY <1>6, <1>7, <1>8
  <1>10. QED
    BY Zenon, <1>9 DEF t

\* As sets of rows.
LEMMA KeepingRange ==
  ASSUME NEW S, NEW s \in Seq(S), NEW K
  PROVE  Keeping(s, K) \in Seq(S) /\ Range(Keeping(s, K)) = Range(s) \cap K
  BY KeepingRows DEF Range


\* Rows named by their connection and event, none twice, each with one of its name in S.
LEMMA NoMore ==
  ASSUME NEW S, IsFiniteSet(S), NEW T,
         \A t \in T : \E r \in S : Key(r) = Key(t),
         \A t, u \in T : Key(t) = Key(u) => t = u
  PROVE  IsFiniteSet(T) /\ Cardinality(T) <= Cardinality(S)
  <1> DEFINE f == [t \in T |-> CHOOSE r \in S : Key(r) = Key(t)]
  <1>1. ASSUME NEW t \in T PROVE f[t] \in S /\ Key(f[t]) = Key(t)
    BY Zenon
  <1>2. f \in [T -> S]
    BY <1>1
  <1> HIDE DEF f
  <1>3. ASSUME NEW t \in T, NEW u \in T, f[t] = f[u] PROVE t = u
    <2>1. Key(f[t]) = Key(t) /\ Key(f[u]) = Key(u)
      BY <1>1
    <2>2. Key(t) = Key(u)
      BY <1>3, <2>1
    <2>3. QED
      BY <2>2
  <1>4. f \in Injection(T, S)
    BY <1>2, <1>3 DEF Injection, IsInjective
  <1>5. QED
    BY <1>4, FS_Injection

\* The rows of the journal, and the unique constraints of the two tables.
JRows == [conn : Neural, id : 1..Len(source), attempt : 0..MaxAttempts, sent : BOOLEAN,
          answer : {{}} \cup {{b} : b \in Answer}]

JUnique == \A k, m \in DOMAIN journal : Key(journal[k]) = Key(journal[m]) => k = m
IUnique == \A k, m \in DOMAIN inbox :
             inbox[k].conn = inbox[m].conn /\ inbox[k].event = inbox[m].event => k = m

\* The rows of the journal: typed, finitely many, none named twice.
LEMMA RowFacts ==
  ASSUME JournalInv
  PROVE  /\ journal \in Seq(JRows) /\ JUnique /\ IUnique
         /\ Range(journal) \subseteq JRows /\ IsFiniteSet(Range(journal))
         /\ \A r, q \in Range(journal) : Key(r) = Key(q) => r = q
         /\ Pending \subseteq Range(journal) /\ Answered = Range(journal) \ Pending
         /\ IsFiniteSet(Pending) /\ IsFiniteSet(Answered)
         /\ \A c \in Neural : IsFiniteSet(PendingOf(c))
  <1>1. journal \in Seq(JRows) /\ JUnique /\ IUnique
    BY DEF JournalInv, TypeOK, OneRowEach, JRows, JUnique, IUnique
  <1>2. Range(journal) \subseteq JRows
    BY <1>1 DEF Range
  <1>3. \A r, q \in Range(journal) : Key(r) = Key(q) => r = q
    BY Zenon, <1>1 DEF Range, JUnique
  <1>4. IsFiniteSet(Range(journal))
    <2>1. IsFiniteSet(1..Len(journal)) /\ DOMAIN journal = 1..Len(journal)
      BY <1>1, FS_Interval
    <2> DEFINE f == [k \in 1..Len(journal) |-> journal[k]]
    <2>2. f \in Surjection(1..Len(journal), Range(journal))
      BY <2>1 DEF Surjection, Range
    <2> HIDE DEF f
    <2>3. QED
      BY <2>1, <2>2, FS_Surjection
  <1>5. Pending \subseteq Range(journal) /\ Answered = Range(journal) \ Pending
    BY DEF Pending, Answered
  <1>6. IsFiniteSet(Pending) /\ IsFiniteSet(Answered)
    BY <1>4, <1>5, FS_Subset
  <1>7. ASSUME NEW c \in Neural PROVE IsFiniteSet(PendingOf(c))
    BY <1>6, FS_Subset DEF PendingOf
  <1>8. QED
    BY <1>1, <1>2, <1>3, <1>4, <1>5, <1>6, <1>7

\* A step after which every waiting row, or every answered one, was there before.
LEMMA PendingStays ==
  ASSUME JournalInv, \A r, q \in Range(journal') : Key(r) = Key(q) => r = q,
         \A r \in Pending' : \E q \in Pending : Key(q) = Key(r)
  PROVE  \A c \in Neural : Cardinality(PendingOf(c)') <= MaxPending
  <1> SUFFICES ASSUME NEW c \in Neural PROVE Cardinality(PendingOf(c)') <= MaxPending
    OBVIOUS
  <1>1. /\ IsFiniteSet(PendingOf(c)) /\ Cardinality(PendingOf(c)) <= MaxPending
        /\ MaxPending \in Nat
    BY RowFacts, LimitAssumption DEF JournalInv, JournalBounded
  <1> DEFINE P == PendingOf(c)'
  <1>2. P \subseteq Range(journal')
    BY DEF PendingOf, Pending
  <1>3. \A r, q \in P : Key(r) = Key(q) => r = q
    BY Zenon, <1>2
  <1>4. ASSUME NEW r \in P PROVE \E q \in PendingOf(c) : Key(q) = Key(r)
    <2>1. PICK q \in Pending : Key(q) = Key(r)
      BY DEF PendingOf
    <2>2. q.conn = r.conn /\ r.conn = c
      BY <2>1 DEF Key, PendingOf
    <2>3. QED
      BY <2>1, <2>2 DEF PendingOf
  <1> HIDE DEF P
  <1>5. IsFiniteSet(P) /\ Cardinality(P) <= Cardinality(PendingOf(c))
    BY Zenon, <1>1, <1>3, <1>4, NoMore
  <1>6. Cardinality(P) \in Nat /\ Cardinality(PendingOf(c)) \in Nat
    BY <1>1, <1>5, FS_CardinalityType
  <1>7. Cardinality(P) <= MaxPending
    BY <1>1, <1>5, <1>6
  <1>8. QED
    BY <1>7 DEF P

\* The same of the answered rows of all connections.
LEMMA AnsweredStays ==
  ASSUME JournalInv, \A r, q \in Range(journal') : Key(r) = Key(q) => r = q,
         \A r \in Answered' : \E q \in Answered : Key(q) = Key(r)
  PROVE  Cardinality(Range(journal') \ Pending') <= MaxRetained
  <1>1. /\ IsFiniteSet(Answered) /\ Cardinality(Answered) <= MaxRetained
        /\ MaxRetained \in Nat
    BY RowFacts, LimitAssumption DEF JournalInv, JournalBounded
  <1> DEFINE P == Answered'
  <1>2. P = Range(journal') \ Pending'
    BY DEF Answered, Pending
  <1>3. \A r, q \in P : Key(r) = Key(q) => r = q
    BY Zenon, <1>2
  <1> HIDE DEF P
  <1>4. IsFiniteSet(P) /\ Cardinality(P) <= Cardinality(Answered)
    BY Zenon, <1>1, <1>3, NoMore DEF P
  <1>5. Cardinality(P) \in Nat /\ Cardinality(Answered) \in Nat
    BY <1>1, <1>4, FS_CardinalityType
  <1>6. Cardinality(P) <= MaxRetained
    BY <1>1, <1>4, <1>5
  <1>7. QED
    BY <1>2, <1>6


\* The empty tables.
LEMMA JournalBegins == Init => JournalInv
  <1> SUFFICES ASSUME Init PROVE JournalInv
    OBVIOUS
  <1>1. Range(journal) = {} /\ Pending = {} /\ Keys = {} /\ Answered = {}
    BY DEF Init, Range, Pending, Keys, Answered
  <1>2. TypeOK
    <2>1. Len(source) = 0 /\ source \in Seq(Camera) /\ journal = <<>> /\ inbox = <<>> /\ rows = <<>>
      BY DEF Init
    <2>2. cursor \in [Conn -> 0..0]
      BY DEF Init
    <2>3. UNION {owed, settled, delivered} = {} /\ leases = {} /\ todo = {} /\ turn = {}
      BY DEF Init
    <2> HIDE DEF Conn
    <2>4. /\ source \in Seq(Camera) /\ pruned \in 0..Len(source) /\ known \subseteq Camera
          /\ exists \in [Conn -> BOOLEAN] /\ enabled \in [Conn -> BOOLEAN]
          /\ grants \in [Conn -> SUBSET Camera] /\ cursor \in [Conn -> 0..Len(source)]
      BY <2>1, <2>2 DEF Init
    <2>5. journal \in Seq(JRows) /\ inbox \in Seq([conn : Analytics, event : Event])
      BY <2>1
    <2>6. /\ handshakes \subseteq Conn
          /\ phase \in {"idle", "next", "row", "cursor"} /\ todo \subseteq Neural
          /\ turn \subseteq Neural /\ wanted \in BOOLEAN
      BY <2>3 DEF Init
    <2>7. rows \in Seq(1..Len(source))
      BY <2>1
    <2>8. /\ UNION {owed, settled, delivered} \subseteq Neural \X (1..Len(source))
          /\ leases \subseteq Neural \X (1..Len(source))
      BY Zenon, <2>3
    <2>9. QED
      BY Zenon, <2>4, <2>5, <2>6, <2>7, <2>8 DEF TypeOK, JRows
  <1>3. OneRowEach /\ NothingLost /\ ScopeKept /\ ReplayHonest /\ HistoryKept
    BY <1>1 DEF Init, OneRowEach, NothingLost, ScopeKept, ReplayHonest, HistoryKept
  <1>4. JournalBounded
    <2>1. Cardinality({}) = 0
      BY FS_EmptySet
    <2>2. \A c \in Neural : PendingOf(c) = {}
      BY <1>1 DEF PendingOf
    <2>3. Range(journal) \ Pending = {}
      BY <1>1
    <2>4. MaxPending >= 0 /\ MaxRetained >= 0
      BY LimitAssumption
    <2>5. QED
      BY <2>1, <2>2, <2>3, <2>4 DEF JournalBounded
  <1>5. CaptureTurns /\ CaptureFollows
    BY DEF Init, CaptureTurns, CaptureFollows, Idle
  <1>6. QED
    BY <1>2, <1>3, <1>4, <1>5 DEF JournalInv

\* What the parts about the tables say holds on while the tables and the history stay.
LEMMA TablesRest ==
  ASSUME JournalInv, journal' = journal
  PROVE  /\ JournalBounded' /\ JUnique'
         /\ Pending' = Pending /\ Keys' = Keys /\ Answered' = Answered
         /\ \A c, i : There(c, i)' = There(c, i)
  <1>1. Pending' = Pending /\ Keys' = Keys /\ Answered' = Answered
    BY DEF Pending, Keys, Answered
  <1>2. JournalBounded'
    <2>1. \A c \in Neural : PendingOf(c)' = PendingOf(c)
      BY <1>1 DEF PendingOf
    <2>2. JournalBounded
      BY DEF JournalInv
    <2>3. QED
      BY <1>1, <2>1, <2>2 DEF JournalBounded
  <1>3. JUnique'
    BY RowFacts DEF JUnique
  <1>4. QED
    BY <1>1, <1>2, <1>3 DEF There

\* A step that leaves the store and the history alone.
LEMMA StoreRests ==
  ASSUME JournalInv, UNCHANGED <<source, connVars, journal, history>>
  PROVE  /\ NothingLost' /\ ScopeKept' /\ ReplayHonest' /\ HistoryKept'
         /\ JournalBounded' /\ JUnique'
         /\ \A c, i : There(c, i)' = There(c, i)
  <1>1. /\ NothingLost /\ ScopeKept /\ ReplayHonest /\ HistoryKept
        /\ Pending' = Pending /\ Keys' = Keys /\ Answered' = Answered
        /\ JournalBounded' /\ JUnique' /\ \A c, i : There(c, i)' = There(c, i)
    BY TablesRest DEF JournalInv
  <1>2. NothingLost'
    BY <1>1 DEF NothingLost, history
  <1>3. ScopeKept'
    BY <1>1 DEF ScopeKept, connVars
  <1>4. ReplayHonest'
    BY <1>1 DEF ReplayHonest, history
  <1>5. HistoryKept'
    BY <1>1 DEF HistoryKept, history
  <1>6. QED
    BY <1>1, <1>2, <1>3, <1>4, <1>5

\* The unique constraints of the two tables are two facts.
LEMMA UniqueRows == ASSUME JUnique', IUnique' PROVE OneRowEach'
  BY DEF OneRowEach, JUnique, IUnique

\* Removing a camera from the registry deletes no row.
LEMMA JournalUnregisters ==
  ASSUME JournalInv, NEW cam \in Camera, Unregister(cam) PROVE JournalInv'
  <1> USE DEF Unregister, connVars, captureVars, history, memoryVars
  <1>1. /\ NothingLost' /\ ScopeKept' /\ ReplayHonest' /\ HistoryKept'
        /\ JournalBounded' /\ JUnique' /\ \A c, i : There(c, i)' = There(c, i)
    BY StoreRests
  <1>2. IUnique'
    BY RowFacts DEF IUnique
  <1>3. TypeOK /\ CaptureTurns /\ CaptureFollows
    BY DEF JournalInv
  <1>4. TypeOK'
    BY <1>3 DEF TypeOK
  <1>5. CaptureTurns' /\ CaptureFollows'
    BY <1>1, <1>3 DEF CaptureTurns, CaptureFollows, Idle
  <1>6. QED
    BY <1>1, <1>2, <1>4, <1>5, UniqueRows DEF JournalInv

\* The steps of a capture that write nothing: it reads the events after the cursor.
LEMMA CaptureSteps ==
  ASSUME JournalInv,
         CaptureStart \/ CaptureTurnEnd \/ CaptureEnd \/ \E c \in Neural : CaptureRead(c)
  PROVE  JournalInv'
  <1> USE DEF connVars, history, memoryVars, sourceVars
  <1>1. UNCHANGED <<sourceVars, connVars, journal, inbox, memoryVars, history>>
    BY DEF CaptureStart, CaptureRead, CaptureTurnEnd, CaptureEnd
  <1>2. /\ NothingLost' /\ ScopeKept' /\ ReplayHonest' /\ HistoryKept'
        /\ JournalBounded' /\ JUnique'
    BY <1>1, StoreRests
  <1>3. IUnique'
    BY <1>1, RowFacts DEF IUnique
  <1>4. TypeOK /\ CaptureTurns /\ CaptureFollows
    BY DEF JournalInv
  <1>5. TypeOK' /\ CaptureTurns' /\ CaptureFollows'
    <2>1. CASE CaptureStart
      BY <1>1, <1>4, <2>1 DEF CaptureStart, TypeOK, CaptureTurns, CaptureFollows, Idle
    <2>2. ASSUME NEW c \in Neural, CaptureRead(c)
          PROVE  TypeOK' /\ CaptureTurns' /\ CaptureFollows'
      <3> DEFINE first == IF pruned > cursor[c] THEN pruned ELSE cursor[c]
                 last == IF first + Batch < Len(source) THEN first + Batch ELSE Len(source)
      <3>1. /\ rows' = [k \in 1..(last - first) |-> first + k]
            /\ todo' = todo \ {c} /\ turn' = {c} /\ phase' = "row" /\ wanted' = wanted
            /\ phase = "next" /\ c \in todo
        BY <2>2 DEF CaptureRead
      <3>2. /\ first \in Nat /\ last \in Nat /\ last <= Len(source) /\ first <= last
            /\ Len(source) \in Nat /\ (first <= pruned \/ first <= cursor[c])
            /\ cursor[c] \in Nat /\ pruned \in Nat /\ c \in Conn
        <4>1. c \in Conn
          BY DEF Conn
        <4>2. cursor[c] \in 0..Len(source) /\ pruned \in 0..Len(source) /\ Len(source) \in Nat
          BY <1>4, <4>1 DEF TypeOK
        <4>3. Batch \in Nat
          BY LimitAssumption
        <4>4. QED
          BY <4>1, <4>2, <4>3
      <3> HIDE DEF first, last
      <3>3. rows' \in Seq(1..Len(source)) /\ DOMAIN rows' = 1..(last - first)
        BY <3>1, <3>2
      <3>4. TypeOK'
        BY <1>1, <1>4, <3>1, <3>3 DEF TypeOK
      <3>5. CaptureTurns'
        BY <1>1, <1>4, <3>1 DEF CaptureTurns, Idle
      <3>6. CaptureFollows'
        <4> SUFFICES ASSUME rows' # <<>>
              PROVE  /\ \A k \in DOMAIN rows' : rows'[k] = rows'[1] + k - 1
                     /\ rows'[1] <= pruned + 1 \/ rows'[1] <= cursor[c] + 1
          BY <1>1, <3>1 DEF CaptureFollows
        <4>1. last - first >= 1 /\ last - first \in Nat
          BY <3>1, <3>2
        <4>2. rows'[1] = first + 1
          BY <3>1, <3>2, <4>1
        <4>3. QED
          BY <3>1, <3>2, <3>3, <4>2
      <3>7. QED
        BY <3>4, <3>5, <3>6
    <2>3. CASE CaptureTurnEnd
      BY <1>1, <1>4, <2>3 DEF CaptureTurnEnd, TypeOK, CaptureTurns, CaptureFollows, Idle
    <2>4. CASE CaptureEnd
      BY <1>1, <1>4, <2>4 DEF CaptureEnd, TypeOK, CaptureTurns, CaptureFollows, Idle
    <2>5. QED
      BY <2>1, <2>2, <2>3, <2>4
  <1>6. QED
    BY <1>2, <1>3, <1>5, UniqueRows DEF JournalInv


\* What lives in memory goes; so does the capture a crash cuts short.
LEMMA JournalForgets ==
  ASSUME JournalInv,
         \/ \E c \in Conn : Handshake(c) \/ HandshakeExpires(c)
         \/ \E k \in leases : LeaseExpires(k)
         \/ Crash
  PROVE  JournalInv'
  <1> USE DEF connVars, history, memoryVars, sourceVars, captureVars
  <1>1. /\ UNCHANGED <<sourceVars, connVars, journal, inbox, history>>
        /\ handshakes' \subseteq Conn /\ leases' \subseteq leases
    BY DEF Handshake, HandshakeExpires, LeaseExpires, Crash, JournalInv, TypeOK
  <1>2. /\ NothingLost' /\ ScopeKept' /\ ReplayHonest' /\ HistoryKept'
        /\ JournalBounded' /\ JUnique' /\ \A d, i : There(d, i)' = There(d, i)
    BY <1>1, StoreRests
  <1>3. IUnique'
    BY <1>1, RowFacts DEF IUnique
  <1>4. TypeOK /\ CaptureTurns /\ CaptureFollows
    BY DEF JournalInv
  <1>5. TypeOK' /\ CaptureTurns' /\ CaptureFollows'
    <2>1. CASE Crash
      <3>1. /\ phase' = "idle" /\ todo' = {} /\ turn' = {} /\ rows' = <<>> /\ wanted' = FALSE
        BY <2>1 DEF Crash
      <3>2. rows' \in Seq(1..Len(source))
        BY <3>1
      <3>3. TypeOK'
        BY <1>1, <1>4, <3>1, <3>2 DEF TypeOK
      <3>4. QED
        BY <3>1, <3>3 DEF CaptureTurns, CaptureFollows, Idle
    <2>2. CASE UNCHANGED captureVars
      <3>1. TypeOK'
        BY <1>1, <1>4, <2>2 DEF TypeOK
      <3>2. QED
        BY <1>1, <1>2, <1>4, <2>2, <3>1 DEF CaptureTurns, CaptureFollows, Idle
    <2>3. QED
      BY <2>1, <2>2 DEF Handshake, HandshakeExpires, LeaseExpires
  <1>6. QED
    BY <1>2, <1>3, <1>5, UniqueRows DEF JournalInv

\* A new person event may push the oldest out.
LEMMA JournalRecords ==
  ASSUME JournalInv, NEW cam \in Camera, Record(cam) PROVE JournalInv'
  <1> USE DEF connVars, history, memoryVars, captureVars
  <1>1. /\ source' = Append(source, cam) /\ pruned' \in {pruned, pruned + 1}
        /\ pruned' # pruned => Len(source') - pruned > MaxRows
        /\ UNCHANGED <<known, connVars, journal, inbox, memoryVars, captureVars, history>>
    BY DEF Record
  <1>2. /\ TypeOK /\ CaptureTurns /\ CaptureFollows /\ NothingLost /\ ScopeKept
        /\ ReplayHonest /\ HistoryKept
    BY DEF JournalInv
  <1>3. /\ Len(source) \in Nat /\ Len(source') = Len(source) + 1 /\ source' \in Seq(Camera)
        /\ \A i \in 1..Len(source) : source'[i] = source[i]
        /\ 1..Len(source) \subseteq 1..Len(source') /\ 0..Len(source) \subseteq 0..Len(source')
    <2>1. source \in Seq(Camera)
      BY <1>2 DEF TypeOK
    <2>2. /\ Len(source) \in Nat /\ Len(source') = Len(source) + 1 /\ source' \in Seq(Camera)
          /\ \A i \in 1..Len(source) : source'[i] = source[i]
      <3>1. Len(source) \in Nat /\ Append(source, cam) \in Seq(Camera)
        BY <2>1
      <3>2. Len(Append(source, cam)) = Len(source) + 1
        BY <2>1
      <3>3. \A i \in 1..Len(source) : Append(source, cam)[i] = source[i]
        BY <2>1
      <3>4. QED
        BY <1>1, <3>1, <3>2, <3>3
    <2>3. QED
      BY <2>2
  <1>4. /\ Pending' = Pending /\ Keys' = Keys /\ Answered' = Answered
        /\ JournalBounded' /\ JUnique' /\ \A d, i : There(d, i)' = There(d, i)
    BY <1>1, TablesRest
  <1>5. NothingLost' /\ ReplayHonest' /\ HistoryKept'
    <2>1. NothingLost'
      BY <1>1, <1>2, <1>4 DEF NothingLost
    <2>2. ReplayHonest'
      BY <1>1, <1>2, <1>4 DEF ReplayHonest
    <2>3. HistoryKept'
      BY <1>1, <1>2, <1>4 DEF HistoryKept
    <2>4. QED
      BY <2>1, <2>2, <2>3
  <1>6. ScopeKept'
    <2>1. \A r \in Pending : r.id \in 1..Len(source)
      BY RowFacts DEF JRows
    <2>2. QED
      BY <1>1, <1>2, <1>3, <1>4, <2>1 DEF ScopeKept
  <1>7. IUnique'
    BY <1>1, RowFacts DEF IUnique
  <1>8. TypeOK'
    <2>1. pruned' \in 0..Len(source')
      <3>1. MaxRows \in Nat \ {0} /\ pruned \in 0..Len(source)
        BY <1>2, LimitAssumption DEF TypeOK
      <3>2. QED
        BY <1>1, <1>3, <3>1
    <2>2. cursor' \in [Conn -> 0..Len(source')]
      BY <1>1, <1>2, <1>3 DEF TypeOK
    <2>3. journal' \in Seq(JRows')
      <3>1. JRows \subseteq JRows'
        BY <1>3 DEF JRows
      <3>2. QED
        BY <1>1, <3>1, RowFacts
    <2>4. rows' \in Seq(1..Len(source'))
      <3>1. rows \in Seq(1..Len(source))
        BY <1>2 DEF TypeOK
      <3>2. QED
        BY <1>1, <1>3, <3>1
    <2>5. /\ leases' \subseteq Neural \X (1..Len(source'))
          /\ UNION {owed, settled, delivered}' \subseteq Neural \X (1..Len(source'))
      <3>1. /\ leases \subseteq Neural \X (1..Len(source))
            /\ UNION {owed, settled, delivered} \subseteq Neural \X (1..Len(source))
        BY <1>2 DEF TypeOK
      <3>2. Neural \X (1..Len(source)) \subseteq Neural \X (1..Len(source'))
        BY <1>3
      <3>3. QED
        BY <1>1, <3>1, <3>2
    <2>6. QED
      BY <1>1, <1>2, <1>3, <2>1, <2>2, <2>3, <2>4, <2>5 DEF TypeOK, JRows
  <1>9. CaptureTurns'
    BY <1>1, <1>2 DEF CaptureTurns, Idle
  <1>10. CaptureFollows'
    <2> SUFFICES ASSUME NEW c \in turn, rows # <<>>
          PROVE  /\ \A k \in DOMAIN rows : rows[k] = rows[1] + k - 1
                 /\ rows[1] <= pruned' + 1 \/ rows[1] <= cursor[c] + 1
                 /\ phase = "cursor" /\ wanted => There(c, rows[1])'
      BY <1>1 DEF CaptureFollows
    <2>1. /\ \A k \in DOMAIN rows : rows[k] = rows[1] + k - 1
          /\ rows[1] <= pruned + 1 \/ rows[1] <= cursor[c] + 1
          /\ phase = "cursor" /\ wanted => There(c, rows[1])
      BY <1>2 DEF CaptureFollows
    <2>2. There(c, rows[1])' = There(c, rows[1])
      BY <1>1, <1>4 DEF There
    <2>3. rows[1] \in Nat /\ pruned \in Nat
      BY <1>2 DEF TypeOK
    <2>4. QED
      BY <1>1, <2>1, <2>2, <2>3
  <1>11. QED
    BY <1>4, <1>5, <1>6, <1>7, <1>8, <1>9, <1>10, UniqueRows DEF JournalInv


\* A new connection has no row, so its empty cursor owes nothing.
LEMMA JournalCreates ==
  ASSUME JournalInv, NEW c \in Conn, NEW on \in BOOLEAN, NEW cams \in SUBSET Camera,
         Create(c, on, cams)
  PROVE  JournalInv'
  <1> USE DEF sourceVars, history, memoryVars, captureVars
  <1>1. /\ Idle /\ ~exists[c]
        /\ exists' = [exists EXCEPT ![c] = TRUE] /\ enabled' = [enabled EXCEPT ![c] = on]
        /\ grants' = [grants EXCEPT ![c] = cams] /\ cursor' = [cursor EXCEPT ![c] = 0]
        /\ UNCHANGED <<sourceVars, journal, inbox, memoryVars, captureVars, history>>
    BY DEF Create
  <1>2. /\ TypeOK /\ CaptureTurns /\ CaptureFollows /\ NothingLost /\ ScopeKept
        /\ ReplayHonest /\ HistoryKept
    BY DEF JournalInv
  <1>3. /\ Pending' = Pending /\ Keys' = Keys /\ Answered' = Answered
        /\ JournalBounded' /\ JUnique'
    BY <1>1, TablesRest
  <1>4. NothingLost'
    BY <1>1, <1>2, <1>3 DEF NothingLost
  <1>5. ReplayHonest'
    BY <1>1, <1>2, <1>3 DEF ReplayHonest
  <1>6. HistoryKept'
    BY <1>1, <1>2, <1>3 DEF HistoryKept
  <1>7. ScopeKept'
    <2> SUFFICES ASSUME NEW r \in Pending PROVE exists'[r.conn] /\ source[r.id] \in grants'[r.conn]
      BY <1>1, <1>3 DEF ScopeKept
    <2>1. exists[r.conn] /\ source[r.id] \in grants[r.conn]
      BY <1>2 DEF ScopeKept
    <2>2. r.conn \in Conn /\ r.conn # c
      BY <1>1, <2>1, RowFacts DEF JRows, Conn
    <2>3. exists'[r.conn] = exists[r.conn] /\ grants'[r.conn] = grants[r.conn]
      BY <1>1, <1>2, <2>2 DEF TypeOK
    <2>4. QED
      BY <2>1, <2>3
  <1>8. TypeOK'
    BY <1>1, <1>2 DEF TypeOK
  <1>9. IUnique'
    BY <1>1, RowFacts DEF IUnique
  <1>10. CaptureTurns' /\ CaptureFollows'
    BY <1>1, <1>2 DEF CaptureTurns, CaptureFollows, Idle
  <1>11. QED
    BY <1>3, <1>4, <1>5, <1>6, <1>7, <1>8, <1>9, <1>10, UniqueRows DEF JournalInv

\* The inbox drops its oldest row when it is full.
LEMMA JournalIngests ==
  ASSUME JournalInv, NEW c \in Conn, NEW cam \in Camera, NEW e \in Event, Ingest(c, cam, e)
  PROVE  JournalInv'
  <1> USE DEF sourceVars, connVars, history, memoryVars, captureVars
  <1> DEFINE new == [conn |-> c, event |-> e]
             all == Append(inbox, new)
             IRows == [conn : Analytics, event : Event]
  <1>1. /\ c \in Analytics /\ New(c, e)
        /\ inbox' = IF Len(all) > MaxRetained THEN Tail(all) ELSE all
        /\ UNCHANGED <<sourceVars, connVars, journal, memoryVars, captureVars, history>>
    BY DEF Ingest
  <1>2. /\ NothingLost' /\ ScopeKept' /\ ReplayHonest' /\ HistoryKept'
        /\ JournalBounded' /\ JUnique' /\ \A d, i : There(d, i)' = There(d, i)
    BY <1>1, StoreRests
  <1>3. TypeOK /\ CaptureTurns /\ CaptureFollows /\ IUnique /\ inbox \in Seq(IRows)
    BY RowFacts DEF JournalInv, TypeOK
  <1> DEFINE l == Len(inbox)
  <1>4. /\ l \in Nat /\ all \in Seq(IRows) /\ Len(all) = l + 1 /\ DOMAIN all = 1..(l + 1)
        /\ all[l + 1] = new /\ \A k \in 1..l : all[k] = inbox[k]
    BY <1>1, <1>3
  <1>5. ASSUME NEW k \in 1..l PROVE inbox[k].conn # c \/ inbox[k].event # e
    BY <1>1, <1>3 DEF New, Range
  <1>6. new.conn = c /\ new.event = e
    OBVIOUS
  <1>7. ASSUME NEW k \in 1..(l + 1), NEW m \in 1..(l + 1),
               all[k].conn = all[m].conn, all[k].event = all[m].event
        PROVE  k = m
    <2> HIDE DEF all, new, l
    <2>1. CASE k \in 1..l /\ m \in 1..l
      <3>1. inbox[k].conn = inbox[m].conn /\ inbox[k].event = inbox[m].event
        BY <1>4, <1>7, <2>1
      <3>2. k \in DOMAIN inbox /\ m \in DOMAIN inbox
        BY <1>3, <2>1 DEF l
      <3>3. QED
        BY <1>3, <3>1, <3>2 DEF IUnique
    <2>2. CASE k = l + 1 /\ m \in 1..l
      BY <1>4, <1>5, <1>6, <1>7, <2>2
    <2>3. CASE k \in 1..l /\ m = l + 1
      BY <1>4, <1>5, <1>6, <1>7, <2>3
    <2>4. QED
      BY <1>4, <2>1, <2>2, <2>3
  <1> HIDE DEF all, new, l
  <1>8. inbox' \in Seq(IRows) /\ IUnique'
    <2>1. CASE inbox' = all
      <3>1. inbox' \in Seq(IRows)
        BY <1>4, <2>1
      <3>2. IUnique'
        BY <1>4, <1>7, <2>1 DEF IUnique
      <3>3. QED
        BY <3>1, <3>2
    <2>2. CASE inbox' = Tail(all)
      <3>1. /\ inbox' \in Seq(IRows) /\ DOMAIN inbox' = 1..l
            /\ \A k \in 1..l : inbox'[k] = all[k + 1]
        BY <1>4, <2>2
      <3>2. \A k \in 1..l : k + 1 \in 1..(l + 1)
        BY <1>4
      <3>3. ASSUME NEW k \in 1..l, NEW m \in 1..l,
                   inbox'[k].conn = inbox'[m].conn, inbox'[k].event = inbox'[m].event
            PROVE  k = m
        <4>1. k + 1 = m + 1
          BY <1>7, <3>1, <3>2, <3>3
        <4>2. QED
          BY <1>4, <4>1
      <3>4. QED
        BY <3>1, <3>3 DEF IUnique
    <2>3. QED
      BY <1>1, <2>1, <2>2
  <1>9. TypeOK'
    BY <1>1, <1>3, <1>8 DEF TypeOK
  <1>10. CaptureTurns'
    BY <1>1, <1>3 DEF CaptureTurns, Idle
  <1>11. CaptureFollows'
    BY <1>1, <1>2, <1>3 DEF CaptureFollows
  <1>12. QED
    BY <1>2, <1>8, <1>9, <1>10, <1>11, UniqueRows DEF JournalInv

\* The cursor passes the event at hand and those that were pruned, nothing else: what it
\* passes in scope has its row, unless its answer was retained away.
LEMMA JournalMovesCursor ==
  ASSUME JournalInv, NEW c \in Neural, CaptureCursor(c) PROVE JournalInv'
  <1> USE DEF sourceVars, memoryVars
  <1> DEFINE i0 == Head(rows)
             passed == {i \in (cursor[c] + 1)..i0 : i > pruned /\ (i = i0 => wanted)}
  <1>1. /\ phase = "cursor" /\ c \in turn
        /\ cursor' = [cursor EXCEPT ![c] = i0] /\ rows' = Tail(rows) /\ phase' = "row"
        /\ owed' = owed \cup ({<<c, i>> : i \in passed} \ settled) /\ wanted' = FALSE
        /\ UNCHANGED <<sourceVars, exists, enabled, grants, journal, inbox, memoryVars, todo,
                       turn, settled, delivered>>
    BY DEF CaptureCursor
  <1>2. /\ TypeOK /\ CaptureTurns /\ CaptureFollows /\ NothingLost /\ ScopeKept
        /\ ReplayHonest /\ HistoryKept
    BY DEF JournalInv
  <1>3. /\ Pending' = Pending /\ Keys' = Keys /\ Answered' = Answered
        /\ JournalBounded' /\ JUnique'
    BY <1>1, TablesRest
  <1>4. rows # <<>> /\ turn = {c} /\ c \in Conn
    BY <1>1, <1>2 DEF CaptureTurns, Conn
  <1>5. /\ rows \in Seq(1..Len(source)) /\ rows[1] = i0 /\ i0 \in 1..Len(source)
        /\ cursor[c] \in 0..Len(source) /\ pruned \in 0..Len(source) /\ Len(source) \in Nat
    <2>1. /\ rows \in Seq(1..Len(source)) /\ cursor[c] \in 0..Len(source)
          /\ pruned \in 0..Len(source) /\ Len(source) \in Nat
      BY <1>2, <1>4 DEF TypeOK
    <2>2. QED
      BY <1>4, <2>1
  <1>6. /\ \A k \in DOMAIN rows : rows[k] = i0 + k - 1
        /\ i0 <= pruned + 1 \/ i0 <= cursor[c] + 1
        /\ wanted => There(c, i0)
    BY <1>1, <1>2, <1>4, <1>5 DEF CaptureFollows
  <1>7. ASSUME NEW i \in passed PROVE i = i0 /\ wanted
    BY <1>5, <1>6
  <1> HIDE DEF i0
  <1>8. {<<c, i>> : i \in passed} \ settled \subseteq {Key(r) : r \in Pending}
    <2> SUFFICES ASSUME NEW i \in passed, <<c, i>> \notin settled
                 PROVE  \E r \in Pending : <<c, i>> = Key(r)
      BY Zenon
    <2>1. <<c, i>> \in Keys
      BY <1>6, <1>7 DEF There
    <2>2. PICK r \in Range(journal) : <<c, i>> = Key(r)
      BY <2>1 DEF Keys
    <2>3. r \notin Answered
      BY <1>2, <2>2 DEF HistoryKept
    <2>4. QED
      BY <2>2, <2>3 DEF Pending, Answered
  <1> HIDE DEF passed
  <1>9. NothingLost'
    BY <1>1, <1>2, <1>3, <1>8 DEF NothingLost
  <1>10. ReplayHonest'
    BY <1>1, <1>2, <1>3 DEF ReplayHonest
  <1>11. HistoryKept'
    BY <1>1, <1>2, <1>3 DEF HistoryKept
  <1>12. ScopeKept'
    BY <1>1, <1>2, <1>3 DEF ScopeKept
  <1>13. IUnique'
    BY <1>1, RowFacts DEF IUnique
  <1>14. /\ rows' \in Seq(1..Len(source)) /\ DOMAIN rows' = 1..(Len(rows) - 1)
         /\ \A k \in DOMAIN rows' : k + 1 \in DOMAIN rows /\ rows'[k] = rows[k + 1]
    BY <1>1, <1>4, <1>5
  <1>15. TypeOK'
    <2>1. owed' \subseteq Neural \X (1..Len(source))
      <3>1. {<<c, i>> : i \in passed} \subseteq Neural \X (1..Len(source))
        BY <1>5, <1>7
      <3>2. owed \subseteq Neural \X (1..Len(source))
        BY <1>2 DEF TypeOK
      <3>3. QED
        BY <1>1, <3>1, <3>2
    <2>2. UNION {owed, settled, delivered}' \subseteq Neural \X (1..Len(source))
      BY <1>1, <1>2, <2>1 DEF TypeOK
    <2>3. cursor' \in [Conn -> 0..Len(source)]
      <3>1. cursor \in [Conn -> 0..Len(source)]
        BY <1>2 DEF TypeOK
      <3>2. i0 \in 0..Len(source)
        BY <1>5
      <3>3. QED
        BY <1>1, <3>1, <3>2
    <2>4. QED
      BY <1>1, <1>2, <1>14, <2>2, <2>3 DEF TypeOK
  <1>16. CaptureTurns'
    BY <1>1, <1>2 DEF CaptureTurns, Idle
  <1>17. CaptureFollows'
    <2> SUFFICES ASSUME rows' # <<>>
          PROVE  /\ \A k \in DOMAIN rows' : rows'[k] = rows'[1] + k - 1
                 /\ rows'[1] <= cursor'[c] + 1
      BY <1>1, <1>4 DEF CaptureFollows
    <2>1. 1 \in DOMAIN rows' /\ rows'[1] = i0 + 1
      <3>1. 1 \in DOMAIN rows'
        BY <1>14
      <3>2. 2 \in DOMAIN rows /\ rows'[1] = rows[2]
        BY <1>14, <3>1
      <3>3. QED
        BY <1>5, <1>6, <3>1, <3>2
    <2>2. cursor'[c] = i0
      BY <1>1, <1>2, <1>4 DEF TypeOK
    <2>3. ASSUME NEW k \in DOMAIN rows' PROVE rows'[k] = rows'[1] + k - 1
      <3>1. rows'[k] = i0 + (k + 1) - 1 /\ k \in Int
        BY <1>6, <1>14
      <3>2. QED
        BY <1>5, <2>1, <3>1
    <2>4. QED
      BY <1>5, <2>1, <2>2, <2>3
  <1>18. QED
    BY <1>3, <1>9, <1>10, <1>11, <1>12, <1>13, <1>15, <1>16, <1>17, UniqueRows DEF JournalInv


\* A captured row is new to the table and was not handed out unless it is settled.
LEMMA JournalCapturesRow ==
  ASSUME JournalInv, NEW c \in Neural, CaptureRow(c) PROVE JournalInv'
  <1> USE DEF sourceVars, connVars, memoryVars, history
  <1>0. PICK i0 : i0 = Head(rows)
    OBVIOUS
  <1> DEFINE new == Row(c, i0)
             Added == /\ wanted' /\ ~There(c, i0) /\ Cardinality(PendingOf(c)) < MaxPending
                      /\ journal' = Append(journal, new)
             Same == journal' = journal /\ (phase' = "cursor" /\ wanted' => There(c, i0))
  <1>1. /\ phase = "row" /\ c \in turn /\ rows # <<>> /\ phase' \in {"row", "cursor"}
        /\ wanted' = (source[i0] \in grants[c] \cap known)
        /\ (phase' = "cursor" /\ rows' = rows) \/ (phase' = "row" /\ rows' = <<>>)
        /\ (Added /\ phase' = "cursor") \/ Same
        /\ UNCHANGED <<sourceVars, connVars, inbox, memoryVars, todo, turn, history>>
    <2>1. /\ phase = "row" /\ c \in turn /\ rows # <<>>
          /\ wanted' = (source[i0] \in grants[c] \cap known)
          /\ UNCHANGED <<sourceVars, connVars, inbox, memoryVars, todo, turn, history>>
      BY <1>0 DEF CaptureRow
    <2>2. CASE /\ wanted' /\ Cardinality(PendingOf(c)) >= MaxPending
               /\ rows' = <<>> /\ UNCHANGED <<journal, phase>>
      BY <2>1, <2>2
    <2>3. CASE /\ wanted' /\ Cardinality(PendingOf(c)) < MaxPending
               /\ journal' = IF There(c, i0) THEN journal ELSE Append(journal, new)
               /\ phase' = "cursor" /\ UNCHANGED rows
      BY <2>1, <2>3
    <2>4. CASE ~wanted' /\ phase' = "cursor" /\ UNCHANGED <<journal, rows>>
      BY <2>1, <2>4
    <2>5. QED
      <3> HIDE DEF new, Added, Same
      <3>1. QED
        BY <1>0, <2>2, <2>3, <2>4 DEF CaptureRow, new
  <1>2. /\ TypeOK /\ CaptureTurns /\ CaptureFollows /\ NothingLost /\ ScopeKept
        /\ ReplayHonest /\ HistoryKept /\ JournalBounded
    BY DEF JournalInv
  <1>3. turn = {c} /\ c \in Conn /\ exists[c] /\ todo \subseteq Neural
    BY <1>1, <1>2 DEF CaptureTurns, Conn, TypeOK
  <1>4. rows[1] = i0 /\ i0 \in 1..Len(source) /\ rows \in Seq(1..Len(source))
    <2>1. rows \in Seq(1..Len(source))
      BY <1>2 DEF TypeOK
    <2>2. QED
      BY <1>0, <1>1, <2>1
  <1>5. IUnique'
    BY <1>1, RowFacts DEF IUnique
  <1>6. CaptureTurns'
    BY <1>1, <1>2, <1>3 DEF CaptureTurns, Idle
  <1>7. rows' \in Seq(1..Len(source))
    <2>1. <<>> \in Seq(1..Len(source))
      OBVIOUS
    <2>2. QED
      BY <1>1, <1>4, <2>1
  <1>8. ASSUME phase' = "cursor" /\ wanted' => There(c, i0)' PROVE CaptureFollows'
    <2> SUFFICES ASSUME rows' # <<>>
          PROVE  /\ \A k \in DOMAIN rows' : rows'[k] = rows'[1] + k - 1
                 /\ rows'[1] <= pruned' + 1 \/ rows'[1] <= cursor'[c] + 1
                 /\ phase' = "cursor" /\ wanted' => There(c, rows[1])'
      BY <1>1, <1>3 DEF CaptureFollows
    <2>1. rows' = rows
      BY <1>1
    <2>2. /\ \A k \in DOMAIN rows : rows[k] = rows[1] + k - 1
          /\ rows[1] <= pruned + 1 \/ rows[1] <= cursor[c] + 1
      BY <1>1, <1>2 DEF CaptureFollows
    <2>3. There(c, rows[1])' = There(c, i0)'
      BY <1>4, <2>1 DEF There
    <2>4. QED
      BY <1>1, <1>8, <2>1, <2>2, <2>3
  <1>9. CASE Same
    <2>1. /\ NothingLost' /\ ScopeKept' /\ ReplayHonest' /\ HistoryKept'
          /\ JournalBounded' /\ JUnique' /\ There(c, i0)' = There(c, i0)
      BY <1>1, <1>9, StoreRests
    <2>2. CaptureFollows'
      BY <1>8, <1>9, <2>1
    <2>3. TypeOK'
      BY <1>1, <1>2, <1>7, <1>9 DEF TypeOK
    <2>4. QED
      BY <1>5, <1>6, <2>1, <2>2, <2>3, UniqueRows DEF JournalInv
  <1>10. CASE Added /\ phase' = "cursor"
    <2>1. /\ new \in JRows /\ Key(new) = <<c, i0>> /\ new.answer = {} /\ new.conn = c
          /\ new.sent = FALSE /\ new.id = i0
      <3>1. 0 \in 0..MaxAttempts
        BY LimitAssumption
      <3>2. QED
        BY <1>4, <3>1 DEF Row, JRows, Key
    <2>2. /\ wanted' /\ <<c, i0>> \notin Keys /\ Cardinality(PendingOf(c)) < MaxPending
          /\ journal' = Append(journal, new)
      BY <1>10 DEF There
    <2> HIDE DEF new, Added, Same
    <2> DEFINE l == Len(journal)
    <2>3. /\ journal \in Seq(JRows) /\ JUnique /\ l \in Nat /\ DOMAIN journal = 1..l
      BY RowFacts
    <2>4. /\ journal' \in Seq(JRows) /\ DOMAIN journal' = 1..(l + 1)
          /\ journal'[l + 1] = new /\ \A k \in 1..l : journal'[k] = journal[k]
      BY <2>1, <2>2, <2>3
    <2> HIDE DEF l
    <2>5. Range(journal') = Range(journal) \cup {new}
      <3>1. ASSUME NEW k \in DOMAIN journal' PROVE journal'[k] \in Range(journal) \cup {new}
        BY <2>3, <2>4 DEF Range
      <3>2. ASSUME NEW k \in DOMAIN journal PROVE journal[k] \in Range(journal')
        BY <2>3, <2>4 DEF Range
      <3>3. new \in Range(journal')
        BY <2>3, <2>4 DEF Range
      <3>4. QED
        BY <3>1, <3>2, <3>3 DEF Range
    <2>6. /\ Pending' = Pending \cup {new} /\ Answered' = Answered
          /\ Keys' = Keys \cup {<<c, i0>>}
      BY <2>1, <2>5 DEF Pending, Answered, Keys
    <2>7. \A r \in Range(journal) : Key(r) # <<c, i0>>
      BY <2>2 DEF Keys
    <2>8. JUnique'
      <3> SUFFICES ASSUME NEW k \in 1..(l + 1), NEW m \in 1..(l + 1),
                          Key(journal'[k]) = Key(journal'[m])
                   PROVE  k = m
        BY <2>4 DEF JUnique
      <3>1. \A n \in 1..l : journal'[n] \in Range(journal) /\ Key(journal'[n]) # <<c, i0>>
        BY <2>3, <2>4, <2>7 DEF Range
      <3>2. CASE k \in 1..l /\ m \in 1..l
        BY <2>3, <2>4, <3>2 DEF JUnique
      <3>3. CASE k = l + 1 /\ m \in 1..l
        BY <2>1, <2>4, <3>1, <3>3
      <3>4. CASE k \in 1..l /\ m = l + 1
        BY <2>1, <2>4, <3>1, <3>4
      <3>5. QED
        BY <2>3, <3>2, <3>3, <3>4
    <2>9. NothingLost'
      BY <1>1, <1>2, <2>6 DEF NothingLost
    <2>10. ScopeKept'
      BY <1>1, <1>2, <1>3, <2>1, <2>2, <2>6 DEF ScopeKept
    <2>11. ReplayHonest'
      <3>1. <<c, i0>> \notin settled => <<c, i0>> \notin delivered
        BY <1>2, <2>2 DEF HistoryKept
      <3>2. \A r \in Pending : Key(r) \notin settled => (r.sent <=> Key(r) \in delivered)
        BY <1>2 DEF ReplayHonest
      <3>3. Key(new) \notin settled => (new.sent <=> Key(new) \in delivered)
        BY <2>1, <3>1
      <3>4. QED
        BY <1>1, <2>6, <3>2, <3>3 DEF ReplayHonest
    <2>12. HistoryKept'
      BY <1>1, <1>2, <2>6 DEF HistoryKept
    <2>13. JournalBounded'
      <3>1. MaxPending \in Nat
        BY LimitAssumption
      <3>2. ASSUME NEW d \in Neural PROVE Cardinality(PendingOf(d)') <= MaxPending
        <4>1. CASE d = c
          <5>1. PendingOf(d)' = PendingOf(c) \cup {new}
            BY <2>1, <2>6, <4>1 DEF PendingOf
          <5>2. IsFiniteSet(PendingOf(c))
            BY RowFacts
          <5>3. /\ Cardinality(PendingOf(c)) \in Nat
                /\ Cardinality(PendingOf(c) \cup {new}) \in Nat
                /\ Cardinality(PendingOf(c) \cup {new}) <= Cardinality(PendingOf(c)) + 1
            <6> DEFINE P == PendingOf(c)
            <6> HIDE DEF P
            <6>1. Cardinality(P) \in Nat
              BY <5>2, FS_CardinalityType DEF P
            <6>2. Cardinality(P \cup {new}) =
                    IF new \in P THEN Cardinality(P) ELSE Cardinality(P) + 1
              BY <5>2, FS_AddElement DEF P
            <6>3. /\ Cardinality(P \cup {new}) <= Cardinality(P) + 1
                  /\ Cardinality(P \cup {new}) \in Nat
              BY <6>1, <6>2
            <6>4. QED
              BY Zenon, <6>1, <6>3 DEF P
          <5>4. Cardinality(PendingOf(d)') = Cardinality(PendingOf(c) \cup {new})
            BY Zenon, <5>1
          <5>5. Cardinality(PendingOf(c)) < MaxPending
            BY Zenon, <2>2
          <5>6. QED
            BY <3>1, <5>3, <5>4, <5>5
        <4>2. CASE d # c
          <5>1. PendingOf(d)' = PendingOf(d)
            BY <2>1, <2>6, <4>2 DEF PendingOf
          <5>2. QED
            BY <1>2, <5>1 DEF JournalBounded
        <4>3. QED
          BY <4>1, <4>2
      <3>3. Range(journal') \ Pending' = Range(journal) \ Pending
        BY <2>1, <2>5, <2>6, <2>7 DEF Answered, Pending
      <3>4. QED
        BY <1>2, <3>2, <3>3 DEF JournalBounded
    <2>14. CaptureFollows'
      BY <1>8, <2>6 DEF There
    <2>15. TypeOK'
      BY <1>1, <1>2, <1>7, <2>4 DEF TypeOK, JRows
    <2>16. QED
      BY <1>5, <1>6, <2>8, <2>9, <2>10, <2>11, <2>12, <2>13, <2>14, <2>15, UniqueRows
      DEF JournalInv
  <1>11. QED
    BY <1>1, <1>9, <1>10


\* A step that deletes rows and changes none: the rows that stay are named in K.
LEMMA RowsDeleted ==
  ASSUME JournalInv, NEW K, journal' = Keeping(journal, K)
  PROVE  /\ journal' \in Seq(JRows) /\ JUnique' /\ Range(journal') = Range(journal) \cap K
         /\ Pending' = Pending \cap K /\ Answered' = Answered \cap K /\ JournalBounded'
  <1>1. journal \in Seq(JRows) /\ JUnique
    BY RowFacts
  <1>2. journal' \in Seq(JRows) /\ Range(journal') = Range(journal) \cap K
    BY <1>1, KeepingRange
  <1>3. JUnique'
    <2>1. PICK h \in [DOMAIN journal' -> DOMAIN journal] :
            /\ \A k, m \in DOMAIN journal' : h[k] = h[m] => k = m
            /\ \A k \in DOMAIN journal' : journal'[k] = journal[h[k]]
      BY <1>1, KeepingRows
    <2>2. QED
      BY <1>1, <2>1 DEF JUnique
  <1>4. Pending' = Pending \cap K /\ Answered' = Answered \cap K
    BY <1>2 DEF Pending, Answered
  <1>5. JournalBounded'
    <2>1. \A r, q \in Range(journal') : Key(r) = Key(q) => r = q
      BY <1>2, RowFacts
    <2>2. \A c \in Neural : Cardinality(PendingOf(c)') <= MaxPending
      BY <1>4, <2>1, PendingStays
    <2>3. Cardinality(Range(journal') \ Pending') <= MaxRetained
      BY <1>4, <2>1, AnsweredStays
    <2>4. QED
      BY <2>2, <2>3 DEF JournalBounded
  <1>6. QED
    BY <1>2, <1>3, <1>4, <1>5

\* Withdrawn cameras take their waiting rows along, and what was owed for them.
LEMMA JournalUpdates ==
  ASSUME JournalInv, NEW c \in Conn, NEW on \in BOOLEAN, NEW cams \in SUBSET Camera,
         Update(c, on, cams)
  PROVE  JournalInv'
  <1> USE DEF sourceVars, captureVars
  <1> DEFINE K == {r \in Range(journal) : Kept(c, cams, r)}
  <1>0. PICK withdrawn : withdrawn = {k \in Of(c, Neural \X (1..Len(source))) :
                                        source[k[2]] \notin cams}
    OBVIOUS
  <1>1. /\ Idle /\ exists[c]
        /\ enabled' = [enabled EXCEPT ![c] = on] /\ grants' = [grants EXCEPT ![c] = cams]
        /\ journal' = Keeping(journal, K)
        /\ handshakes' \subseteq handshakes /\ leases' \subseteq leases
        /\ owed' = owed \ withdrawn /\ delivered' = delivered \ withdrawn
        /\ UNCHANGED <<sourceVars, exists, cursor, inbox, captureVars, settled>>
    BY <1>0 DEF Update, Forget
  <1>2. /\ TypeOK /\ CaptureTurns /\ CaptureFollows /\ NothingLost /\ ScopeKept
        /\ ReplayHonest /\ HistoryKept
    BY DEF JournalInv
  <1>3. /\ journal' \in Seq(JRows) /\ JUnique' /\ Range(journal') = Range(journal) \cap K
        /\ Pending' = Pending \cap K /\ Answered' = Answered \cap K /\ JournalBounded'
    BY <1>1, RowsDeleted
  <1>4. ASSUME NEW r \in Pending
        PROVE  /\ r \in K <=> (r.conn = c => source[r.id] \in cams)
               /\ Key(r) \in withdrawn <=> r.conn = c /\ source[r.id] \notin cams
    <2>1. r \in JRows /\ r \in Range(journal) /\ r.answer = {}
      BY RowFacts DEF Pending
    <2>2. r \in K <=> (r.conn = c => source[r.id] \in cams)
      BY <2>1 DEF Kept
    <2>3. Key(r) \in Neural \X (1..Len(source)) /\ Key(r)[1] = r.conn /\ Key(r)[2] = r.id
      BY <2>1 DEF JRows, Key
    <2>4. Key(r) \in withdrawn <=> r.conn = c /\ source[r.id] \notin cams
      BY <1>0, <2>3 DEF Of
    <2>5. QED
      BY <2>2, <2>4
  <1>5. \A r \in Pending : r \in K <=> Key(r) \notin withdrawn
    BY <1>4
  <1> HIDE DEF K
  <1>6. NothingLost'
    <2> SUFFICES ASSUME NEW k \in owed, k \notin withdrawn
                 PROVE  \E r \in Pending' : k = Key(r)
      BY <1>1 DEF NothingLost
    <2>1. PICK r \in Pending : k = Key(r)
      BY <1>2 DEF NothingLost
    <2>2. QED
      BY <1>3, <1>5, <2>1
  <1>7. ScopeKept'
    <2> SUFFICES ASSUME NEW r \in Pending, r \in K
                 PROVE  exists[r.conn] /\ source[r.id] \in grants'[r.conn]
      BY <1>1, <1>3 DEF ScopeKept
    <2>1. exists[r.conn] /\ source[r.id] \in grants[r.conn]
      BY <1>2 DEF ScopeKept
    <2>2. r.conn \in Conn
      BY RowFacts DEF JRows, Conn
    <2>3. QED
      BY <1>1, <1>2, <1>4, <2>1, <2>2 DEF TypeOK
  <1>8. ReplayHonest'
    BY <1>1, <1>2, <1>3, <1>5 DEF ReplayHonest
  <1>9. HistoryKept'
    <2>1. \A r \in Answered' : Key(r) \in settled'
      BY <1>1, <1>2, <1>3 DEF HistoryKept
    <2>2. ASSUME NEW k \in delivered, k \notin withdrawn, k \notin settled PROVE k \in Keys'
      <3>1. PICK r \in Range(journal) : k = Key(r)
        BY <1>2, <2>2 DEF HistoryKept, Keys
      <3>2. r \in Pending
        BY <1>2, <2>2, <3>1, RowFacts DEF HistoryKept
      <3>3. r \in Range(journal')
        BY <1>3, <1>5, <2>2, <3>1, <3>2
      <3>4. QED
        BY <3>1, <3>3 DEF Keys
    <2>3. QED
      BY <1>1, <2>1, <2>2 DEF HistoryKept
  <1>10. IUnique'
    BY <1>1, RowFacts DEF IUnique
  <1>11. TypeOK'
    <2>1. journal' \in Seq([conn : Neural, id : 1..Len(source), attempt : 0..MaxAttempts,
                            sent : BOOLEAN, answer : {{}} \cup {{b} : b \in Answer}])
      BY <1>3, <1>1 DEF JRows
    <2>2. grants' \in [Conn -> SUBSET Camera] /\ enabled' \in [Conn -> BOOLEAN]
      BY <1>1, <1>2 DEF TypeOK
    <2>3. UNION {owed, settled, delivered}' \subseteq Neural \X (1..Len(source))
      BY <1>1, <1>2 DEF TypeOK
    <2>4. QED
      BY <1>1, <1>2, <2>1, <2>2, <2>3 DEF TypeOK
  <1>12. CaptureTurns' /\ CaptureFollows'
    BY <1>1, <1>2 DEF CaptureTurns, CaptureFollows, Idle
  <1>13. QED
    BY <1>3, <1>6, <1>7, <1>8, <1>9, <1>10, <1>11, <1>12, UniqueRows DEF JournalInv


\* Nothing of the connection stays in either table or the history.
LEMMA JournalDeletes ==
  ASSUME JournalInv, NEW c \in Conn, Delete(c) PROVE JournalInv'
  <1> USE DEF sourceVars, captureVars
  <1> DEFINE K == {r \in Range(journal) : r.conn # c}
             L == {r \in Range(inbox) : r.conn # c}
             IRows == [conn : Analytics, event : Event]
  <1>1. /\ Idle /\ exists[c]
        /\ exists' = [exists EXCEPT ![c] = FALSE] /\ enabled' = [enabled EXCEPT ![c] = FALSE]
        /\ grants' = [grants EXCEPT ![c] = {}] /\ cursor' = [cursor EXCEPT ![c] = 0]
        /\ journal' = Keeping(journal, K) /\ inbox' = Keeping(inbox, L)
        /\ handshakes' \subseteq handshakes /\ leases' \subseteq leases
        /\ owed' = owed \ Of(c, owed) /\ settled' = settled \ Of(c, settled)
        /\ delivered' = delivered \ Of(c, delivered)
        /\ UNCHANGED <<sourceVars, captureVars>>
    BY DEF Delete, Forget
  <1>2. /\ TypeOK /\ CaptureTurns /\ CaptureFollows /\ NothingLost /\ ScopeKept
        /\ ReplayHonest /\ HistoryKept
    BY DEF JournalInv
  <1>3. /\ journal' \in Seq(JRows) /\ JUnique' /\ Range(journal') = Range(journal) \cap K
        /\ Pending' = Pending \cap K /\ Answered' = Answered \cap K /\ JournalBounded'
    BY <1>1, RowsDeleted
  <1>4. ASSUME NEW r \in Range(journal)
        PROVE  (r \in K <=> r.conn # c) /\ Key(r)[1] = r.conn
    BY DEF Key
  <1>5. ASSUME NEW k, NEW X PROVE k \in X \ Of(c, X) <=> k \in X /\ k[1] # c
    BY DEF Of
  <1>6. Pending \subseteq Range(journal) /\ Answered \subseteq Range(journal)
    BY RowFacts
  <1> HIDE DEF K, L
  <1>7. NothingLost'
    <2> SUFFICES ASSUME NEW k \in owed, k[1] # c PROVE \E r \in Pending' : k = Key(r)
      BY <1>1, <1>5 DEF NothingLost
    <2>1. PICK r \in Pending : k = Key(r)
      BY <1>2 DEF NothingLost
    <2>2. QED
      BY <1>3, <1>4, <1>6, <2>1
  <1>8. ScopeKept'
    <2> SUFFICES ASSUME NEW r \in Pending, r \in K
                 PROVE  exists'[r.conn] /\ source[r.id] \in grants'[r.conn]
      BY <1>1, <1>3 DEF ScopeKept
    <2>1. exists[r.conn] /\ source[r.id] \in grants[r.conn]
      BY <1>2 DEF ScopeKept
    <2>2. r.conn \in Conn /\ r.conn # c
      BY <1>4, RowFacts DEF JRows, Conn
    <2>3. QED
      BY <1>1, <1>2, <2>1, <2>2 DEF TypeOK
  <1>9. ReplayHonest'
    <2> SUFFICES ASSUME NEW r \in Pending, r \in K, Key(r) \notin settled'
                 PROVE  r.sent <=> Key(r) \in delivered'
      BY <1>3 DEF ReplayHonest
    <2>1. Key(r)[1] # c
      BY <1>4, <1>6
    <2>2. (Key(r) \in settled' <=> Key(r) \in settled) /\ (Key(r) \in delivered' <=> Key(r) \in delivered)
      BY <1>1, <1>5, <2>1
    <2>3. QED
      BY <1>2, <2>2 DEF ReplayHonest
  <1>10. HistoryKept'
    <2>1. ASSUME NEW r \in Answered, r \in K PROVE Key(r) \in settled'
      <3>1. Key(r) \in settled /\ Key(r)[1] # c
        BY <1>2, <1>4, <1>6, <2>1 DEF HistoryKept
      <3>2. QED
        BY <1>1, <1>5, <3>1
    <2>2. ASSUME NEW k \in delivered, k[1] # c PROVE k \in Keys' \cup settled'
      <3>1. CASE k \in settled
        BY <1>1, <1>5, <2>2, <3>1
      <3>2. CASE k \in Keys
        <4>1. PICK r \in Range(journal) : k = Key(r)
          BY <3>2 DEF Keys
        <4>2. r \in Range(journal')
          BY <1>3, <1>4, <2>2, <4>1
        <4>3. QED
          BY <4>1, <4>2 DEF Keys
      <3>3. QED
        BY <1>2, <3>1, <3>2 DEF HistoryKept
    <2>3. QED
      BY <1>1, <1>3, <1>5, <2>1, <2>2 DEF HistoryKept
  <1>11. inbox' \in Seq(IRows) /\ IUnique'
    <2>1. inbox \in Seq(IRows) /\ IUnique
      BY <1>2, RowFacts DEF TypeOK
    <2>2. inbox' \in Seq(IRows)
      BY <1>1, <2>1, KeepingRange
    <2> HIDE DEF IRows
    <2>0. PICK h \in [DOMAIN Keeping(inbox, L) -> DOMAIN inbox] :
            /\ \A k, m \in DOMAIN Keeping(inbox, L) : h[k] = h[m] => k = m
            /\ \A k \in DOMAIN Keeping(inbox, L) : Keeping(inbox, L)[k] = inbox[h[k]]
      BY <2>1, KeepingRows
    <2>3. /\ h \in [DOMAIN inbox' -> DOMAIN inbox]
          /\ \A k, m \in DOMAIN inbox' : h[k] = h[m] => k = m
          /\ \A k \in DOMAIN inbox' : inbox'[k] = inbox[h[k]]
      BY <1>1, <2>0
    <2>4. QED
      BY <2>1, <2>2, <2>3 DEF IUnique
  <1>12. TypeOK'
    <2>1. journal' \in Seq([conn : Neural, id : 1..Len(source), attempt : 0..MaxAttempts,
                            sent : BOOLEAN, answer : {{}} \cup {{b} : b \in Answer}])
      BY <1>3, <1>1 DEF JRows
    <2>2. /\ grants' \in [Conn -> SUBSET Camera] /\ enabled' \in [Conn -> BOOLEAN]
          /\ exists' \in [Conn -> BOOLEAN]
      BY <1>1, <1>2 DEF TypeOK
    <2>3. cursor' \in [Conn -> 0..Len(source)]
      <3>1. cursor \in [Conn -> 0..Len(source)] /\ source \in Seq(Camera)
        BY <1>2 DEF TypeOK
      <3>2. 0 \in 0..Len(source)
        BY <3>1
      <3>3. QED
        BY <1>1, <3>1, <3>2
    <2>4. UNION {owed, settled, delivered}' \subseteq Neural \X (1..Len(source))
      BY <1>1, <1>2 DEF TypeOK
    <2>5. QED
      BY <1>1, <1>2, <1>11, <2>1, <2>2, <2>3, <2>4 DEF TypeOK
  <1>13. CaptureTurns' /\ CaptureFollows'
    BY <1>1, <1>2 DEF CaptureTurns, CaptureFollows, Idle
  <1>14. QED
    BY <1>3, <1>7, <1>8, <1>9, <1>10, <1>11, <1>12, <1>13, UniqueRows DEF JournalInv

\* A step that changes no row's name and no answer.
LEMMA RowsChanged ==
  ASSUME JournalInv, journal' \in Seq(JRows), DOMAIN journal' = DOMAIN journal,
         \A k \in DOMAIN journal : /\ Key(journal'[k]) = Key(journal[k])
                                   /\ journal'[k].answer = journal[k].answer
  PROVE  /\ JUnique' /\ JournalBounded' /\ Keys' = Keys
         /\ \A r \in Pending' : \E k \in DOMAIN journal : r = journal'[k] /\ journal[k] \in Pending
         /\ \A k \in DOMAIN journal : journal[k] \in Pending => journal'[k] \in Pending'
         /\ \A r \in Answered' :
              \E k \in DOMAIN journal : r = journal'[k] /\ journal[k] \in Answered
  <1>1. JUnique'
    BY RowFacts DEF JUnique
  <1>2. \A r, q \in Range(journal') : Key(r) = Key(q) => r = q
    BY Zenon, <1>1 DEF JUnique, Range
  <1>3. Keys' = Keys
    BY DEF Keys, Range
  <1>4. /\ \A r \in Pending' : \E k \in DOMAIN journal : r = journal'[k] /\ journal[k] \in Pending
        /\ \A k \in DOMAIN journal : journal[k] \in Pending => journal'[k] \in Pending'
        /\ \A r \in Answered' :
             \E k \in DOMAIN journal : r = journal'[k] /\ journal[k] \in Answered
    BY DEF Pending, Answered, Range
  <1>5. \A c \in Neural : Cardinality(PendingOf(c)') <= MaxPending
    <2>1. \A r \in Pending' : \E q \in Pending : Key(q) = Key(r)
      BY <1>4
    <2>2. QED
      BY <1>2, <2>1, PendingStays
  <1>6. Cardinality(Range(journal') \ Pending') <= MaxRetained
    <2>1. \A r \in Answered' : \E q \in Answered : Key(q) = Key(r)
      BY <1>4
    <2>2. QED
      BY <1>2, <2>1, AnsweredStays
  <1>7. QED
    BY <1>1, <1>3, <1>4, <1>5, <1>6 DEF JournalBounded

\* A name tells the connection and the event.
LEMMA SameName == \A r, q : Key(r) = Key(q) => r.conn = q.conn /\ r.id = q.id
  BY DEF Key

\* A retry renews the attempts of the waiting rows and keeps their flag.
LEMMA JournalRetries ==
  ASSUME JournalInv, NEW c \in Conn, Retry(c) PROVE JournalInv'
  <1> USE DEF sourceVars, connVars, captureVars, history
  <1>1. /\ Idle
        /\ journal' = [k \in DOMAIN journal |->
                         IF journal[k].conn = c /\ journal[k].answer = {}
                         THEN Renewed(journal[k]) ELSE journal[k]]
        /\ handshakes' \subseteq handshakes /\ leases' \subseteq leases
        /\ UNCHANGED <<sourceVars, connVars, inbox, captureVars, history>>
    BY DEF Retry, Forget
  <1>2. /\ TypeOK /\ CaptureTurns /\ CaptureFollows /\ NothingLost /\ ScopeKept
        /\ ReplayHonest /\ HistoryKept
    BY DEF JournalInv
  <1>3. ASSUME NEW r \in JRows
        PROVE  /\ Renewed(r) \in JRows /\ Key(Renewed(r)) = Key(r)
               /\ Renewed(r).answer = r.answer /\ Renewed(r).sent = r.sent
    <2>1. 0 \in 0..MaxAttempts
      BY LimitAssumption
    <2>2. QED
      BY <2>1 DEF Renewed, JRows, Key
  <1>4. journal \in Seq(JRows) /\ DOMAIN journal' = DOMAIN journal
    BY <1>1, RowFacts
  <1>5. \A k \in DOMAIN journal : /\ journal'[k] \in JRows /\ Key(journal'[k]) = Key(journal[k])
                                  /\ journal'[k].answer = journal[k].answer
                                  /\ journal'[k].sent = journal[k].sent
    <2> SUFFICES ASSUME NEW k \in DOMAIN journal
                 PROVE  /\ journal'[k] \in JRows /\ Key(journal'[k]) = Key(journal[k])
                        /\ journal'[k].answer = journal[k].answer
                        /\ journal'[k].sent = journal[k].sent
      OBVIOUS
    <2>1. journal[k] \in JRows
      BY <1>4
    <2>2. journal'[k] = Renewed(journal[k]) \/ journal'[k] = journal[k]
      BY <1>1
    <2>3. QED
      BY <1>3, <2>1, <2>2
  <1>6. journal' \in Seq(JRows)
    BY <1>1, <1>4, <1>5
  <1>7. /\ JUnique' /\ JournalBounded' /\ Keys' = Keys
        /\ \A r \in Pending' : \E k \in DOMAIN journal : r = journal'[k] /\ journal[k] \in Pending
        /\ \A k \in DOMAIN journal : journal[k] \in Pending => journal'[k] \in Pending'
        /\ \A r \in Answered' :
             \E k \in DOMAIN journal : r = journal'[k] /\ journal[k] \in Answered
    BY <1>4, <1>5, <1>6, RowsChanged
  <1>8. NothingLost'
    <2> SUFFICES ASSUME NEW x \in owed PROVE \E r \in Pending' : x = Key(r)
      BY <1>1 DEF NothingLost
    <2>1. PICK r \in Pending : x = Key(r)
      BY <1>2 DEF NothingLost
    <2>2. PICK k \in DOMAIN journal : r = journal[k]
      BY <2>1 DEF Pending, Range
    <2>3. QED
      BY <1>5, <1>7, <2>1, <2>2
  <1>9. ScopeKept'
    <2> SUFFICES ASSUME NEW r \in Pending' PROVE exists[r.conn] /\ source[r.id] \in grants[r.conn]
      BY <1>1 DEF ScopeKept
    <2>1. PICK k \in DOMAIN journal : r = journal'[k] /\ journal[k] \in Pending
      BY <1>7
    <2>2. r.conn = journal[k].conn /\ r.id = journal[k].id
      BY <1>5, <2>1, SameName
    <2>3. exists[journal[k].conn] /\ source[journal[k].id] \in grants[journal[k].conn]
      BY <1>2, <2>1 DEF ScopeKept
    <2>4. QED
      BY <2>2, <2>3
  <1>10. ReplayHonest'
    BY <1>1, <1>2, <1>5, <1>7 DEF ReplayHonest
  <1>11. HistoryKept'
    BY <1>1, <1>2, <1>5, <1>7 DEF HistoryKept
  <1>12. IUnique'
    BY <1>1, RowFacts DEF IUnique
  <1>13. TypeOK'
    <2>1. journal' \in Seq([conn : Neural, id : 1..Len(source), attempt : 0..MaxAttempts,
                            sent : BOOLEAN, answer : {{}} \cup {{b} : b \in Answer}])
      BY <1>6 DEF JRows
    <2>2. QED
      BY <1>1, <1>2, <2>1 DEF TypeOK
  <1>14. CaptureTurns' /\ CaptureFollows'
    BY <1>1, <1>2 DEF CaptureTurns, CaptureFollows, Idle
  <1>15. QED
    BY <1>7, <1>8, <1>9, <1>10, <1>11, <1>12, <1>13, <1>14, UniqueRows DEF JournalInv


\* The rows handed out are waiting ones with attempts left; they are marked as sent.
LEMMA JournalPulls ==
  ASSUME JournalInv, NEW c \in Conn, NEW limit \in 1..PullLimit, Pull(c, limit) PROVE JournalInv'
  <1> USE DEF sourceVars, connVars, captureVars
  <1>0. PICK H : H = Handed(c, limit)
    OBVIOUS
  <1>1. PICK keys : keys = {Key(journal[k]) : k \in H}
    OBVIOUS
  <1>2. /\ Idle /\ leases' = leases \cup keys /\ delivered' = delivered \cup keys
        /\ journal' = [k \in DOMAIN journal |->
                         IF k \in H THEN [journal[k] EXCEPT !.attempt = @ + 1, !.sent = TRUE]
                         ELSE journal[k]]
        /\ UNCHANGED <<sourceVars, connVars, inbox, handshakes, captureVars, owed, settled>>
    BY <1>0, <1>1 DEF Pull, Machine
  <1>3. \A k \in H : k \in DOMAIN journal /\ journal[k].answer = {} /\ AttemptsLeft(journal[k])
    BY <1>0 DEF Handed, Eligible
  <1>4. /\ TypeOK /\ CaptureTurns /\ CaptureFollows /\ NothingLost /\ ScopeKept
        /\ ReplayHonest /\ HistoryKept
    BY DEF JournalInv
  <1>5. ASSUME NEW r \in JRows, AttemptsLeft(r), NEW q,
               q = [r EXCEPT !.attempt = @ + 1, !.sent = TRUE]
        PROVE  q \in JRows /\ Key(q) = Key(r) /\ q.answer = r.answer /\ q.sent = TRUE
    <2>1. r.attempt \in 0..MaxAttempts /\ r.attempt < MaxAttempts /\ MaxAttempts \in Nat
      BY <1>5, LimitAssumption DEF JRows, AttemptsLeft
    <2>2. r.attempt + 1 \in 0..MaxAttempts
      BY <2>1
    <2>3. QED
      BY <1>5, <2>2 DEF JRows, Key
  <1>6. journal \in Seq(JRows) /\ DOMAIN journal' = DOMAIN journal /\ JUnique
    BY <1>2, RowFacts
  <1>7. ASSUME NEW k \in DOMAIN journal
        PROVE  /\ journal'[k] \in JRows /\ Key(journal'[k]) = Key(journal[k])
               /\ journal'[k].answer = journal[k].answer
               /\ journal'[k].sent = (k \in H \/ journal[k].sent)
    <2>0. journal[k] \in JRows
      BY <1>6
    <2>1. journal[k] \in JRows /\ journal[k].sent \in BOOLEAN
      BY <2>0 DEF JRows
    <2>2. CASE k \in H
      <3>1. journal'[k] = [journal[k] EXCEPT !.attempt = @ + 1, !.sent = TRUE]
        BY <1>2, <2>2
      <3>2. /\ journal'[k] \in JRows /\ Key(journal'[k]) = Key(journal[k])
            /\ journal'[k].answer = journal[k].answer /\ journal'[k].sent = TRUE
        BY <1>3, <1>5, <2>1, <2>2, <3>1
      <3>3. QED
        BY <2>2, <3>2
    <2>3. CASE k \notin H
      <3>1. journal'[k] = journal[k]
        BY <1>2, <2>3
      <3>2. QED
        BY <2>1, <2>3, <3>1
    <2>4. QED
      BY <2>2, <2>3
  <1>8. journal' \in Seq(JRows)
    <2>1. journal' = [k \in DOMAIN journal |-> journal'[k]]
      BY <1>2
    <2>2. DOMAIN journal = 1..Len(journal) /\ Len(journal) \in Nat
      BY <1>6
    <2>3. journal' \in [1..Len(journal) -> JRows]
      BY <1>7, <2>1, <2>2
    <2>4. QED
      BY <2>2, <2>3
  <1>9. /\ JUnique' /\ JournalBounded' /\ Keys' = Keys
        /\ \A r \in Pending' : \E k \in DOMAIN journal : r = journal'[k] /\ journal[k] \in Pending
        /\ \A k \in DOMAIN journal : journal[k] \in Pending => journal'[k] \in Pending'
        /\ \A r \in Answered' :
             \E k \in DOMAIN journal : r = journal'[k] /\ journal[k] \in Answered
    BY <1>6, <1>7, <1>8, RowsChanged
  <1>10. ASSUME NEW k \in DOMAIN journal PROVE Key(journal[k]) \in keys <=> k \in H
    BY <1>1, <1>3, <1>6 DEF JUnique
  <1>11. NothingLost'
    <2> SUFFICES ASSUME NEW x \in owed PROVE \E r \in Pending' : x = Key(r)
      BY <1>2 DEF NothingLost
    <2>1. PICK r \in Pending : x = Key(r)
      BY <1>4 DEF NothingLost
    <2>2. PICK k \in DOMAIN journal : r = journal[k]
      BY <2>1 DEF Pending, Range
    <2>3. QED
      BY <1>7, <1>9, <2>1, <2>2
  <1>12. ScopeKept'
    <2> SUFFICES ASSUME NEW r \in Pending' PROVE exists[r.conn] /\ source[r.id] \in grants[r.conn]
      BY <1>2 DEF ScopeKept
    <2>1. PICK k \in DOMAIN journal : r = journal'[k] /\ journal[k] \in Pending
      BY <1>9
    <2>2. r.conn = journal[k].conn /\ r.id = journal[k].id
      BY <1>7, <2>1, SameName
    <2>3. exists[journal[k].conn] /\ source[journal[k].id] \in grants[journal[k].conn]
      BY <1>4, <2>1 DEF ScopeKept
    <2>4. QED
      BY <2>2, <2>3
  <1>13. ReplayHonest'
    <2> SUFFICES ASSUME NEW r \in Pending', Key(r) \notin settled
                 PROVE  r.sent <=> Key(r) \in delivered'
      BY <1>2 DEF ReplayHonest
    <2>1. PICK k \in DOMAIN journal : r = journal'[k] /\ journal[k] \in Pending
      BY <1>9
    <2>2. Key(r) = Key(journal[k]) /\ r.sent = (k \in H \/ journal[k].sent)
      BY <1>7, <2>1
    <2>3. journal[k].sent <=> Key(r) \in delivered
      BY <1>4, <2>1, <2>2 DEF ReplayHonest
    <2>4. Key(r) \in delivered' <=> Key(r) \in delivered \/ k \in H
      BY <1>2, <1>10, <2>2
    <2>5. QED
      BY <2>2, <2>3, <2>4
  <1>14. HistoryKept'
    <2>1. keys \subseteq Keys
      BY <1>1, <1>3 DEF Keys, Range
    <2>2. ASSUME NEW r \in Answered' PROVE Key(r) \in settled'
      <3>1. PICK k \in DOMAIN journal : r = journal'[k] /\ journal[k] \in Answered
        BY <1>9
      <3>2. Key(r) = Key(journal[k]) /\ Key(journal[k]) \in settled
        BY <1>4, <1>7, <3>1 DEF HistoryKept
      <3>3. QED
        BY <1>2, <3>2
    <2>3. QED
      BY <1>2, <1>4, <1>9, <2>1, <2>2 DEF HistoryKept
  <1>15. IUnique'
    BY <1>2, RowFacts DEF IUnique
  <1>16. TypeOK'
    <2>1. journal' \in Seq([conn : Neural, id : 1..Len(source), attempt : 0..MaxAttempts,
                            sent : BOOLEAN, answer : {{}} \cup {{b} : b \in Answer}])
      BY <1>8 DEF JRows
    <2>2. keys \subseteq Neural \X (1..Len(source))
      <3>1. \A k \in H : journal[k] \in JRows
        BY <1>3, <1>6
      <3>2. QED
        BY <1>1, <3>1 DEF JRows, Key
    <2>3. UNION {owed, settled, delivered}' \subseteq Neural \X (1..Len(source))
      BY <1>2, <1>4, <2>2 DEF TypeOK
    <2>4. leases' \subseteq Neural \X (1..Len(source))
      BY <1>2, <1>4, <2>2 DEF TypeOK
    <2>5. QED
      BY <1>2, <1>4, <2>1, <2>3, <2>4 DEF TypeOK
  <1>17. CaptureTurns' /\ CaptureFollows'
    BY <1>2, <1>4 DEF CaptureTurns, CaptureFollows, Idle
  <1>18. QED
    BY <1>9, <1>11, <1>12, <1>13, <1>14, <1>15, <1>16, <1>17, UniqueRows DEF JournalInv

\* Of the answered rows, retention leaves no more than the newest MaxRetained rows.
LEMMA NewestRows ==
  ASSUME NEW S, NEW s \in Seq(S), NEW T,
         \A r \in T : \E k \in DOMAIN s : k > Len(s) - MaxRetained /\ s[k] = r
  PROVE  IsFiniteSet(T) /\ Cardinality(T) <= MaxRetained
  <1>1. MaxRetained \in Nat /\ Len(s) \in Nat /\ DOMAIN s = 1..Len(s)
    BY LimitAssumption
  <1> DEFINE I == (Len(s) - MaxRetained + 1)..Len(s)
             J == {k \in DOMAIN s : k > Len(s) - MaxRetained /\ s[k] \in T}
             f == [k \in J |-> s[k]]
  <1>2. IsFiniteSet(I) /\ Cardinality(I) = MaxRetained
    <2>1. Len(s) - MaxRetained + 1 \in Int /\ Len(s) \in Int
      BY <1>1
    <2>2. /\ IsFiniteSet(I)
          /\ Cardinality(I) = IF Len(s) - MaxRetained + 1 > Len(s) THEN 0
                              ELSE Len(s) - (Len(s) - MaxRetained + 1) + 1
      BY <2>1, FS_Interval
    <2> HIDE DEF I
    <2>3. QED
      BY <1>1, <2>2
  <1>3. J \subseteq I
    BY <1>1
  <1>4. f \in Surjection(J, T)
    BY <1>1 DEF Surjection
  <1> HIDE DEF I, J, f
  <1>5. IsFiniteSet(J) /\ Cardinality(J) <= MaxRetained
    BY <1>2, <1>3, FS_Subset
  <1>6. IsFiniteSet(T) /\ Cardinality(T) <= Cardinality(J)
    BY <1>4, <1>5, FS_Surjection
  <1>7. Cardinality(T) \in Nat /\ Cardinality(J) \in Nat
    BY <1>5, <1>6, FS_CardinalityType
  <1>8. QED
    BY <1>1, <1>5, <1>6, <1>7


\* The answered row is settled; retention takes answered rows only.
LEMMA JournalResponds ==
  ASSUME JournalInv, NEW c \in Conn, NEW k \in DOMAIN journal, NEW body \in Answer,
         Respond(c, k, body)
  PROVE  JournalInv'
  <1> USE DEF sourceVars, connVars, captureVars
  <1>0. PICK E : E = [journal EXCEPT ![k].answer = {body}]
    OBVIOUS
  <1>1. PICK key : key = Key(journal[k])
    OBVIOUS
  <1> DEFINE Fresh(r) == \E m \in DOMAIN E : m > Len(E) - MaxRetained /\ E[m] = r
             K == {r \in Range(E) : r.answer = {} \/ Fresh(r)}
  <1>2. /\ Idle /\ journal' = Keeping(E, K) /\ Admits(journal[k], body)
        /\ leases' = leases \ {key} /\ owed' = owed \ {key} /\ settled' = settled \cup {key}
        /\ UNCHANGED <<sourceVars, connVars, inbox, handshakes, captureVars, delivered>>
    BY <1>0, <1>1 DEF Respond, Retained, Machine
  <1>3. /\ TypeOK /\ CaptureTurns /\ CaptureFollows /\ NothingLost /\ ScopeKept
        /\ ReplayHonest /\ HistoryKept
    BY DEF JournalInv
  <1>4. journal \in Seq(JRows) /\ JUnique /\ journal[k] \in JRows
    BY RowFacts
  <1> DEFINE e == [journal[k] EXCEPT !.answer = {body}]
  <1>5. e \in JRows /\ Key(e) = key /\ e.answer = {body} /\ e.answer # {}
    BY <1>1, <1>4 DEF JRows, Key
  <1>6. /\ E \in Seq(JRows) /\ DOMAIN E = DOMAIN journal /\ E[k] = e
        /\ \A m \in DOMAIN journal : m # k => E[m] = journal[m]
    <2>1. E = [m \in DOMAIN journal |-> IF m = k THEN e ELSE journal[m]]
      BY <1>0, <1>4
    <2>2. E \in [1..Len(journal) -> JRows] /\ Len(journal) \in Nat /\ DOMAIN journal = 1..Len(journal)
      <3> HIDE DEF e
      <3>1. QED
        BY <1>4, <1>5, <2>1
    <2> HIDE DEF e
    <2>3. QED
      BY <2>1, <2>2
  <1> HIDE DEF e, K
  <1>7. \A m \in DOMAIN journal : Key(E[m]) = Key(journal[m])
    BY <1>1, <1>5, <1>6
  <1>8. journal' \in Seq(JRows) /\ Range(journal') = Range(E) \cap K
    BY <1>2, <1>6, KeepingRange
  <1>9. JUnique'
    <2>0. E \in Seq(JRows)
      BY <1>6
    <2>1. PICK h \in [DOMAIN Keeping(E, K) -> DOMAIN E] :
            /\ \A j, m \in DOMAIN Keeping(E, K) : h[j] = h[m] => j = m
            /\ \A m \in DOMAIN Keeping(E, K) : Keeping(E, K)[m] = E[h[m]]
      BY <2>0, KeepingRows
    <2>2. /\ h \in [DOMAIN journal' -> DOMAIN journal]
          /\ \A j, m \in DOMAIN journal' : h[j] = h[m] => j = m
          /\ \A m \in DOMAIN journal' : Key(journal'[m]) = Key(journal[h[m]])
      BY <1>2, <1>6, <1>7, <2>1
    <2>3. QED
      BY <1>4, <2>2 DEF JUnique
  <1>10. \A m \in DOMAIN journal : Key(journal[m]) = key => m = k
    BY <1>1, <1>4 DEF JUnique
  <1>11. ASSUME NEW r \in Pending, Key(r) # key PROVE r \in Pending'
    <2>1. PICK m \in DOMAIN journal : r = journal[m]
      BY DEF Pending, Range
    <2>2. m # k /\ r.answer = {}
      BY <1>1, <1>11, <2>1 DEF Pending
    <2>3. r = E[m] /\ m \in DOMAIN E
      BY <1>6, <2>1, <2>2
    <2>4. r \in Range(E) /\ r \in K
      BY <2>2, <2>3 DEF K, Range
    <2>5. QED
      BY <1>8, <2>2, <2>4 DEF Pending
  <1>12. ASSUME NEW r \in Pending' PROVE r \in Pending /\ Key(r) # key
    <2>1. r \in Range(E) /\ r.answer = {}
      BY <1>8 DEF Pending
    <2>2. PICK m \in DOMAIN E : r = E[m]
      BY <2>1 DEF Range
    <2>3. m # k
      BY <1>5, <1>6, <2>1, <2>2
    <2>4. r = journal[m] /\ m \in DOMAIN journal
      BY <1>6, <2>2, <2>3
    <2>5. QED
      BY <1>10, <2>1, <2>3, <2>4 DEF Pending, Range
  <1>13. ASSUME NEW r \in Answered' PROVE r = e \/ r \in Answered
    <2>1. r \in Range(E) /\ r.answer # {}
      BY <1>8 DEF Answered
    <2>2. PICK m \in DOMAIN E : r = E[m]
      BY <2>1 DEF Range
    <2>3. CASE m = k
      BY <1>6, <2>2, <2>3
    <2>4. CASE m # k
      <3>1. r = journal[m] /\ m \in DOMAIN journal
        BY <1>6, <2>2, <2>4
      <3>2. QED
        BY <2>1, <3>1 DEF Answered, Range
    <2>5. QED
      BY <2>3, <2>4
  <1>14. JournalBounded'
    <2>1. \A r, q \in Range(journal') : Key(r) = Key(q) => r = q
      BY Zenon, <1>9 DEF JUnique, Range
    <2>2. \A d \in Neural : Cardinality(PendingOf(d)') <= MaxPending
      BY <1>12, <2>1, PendingStays
    <2>3. Cardinality(Range(journal') \ Pending') <= MaxRetained
      <3> DEFINE T == Range(journal') \ Pending'
      <3>1. ASSUME NEW r \in T PROVE Fresh(r)
        BY <1>8 DEF K, Pending
      <3> HIDE DEF T
      <3>2. QED
        BY <1>6, <3>1, NewestRows DEF T
    <2>4. QED
      BY <2>2, <2>3 DEF JournalBounded
  <1>15. NothingLost'
    BY <1>2, <1>3, <1>11 DEF NothingLost
  <1>16. ScopeKept'
    BY <1>2, <1>3, <1>12 DEF ScopeKept
  <1>17. ReplayHonest'
    BY <1>2, <1>3, <1>12 DEF ReplayHonest
  <1>18. HistoryKept'
    <2>1. ASSUME NEW r \in Answered' PROVE Key(r) \in settled'
      BY <1>2, <1>3, <1>5, <1>13 DEF HistoryKept
    <2>2. ASSUME NEW x \in delivered, x \notin settled, x # key PROVE x \in Keys'
      <3>1. PICK r \in Range(journal) : x = Key(r)
        BY <1>3, <2>2 DEF HistoryKept, Keys
      <3>2. r \in Pending
        BY <1>3, <2>2, <3>1, RowFacts DEF HistoryKept
      <3>3. r \in Range(journal')
        BY <1>11, <2>2, <3>1, <3>2 DEF Pending
      <3>4. QED
        BY <3>1, <3>3 DEF Keys
    <2>3. QED
      BY <1>2, <2>1, <2>2 DEF HistoryKept
  <1>19. IUnique'
    BY <1>2, RowFacts DEF IUnique
  <1>20. TypeOK'
    <2>1. journal' \in Seq([conn : Neural, id : 1..Len(source), attempt : 0..MaxAttempts,
                            sent : BOOLEAN, answer : {{}} \cup {{b} : b \in Answer}])
      BY <1>8 DEF JRows
    <2>2. key \in Neural \X (1..Len(source))
      BY <1>1, <1>4 DEF JRows, Key
    <2>3. UNION {owed, settled, delivered}' \subseteq Neural \X (1..Len(source))
      BY <1>2, <1>3, <2>2 DEF TypeOK
    <2>4. leases' \subseteq Neural \X (1..Len(source))
      BY <1>2, <1>3 DEF TypeOK
    <2>5. QED
      BY <1>2, <1>3, <2>1, <2>3, <2>4 DEF TypeOK
  <1>21. CaptureTurns' /\ CaptureFollows'
    BY <1>2, <1>3 DEF CaptureTurns, CaptureFollows, Idle
  <1>22. QED
    BY <1>9, <1>14, <1>15, <1>16, <1>17, <1>18, <1>19, <1>20, <1>21, UniqueRows DEF JournalInv

\* Every step keeps all of it.
LEMMA JournalStep == JournalInv /\ Next => JournalInv'
  <1> SUFFICES ASSUME JournalInv, Next PROVE JournalInv'
    OBVIOUS
  <1>1. ASSUME NEW cam \in Camera, Record(cam) \/ Unregister(cam) PROVE JournalInv'
    BY <1>1, JournalRecords, JournalUnregisters
  <1>2. ASSUME NEW c \in Conn, NEW on \in BOOLEAN, NEW cams \in SUBSET Camera,
               Create(c, on, cams) \/ Update(c, on, cams)
        PROVE  JournalInv'
    BY <1>2, JournalCreates, JournalUpdates
  <1>3. ASSUME NEW c \in Conn, Delete(c) \/ Retry(c) PROVE JournalInv'
    BY <1>3, JournalDeletes, JournalRetries
  <1>4. ASSUME NEW c \in Conn, Handshake(c) \/ HandshakeExpires(c) PROVE JournalInv'
    BY <1>4, JournalForgets
  <1>5. ASSUME NEW c \in Conn, NEW limit \in 1..PullLimit, Pull(c, limit) PROVE JournalInv'
    BY <1>5, JournalPulls
  <1>6. ASSUME NEW c \in Conn, NEW k \in DOMAIN journal, NEW body \in Answer, Respond(c, k, body)
        PROVE  JournalInv'
    BY <1>6, JournalResponds
  <1>7. ASSUME NEW c \in Conn, NEW cam \in Camera, NEW e \in Event, Ingest(c, cam, e)
        PROVE  JournalInv'
    BY <1>7, JournalIngests
  <1>8. ASSUME NEW k \in leases, LeaseExpires(k) PROVE JournalInv'
    BY <1>8, JournalForgets DEF LeaseExpires
  <1>9. ASSUME Crash PROVE JournalInv'
    BY <1>9, JournalForgets
  <1>10. ASSUME Capture PROVE JournalInv'
    BY <1>10, CaptureSteps, JournalCapturesRow, JournalMovesCursor DEF Capture
  <1>11. QED
    BY <1>1, <1>2, <1>3, <1>4, <1>5, <1>6, <1>7, <1>8, <1>9, <1>10 DEF Next


\* Every row after the step was there, or no answered row of its name had another answer.
LEMMA AnswersFollow ==
  ASSUME JournalInv,
         \A q \in Range(journal') :
           q \in Range(journal) \/
           \A r \in Range(journal) : Key(r) = Key(q) => r \in Pending \/ r.answer = q.answer
  PROVE  AnswerFinal
  <1> SUFFICES ASSUME NEW r \in Range(journal) \ Pending, NEW q \in Range(journal'), Key(q) = Key(r)
               PROVE  q.answer = r.answer
    BY DEF AnswerFinal
  <1>1. CASE q \in Range(journal)
    BY <1>1, RowFacts
  <1>2. CASE \A p \in Range(journal) : Key(p) = Key(q) => p \in Pending \/ p.answer = q.answer
    BY <1>2
  <1>3. QED
    BY <1>1, <1>2

\* No step gives an answered row another answer.
LEMMA AnswersStay == JournalInv /\ [Next]_vars => AnswerFinal
  <1> SUFFICES ASSUME JournalInv, [Next]_vars PROVE AnswerFinal
    OBVIOUS
  <1>1. CASE journal' = journal
    BY <1>1, AnswersFollow
  <1>2. ASSUME NEW K, journal' = Keeping(journal, K) PROVE AnswerFinal
    <2>1. Range(journal') \subseteq Range(journal)
      BY <1>2, RowsDeleted
    <2>2. QED
      BY <2>1, AnswersFollow
  <1>3. ASSUME DOMAIN journal' = DOMAIN journal,
               \A k \in DOMAIN journal : Key(journal'[k]) = Key(journal[k])
                                         /\ journal'[k].answer = journal[k].answer
        PROVE  AnswerFinal
    <2> SUFFICES ASSUME NEW q \in Range(journal'), NEW r \in Range(journal), Key(r) = Key(q)
                 PROVE  r.answer = q.answer
      BY AnswersFollow
    <2>1. PICK k \in DOMAIN journal : q = journal'[k]
      BY <1>3 DEF Range
    <2>2. PICK m \in DOMAIN journal : r = journal[m]
      BY DEF Range
    <2>3. k = m
      BY <1>3, <2>1, <2>2, RowFacts DEF JUnique
    <2>4. QED
      BY <1>3, <2>1, <2>2, <2>3
  <1>4. ASSUME NEW c \in Conn, Retry(c) PROVE AnswerFinal
    <2>1. /\ DOMAIN journal' = DOMAIN journal
          /\ \A k \in DOMAIN journal : journal'[k] \in {Renewed(journal[k]), journal[k]}
      BY <1>4 DEF Retry
    <2>2. \A r \in JRows : Key(Renewed(r)) = Key(r) /\ Renewed(r).answer = r.answer
      BY DEF JRows, Renewed, Key
    <2>3. \A k \in DOMAIN journal : journal[k] \in JRows
      BY RowFacts
    <2>4. QED
      BY <1>3, <2>1, <2>2, <2>3
  <1>5. ASSUME NEW c \in Conn, NEW limit \in 1..PullLimit, Pull(c, limit) PROVE AnswerFinal
    <2> DEFINE Sent(r) == [r EXCEPT !.attempt = @ + 1, !.sent = TRUE]
    <2>1. /\ DOMAIN journal' = DOMAIN journal
          /\ \A k \in DOMAIN journal : journal'[k] \in {Sent(journal[k]), journal[k]}
      BY <1>5 DEF Pull
    <2>2. \A r \in JRows : Key(Sent(r)) = Key(r) /\ Sent(r).answer = r.answer
      BY DEF JRows, Key
    <2>3. \A k \in DOMAIN journal : journal[k] \in JRows
      BY RowFacts
    <2> HIDE DEF Sent
    <2>4. QED
      BY <1>3, <2>1, <2>2, <2>3
  <1>6. ASSUME NEW c \in Neural, CaptureRow(c) PROVE AnswerFinal
    <2>1. PICK i : i = Head(rows)
      OBVIOUS
    <2>2. journal' = journal \/ (~There(c, i) /\ journal' = Append(journal, Row(c, i)))
      BY <1>6, <2>1 DEF CaptureRow
    <2>3. CASE ~There(c, i) /\ journal' = Append(journal, Row(c, i))
      <3>1. \A r \in Range(journal) : Key(r) # <<c, i>>
        BY <2>3 DEF There, Keys
      <3>2. Key(Row(c, i)) = <<c, i>>
        BY DEF Key, Row
      <3>3. ASSUME NEW q \in Range(journal') PROVE q \in Range(journal) \/ q = Row(c, i)
        <4>1. journal \in Seq(JRows)
          BY RowFacts
        <4>2. PICK k \in DOMAIN journal' : q = journal'[k]
          BY DEF Range
        <4> DEFINE new == Row(c, i)
        <4> HIDE DEF new
        <4>3. journal' = Append(journal, new)
          BY <2>3 DEF new
        <4>4. k \in 1..(Len(journal) + 1) /\ Len(journal) \in Nat /\ DOMAIN journal = 1..Len(journal)
          BY <4>1, <4>2, <4>3
        <4>5. CASE k = Len(journal) + 1
          BY <4>1, <4>2, <4>3, <4>4, <4>5 DEF new
        <4>6. CASE k \in 1..Len(journal)
          BY <4>1, <4>2, <4>3, <4>4, <4>6 DEF Range
        <4>7. QED
          BY <4>4, <4>5, <4>6
      <3>4. QED
        BY <3>1, <3>2, <3>3, AnswersFollow
    <2>4. QED
      BY <1>1, <2>2, <2>3
  <1>7. ASSUME NEW c \in Conn, NEW k \in DOMAIN journal, NEW body \in Answer, Respond(c, k, body)
        PROVE  AnswerFinal
    <2>1. PICK E : E = [journal EXCEPT ![k].answer = {body}]
      OBVIOUS
    <2>2. PICK K : journal' = Keeping(E, K)
      BY <1>7, <2>1 DEF Respond, Retained
    <2>3. journal[k].answer \in {{}, {body}}
      BY <1>7 DEF Respond, Admits
    <2>4. journal \in Seq(JRows) /\ JUnique /\ journal[k] \in JRows
      BY RowFacts
    <2> DEFINE e == [journal[k] EXCEPT !.answer = {body}]
    <2>5. e \in JRows /\ Key(e) = Key(journal[k]) /\ e.answer = {body}
      BY <2>4 DEF JRows, Key
    <2>6. E = [m \in DOMAIN journal |-> IF m = k THEN e ELSE journal[m]]
      BY <2>1, <2>4
    <2> HIDE DEF e
    <2>7. E \in Seq(JRows)
      <3>1. E \in [1..Len(journal) -> JRows] /\ Len(journal) \in Nat
        BY <2>4, <2>5, <2>6
      <3>2. QED
        BY <3>1
    <2>8. Range(journal') \subseteq Range(E)
      BY <2>2, <2>7, KeepingRange
    <2>9. ASSUME NEW q \in Range(journal')
          PROVE  q \in Range(journal) \/
                 \A r \in Range(journal) : Key(r) = Key(q) => r \in Pending \/ r.answer = q.answer
      <3>1. PICK m \in DOMAIN journal : q = IF m = k THEN e ELSE journal[m]
        BY <2>6, <2>8 DEF Range
      <3>2. CASE m # k
        BY <3>1, <3>2 DEF Range
      <3>3. CASE m = k
        <4> SUFFICES ASSUME NEW r \in Range(journal), Key(r) = Key(q)
                     PROVE  r \in Pending \/ r.answer = q.answer
          OBVIOUS
        <4>1. q = e /\ Key(r) = Key(journal[k]) /\ journal[k] \in Range(journal)
          BY <2>5, <3>1, <3>3 DEF Range
        <4>2. r = journal[k]
          BY <4>1, RowFacts
        <4>3. QED
          BY <2>3, <2>5, <4>1, <4>2 DEF Pending
      <3>4. QED
        BY <3>2, <3>3
    <2>10. QED
      BY <2>9, AnswersFollow
  <1>8. ASSUME NEW c \in Conn, NEW on \in BOOLEAN, NEW cams \in SUBSET Camera,
               Create(c, on, cams) \/ Update(c, on, cams)
        PROVE  AnswerFinal
    BY <1>1, <1>2, <1>8 DEF Create, Update
  <1>9. ASSUME NEW c \in Conn, Delete(c) \/ Handshake(c) \/ HandshakeExpires(c) PROVE AnswerFinal
    BY <1>1, <1>2, <1>9 DEF Delete, Handshake, HandshakeExpires
  <1>10. ASSUME \/ \E cam \in Camera : Record(cam) \/ Unregister(cam)
                \/ \E c \in Conn, cam \in Camera, e \in Event : Ingest(c, cam, e)
                \/ \E k \in leases : LeaseExpires(k)
                \/ CaptureStart \/ CaptureTurnEnd \/ CaptureEnd
                \/ \E c \in Neural : CaptureRead(c) \/ CaptureCursor(c)
                \/ Crash \/ UNCHANGED vars
         PROVE  AnswerFinal
    BY <1>1, <1>10 DEF Record, Unregister, Ingest, LeaseExpires, CaptureStart, CaptureTurnEnd,
       CaptureEnd, CaptureRead, CaptureCursor, Crash, vars
  <1>11. QED
    BY <1>4, <1>5, <1>6, <1>7, <1>8, <1>9, <1>10 DEF Next, Capture

\* Nor does a step of another component.
LEMMA JournalRests == JournalInv /\ UNCHANGED vars => JournalInv'
  <1> SUFFICES ASSUME JournalInv, UNCHANGED vars PROVE JournalInv'
    OBVIOUS
  <1>1. UNCHANGED <<sourceVars, connVars, journal, inbox, memoryVars, captureVars, history>>
    BY DEF vars
  <1>2. /\ NothingLost' /\ ScopeKept' /\ ReplayHonest' /\ HistoryKept'
        /\ JournalBounded' /\ JUnique' /\ \A d, i : There(d, i)' = There(d, i)
    BY <1>1, StoreRests DEF sourceVars
  <1>3. IUnique'
    BY <1>1, RowFacts DEF IUnique
  <1>4. TypeOK /\ CaptureTurns /\ CaptureFollows
    BY DEF JournalInv
  <1>5. TypeOK'
    BY <1>1, <1>4 DEF TypeOK, sourceVars, connVars, memoryVars, captureVars, history
  <1>6. CaptureTurns' /\ CaptureFollows'
    BY <1>1, <1>2, <1>4
    DEF CaptureTurns, CaptureFollows, Idle, sourceVars, connVars, captureVars
  <1>7. QED
    BY <1>2, <1>3, <1>5, <1>6, UniqueRows DEF JournalInv

-----------------------------------------------------------------------------
(* The theorems.                                                           *)

\* Each invariant depends on the variables of its component only.
LEMMA TimeRests == TimeInv /\ UNCHANGED timevars => TimeInv'
  BY DEF TimeInv, TimeTypes, LeaseInv, AdmissionInv, KindInv, timevars
\* The same of the start.
LEMMA StartRests == StartInv /\ UNCHANGED startvars => StartInv'
  BY DEF StartInv, StartTypes, InstallInv, LockInv, Keeper, Opened, Start!Admissible, startvars
\* And of the audit log.
LEMMA AuditRests == AuditInv /\ UNCHANGED auditvars => AuditInv'
  <1> SUFFICES ASSUME AuditInv, UNCHANGED auditvars PROVE AuditInv'
    OBVIOUS
  <1>1. UNCHANGED <<state, logRows>>
    BY DEF auditvars
  <1>2. AuditTypes' /\ ProcessInv' /\ LossInv'
    BY DEF auditvars, AuditInv, AuditTypes, ProcessInv, LossInv
  <1>3. AttemptInv' /\ ChainInv'
    BY <1>1, LogUntouched DEF auditvars, AuditInv, AuditTypes, AttemptInv, ChainInv
  <1>4. QED
    BY <1>2, <1>3 DEF AuditInv

\* However requests on the time are cancelled, the service closed and prompts answered late,
\* the mutations lock belongs to the request whose thread works, and no admission comes back.
THEOREM TimeInvariant == PartSpec => []TimeInv
  <1>1. TimeInv /\ [PartNext]_sumvars => TimeInv'
    BY TimeInvStep, TimeRests DEF PartNext, Slotted, sumvars
  <1>2. QED
    BY TimeInvInit, <1>1, PTL DEF PartSpec

\* TimeSound: a cancelled request does not release its mutation lease mid-write
\* (_owned_result), and an elevated helper that is admitted after cancel_current took its
\* request file away does nothing.
THEOREM TimeChangesExclusive == PartSpec => []TimeSound
  <1>1. TimeInv => TimeSound
    BY DEF TimeInv, TimeTypes, LeaseInv, AdmissionInv, TimeSound, Time!LeaseKept,
       Time!StalePromptHarmless,
           Time!InThread, Time!OnCamera, Requests, Early, Late, Leased
  <1>2. QED
    BY TimeInvariant, <1>1, PTL

\* A request is answered with success only while the setting it asked for is in force, although
\* the helper of an earlier request that timed out may act at any moment (operate, _camera_operation).
THEOREM ConfirmedTimeInForce == PartSpec => [][Time!ConfirmedInForce]_sumvars
  <1>1. TimeInv /\ [PartNext]_sumvars => [Time!ConfirmedInForce]_sumvars
    <2> SUFFICES ASSUME TimeInv, PartNext, NEW r \in confirmed' \ confirmed
                 PROVE  IF kind[r] = "host" THEN config = r ELSE camNtp = r /\ camMode = r
      BY DEF Time!ConfirmedInForce
    <2>1. Time!TmNext
      BY DEF PartNext, Slotted, timevars
    <2>2. \E q \in Requests : Time!Verify(q) \/ Time!CameraVerify(q)
      <3> USE DEF Time!tmfiles, Time!tmworld
      <3>1. ASSUME NEW q \in Writes, NEW k \in {"host", "camera", "clock"}, Time!Acquire(q, k) PROVE FALSE
        BY <3>1 DEF Time!Acquire
      <3>2. ASSUME Time!CloseService PROVE FALSE
        BY <3>2 DEF Time!CloseService
      <3>3. ASSUME NEW q \in Requests,
                   \/ Time!HostCall(q) \/ Time!HostRead(q) \/ Time!Return(q) \/ Time!CancelRequest(q)
                   \/ Time!Prepare(q) \/ Time!Register(q) \/ Time!Launch(q) \/ Time!BrokerReturns(q)
                   \/ Time!BrokerFails(q) \/ Time!Clean(q) \/ Time!Accepted(q) \/ Time!Declined(q)
                   \/ Time!HelperActs(q) \/ Time!HelperEnds(q) \/ Time!CameraCall(q) \/ Time!SetNtp(q)
                   \/ Time!SetMode(q) \/ Time!SetClock(q) \/ Time!CameraFails(q) \/ Time!CameraForgets(q)
            PROVE  FALSE
        BY <3>3 DEF Time!HostCall, Time!HostRead, Time!Return, Time!CancelRequest, Time!Prepare,
           Time!Register, Time!Launch, Time!BrokerReturns, Time!BrokerFails, Time!Clean, Time!Accepted,
           Time!Declined, Time!HelperActs, Time!HelperEnds, Time!CameraCall, Time!SetNtp, Time!SetMode,
           Time!SetClock, Time!CameraFails, Time!CameraForgets
      <3>4. QED
        BY <2>1, <3>1, <3>2, <3>3 DEF Time!TmNext, Time!All, Requests
    <2>3. PICK q \in Requests : Time!Verify(q) \/ Time!CameraVerify(q)
      BY <2>2
    <2>4. CASE Time!Verify(q)
      BY <2>4 DEF TimeInv, KindInv, Late, Time!Verify, Time!Verified
    <2>5. CASE Time!CameraVerify(q)
      BY <2>5 DEF TimeInv, KindInv, Time!OnCamera, Time!CameraVerify
    <2>6. QED
      BY <2>3, <2>4, <2>5
  <1>2. QED
    BY TimeInvariant, <1>1, PTL DEF PartSpec

\* However many programs set up and serve one profile, and wherever they die, the set-up that goes
\* on is the one that made the directory, and whoever works on the profile holds its lock.
THEOREM StartInvariant == PartSpec => []StartInv
  <1>1. StartInv /\ [PartNext]_sumvars => StartInv'
    BY StartInvStep, StartRests DEF PartNext, Slotted, sumvars
  <1>2. QED
    BY StartInvInit, <1>1, PTL DEF PartSpec

\* StartSound: every file of a served profile comes from the one program that made its directory
\* (initialize_identity_state), and nothing of a composition is at work in a program without
\* the profile lock (OperatorProfileLock, the lifespan of operator_product).
THEOREM OneProgramWorks == PartSpec => []StartSound
  <1>1. StartInv => StartSound
    BY DEF StartInv, StartTypes, InstallInv, LockInv, Keeper, Opened, StartSound,
       Start!OneInstaller,
           Start!WorksUnderLease, Holding, Starting, Closing
  <1>2. QED
    BY StartInvariant, <1>1, PTL

\* Through any number of crashes, failed writes, cancellations and lost files: what is known of
\* the log's file, the attempts that are durable and the chain of its rows.
THEOREM AuditInvariant == PartSpec => []AuditInv
  <1>1. AuditInv /\ [PartNext]_sumvars => AuditInv'
    BY AuditInvStep, AuditRests DEF PartNext, Slotted, sumvars
  <1>2. QED
    BY AuditInvInit, <1>1, PTL DEF PartSpec

\* AuditSound: no audited request has its effect before its attempt is in the log, the rows that are
\* kept always chain from the anchor to the tail, and a log that was lost is never replaced by a new
\* one (OperatorAuditMiddleware, OperatorAuditStore).
THEOREM AuditStaysSound == PartSpec => []AuditSound
  <1>1. ASSUME AuditInv PROVE AuditSound
    <2>1. Audit!LogAdmits
      BY <1>1, LinkedIsChained DEF AuditInv, AuditTypes, ChainInv, Audit!LogAdmits
    <2>2. Audit!AttemptFirst
      BY <1>1 DEF AuditInv, AuditTypes, AttemptInv, Durable, Audit!AttemptFirst
    <2>3. Audit!NeverReplaced
      BY <1>1 DEF AuditInv, ProcessInv, Audit!NeverReplaced
    <2>4. QED
      BY <2>1, <2>2, <2>3 DEF AuditSound
  <1>2. QED
    BY AuditInvariant, <1>1, PTL

\* Once a process could not write an outcome, no later attempt lets its request run until the
\* next start (_execute latches _failed).
THEOREM NoneRunsAfterLoss == PartSpec => [][Audit!NoneAfterLoss]_sumvars
  <1>1. AuditInv /\ [PartNext]_sumvars => [Audit!NoneAfterLoss]_sumvars
    <2> SUFFICES ASSUME AuditInv, PartNext, NEW o \in Ops, op[o] = "attempt", op'[o] = "run" PROVE ~lostEnd
      BY DEF Audit!NoneAfterLoss
    <2>1. Audit!AudNext
      BY DEF PartNext, Slotted, auditvars
    <2>2. at = "up"
      BY DEF AuditInv, ProcessInv
    <2>3. ~failed
      <3> USE DEF AuditInv, AuditTypes, Audit!auddisk, Audit!audhist
      <3>1. CASE \E w \in writes : Audit!RecordCommits(w) \/ Audit!RecordDoubted(w) \/ Audit!RecordFails(w)
        BY <3>1 DEF Audit!RecordCommits, Audit!RecordDoubted, Audit!RecordFails, Audit!Returned,
           Audit!Proceeds
      <3>2. CASE \/ Audit!StartUp \/ Audit!CreateFile \/ Audit!CreateSchema \/ Audit!Verify \/ Audit!Seal
                 \/ Audit!Crash \/ Audit!FileLost \/ Audit!ReadFails
        BY <3>2 DEF Audit!StartUp, Audit!CreateFile, Audit!CreateSchema, Audit!Verify, Audit!Seal,
                    Audit!Crash, Audit!FileLost, Audit!ReadFails
      <3>3. CASE \E q \in Ops : \/ Audit!Begin(q) \/ Audit!AttemptCancelled(q) \/ Audit!Effect(q)
                               \/ Audit!Answered(q) \/ Audit!Interrupted(q) \/ Audit!FinishCancelled(q)
        BY <3>3 DEF Audit!Begin, Audit!AttemptCancelled, Audit!Effect, Audit!Answered,
           Audit!Interrupted,
                    Audit!FinishCancelled, Audit!Finished
      <3>4. QED
        BY <2>1, <3>1, <3>2, <3>3 DEF Audit!AudNext
    <2>4. QED
      BY <2>2, <2>3 DEF AuditInv, LossInv
  <1>2. QED
    BY AuditInvariant, <1>1, PTL DEF PartSpec

\* In the part of a behaviour that is about a probe, what the probe knows of the camera's clock
\* explains every refusal, and the counts it used are the ones behind its own.
LEMMA ProbeInvariant == PartSpec => [](part = "probe" => Onvif!ProbeInv)
  <1>1. PartInit => (part = "probe" => Onvif!ProbeInv)
    BY ProbeBegins DEF PartInit
  <1>2. (part = "probe" => Onvif!ProbeInv) /\ [PartNext]_sumvars => (part = "probe" => Onvif!ProbeInv)'
    <2> SUFFICES ASSUME part = "probe" => Onvif!ProbeInv, [PartNext]_sumvars, part' = "probe"
                 PROVE  Onvif!ProbeInv'
      OBVIOUS
    <2>1. part = "probe"
      BY DEF PartNext, Slotted, sumvars
    <2>2. CASE PartNext
      BY <2>1, <2>2, ProbeStep DEF PartNext
    <2>3. CASE UNCHANGED sumvars
      <3>1. UNCHANGED <<s1, s2, s3, s4, s5, s6, s7, s8, s9, s10, s11, s12, s13, s14, s15, s16, s17,
                        s18, s19, s20, s21, s22>>
        BY <2>3 DEF sumvars, slots, After15
      <3>2. QED
        BY <2>1, <3>1
           DEF Onvif!ProbeInv, Onvif!ProbeType, Onvif!RefusalsExplained, Onvif!CountsUsed,
               Onvif!HonestNotRefused, Onvif!NoAuthorizationReplayed, Onvif!AccountProtected,
               Onvif!CreatedAt
    <2>4. QED
      BY <2>2, <2>3
  <1>3. QED
    BY <1>1, <1>2, PTL DEF PartSpec

\* ProbeSound: however the camera's clock runs and its nonces change, a camera that behaves is not
\* refused, no count of a nonce is sent twice, and no digest goes to a scheme or host that was not
\* admitted (operator_onvif).
THEOREM ProbeStaysSound == PartSpec => []ProbeSound
  <1>1. (part = "probe" => Onvif!ProbeInv) => ProbeSound
    BY DEF ProbeSound, Onvif!ProbeInv
  <1>2. QED
    BY ProbeInvariant, <1>1, PTL

\* In the part of a behaviour that is about person events, the thread, the pipe and the rows agree
\* on the camera, and the sizes seen lie between those of the cold scan and the disk's.
LEMMA EventsInvariant == PartSpec => [](part = "events" => Persons!EvInv)
  <1>1. PartInit => (part = "events" => Persons!EvInv)
    BY EventsBegin DEF PartInit
  <1>2. (part = "events" => Persons!EvInv) /\ [PartNext]_sumvars => (part = "events" => Persons!EvInv)'
    <2> SUFFICES ASSUME part = "events" => Persons!EvInv, [PartNext]_sumvars, part' = "events"
                 PROVE  Persons!EvInv'
      OBVIOUS
    <2>1. part = "events"
      BY DEF PartNext, Slotted, sumvars
    <2>2. CASE PartNext
      BY <2>1, <2>2, EventsStep DEF PartNext
    <2>3. CASE UNCHANGED sumvars
      <3>1. UNCHANGED <<s1, s2, s3, s4, s5, s6, s7, s8, s9, s10, s11, s12, s13, s14, s15, s16, s17,
                        s18, s19, s20, s21, s22>>
        BY <2>3 DEF sumvars, slots, After15
      <3>2. QED
        BY <2>1, <3>1
           DEF Persons!EvInv, Persons!EvType, Persons!Sizes, Persons!Frames, Persons!FileIds,
               Persons!SizesOrdered, Persons!Below, Persons!WantsGrowth, Persons!Growth,
               Persons!PipeFollows, Persons!Closing, Persons!AnswersMatch, Persons!EventsCurrent
    <2>4. QED
      BY <2>2, <2>3
  <1>3. QED
    BY <1>1, <1>2, PTL DEF PartSpec

\* EventsSound: for any number of cameras, files and worker processes that die, answer late or
\* malformed, an answer is applied to the question it answers, and an event comes from bytes
\* recorded after the cold scan of a camera configured as when its sample began
\* (operator_events, operator_events_decoder).
THEOREM EventsStaySound == PartSpec => []EventsSound
  <1>1. (part = "events" => Persons!EvInv) => EventsSound
    <2> SUFFICES ASSUME part = "events", Persons!EvInv
                 PROVE  /\ Persons!AnswersMatch /\ Persons!EventsCurrent
                        /\ Persons!EventsFromGrowth /\ Persons!ClosedForGood
      BY DEF EventsSound
    <2>1. Persons!EventsFromGrowth
      BY DEF Persons!EvInv, Persons!WantsGrowth, Persons!Growth, Persons!AnswersMatch,
         Persons!EventsFromGrowth
    <2>2. Persons!ClosedForGood
      BY Zenon DEF Persons!EvInv, Persons!Closing, Persons!ClosedForGood
    <2>3. QED
      BY <2>1, <2>2 DEF Persons!EvInv
  <1>2. QED
    BY EventsInvariant, <1>1, PTL

\* In the part of a behaviour that is about cameras, one request has the lock, and the files, its
\* job, its transaction and the probe it came from fit together.
LEMMA OnboardingInvariant == PartSpec => [](part = "onboarding" => Onboard!OnbInv)
  <1>1. PartInit => (part = "onboarding" => Onboard!OnbInv)
    BY OnboardingBegins DEF PartInit
  <1>2. (part = "onboarding" => Onboard!OnbInv) /\ [PartNext]_sumvars => (part = "onboarding" => Onboard!OnbInv)'
    <2> SUFFICES ASSUME part = "onboarding" => Onboard!OnbInv, [PartNext]_sumvars, part' = "onboarding"
                 PROVE  Onboard!OnbInv'
      OBVIOUS
    <2>1. part = "onboarding"
      BY DEF PartNext, Slotted, sumvars
    <2>2. CASE PartNext
      BY <2>1, <2>2, OnboardingStep DEF PartNext
    <2>3. CASE UNCHANGED sumvars
      <3>1. UNCHANGED <<s1, s2, s3, s4, s5, s6, s7, s8, s9, s10, s11, s12, s13, s14, s15>>
        BY <2>3 DEF sumvars, slots
      <3>2. Onboard!OnbType' /\ Onboard!OneHolder' /\ Onboard!StoreAdmissible' /\ Onboard!StoredEnrolled'
            /\ Onboard!ProbesOwned' /\ Onboard!Following'
        BY <2>1, <3>1 DEF Onboard!OnbInv, Onboard!OnbType, Onboard!OneHolder, Onboard!Holding,
           Onboard!StoreAdmissible, Onboard!Readable, Onboard!StoredEnrolled, Onboard!Stored,
           Onboard!ProbesOwned, Onboard!Following, Onboard!Selections
      <3>3. ASSUME NEW r \in AdminReqs PROVE Onboard!JobHolds(r)'
        BY <2>1, <3>1 DEF Onboard!OnbInv, Onboard!JobHolds, Onboard!Claimed, Onboard!Device,
           Onboard!Selections, Onboard!Preferred
      <3>4. Onboard!Probing' = Onboard!Probing
        BY <3>1 DEF Onboard!Probing
      <3>5. Onboard!SlotsExact'
        BY <2>1, <3>1, <3>4, ProbingFinite DEF Onboard!OnbInv, Onboard!SlotsExact
      <3>6. QED
        BY <3>2, <3>3, <3>5 DEF Onboard!OnbInv
    <2>4. QED
      BY <2>2, <2>3
  <1>3. QED
    BY <1>1, <1>2, PTL DEF PartSpec

\* OnboardingSound: for any number of cameras, requests, probes and sessions, with requests cancelled
\* and failing anywhere and crashes, every stored camera is the device the registry has enrolled, the
\* connector's slots are exact, and between mutations the service follows the store unless a request
\* was cut before it handed the cameras over or its roll-back failed (operator_product_api,
\* operator_product_state, operator_onvif).
THEOREM OnboardingStaysSound == PartSpec => []OnboardingSound
  <1>1. (part = "onboarding" => Onboard!OnbInv) => OnboardingSound
    <2> SUFFICES ASSUME part = "onboarding", Onboard!OnbInv
                 PROVE  Onboard!StoreAdmissible /\ Onboard!SlotsExact /\ Onboard!ServiceFollowsStore
      BY DEF OnboardingSound
    <2>1. Onboard!ServiceFollowsStore
      <3> SUFFICES ASSUME Onboard!Holding = {}, s6 = {}, s15 = {} PROVE s5 = Onboard!Selections
        BY DEF Onboard!ServiceFollowsStore
      <3>1. \A r \in AdminReqs : s7[r] # "apply" /\ s7[r] # "pstore"
        BY DEF Onboard!Holding
      <3>2. QED
        BY <3>1 DEF Onboard!OnbInv, Onboard!Following
    <2>2. QED
      BY <2>1 DEF Onboard!OnbInv
  <1>2. QED
    BY OnboardingInvariant, <1>1, PTL

\* A probed camera is stored only under its claim: the session is current and the probe still in the
\* vault at the write itself, although requests overlap and sessions end meanwhile (before_store).
THEOREM CamerasStoredUnderClaim == PartSpec => [][part = "onboarding" => Onboard!StoredUnderClaim]_sumvars
  <1>1. (part = "onboarding" => Onboard!OnbInv) => (part = "onboarding" => Onboard!StoredUnderClaim)
    <2> SUFFICES ASSUME part = "onboarding", Onboard!OnbInv, NEW r \in AdminReqs, s7[r] \in {"upsert", "rccommit"}
                 PROVE  s8[r].sess \in s13 /\ Onboard!Claimed(r)
      BY DEF Onboard!StoredUnderClaim, Onboard!Claimed
    <2>1. QED
      BY DEF Onboard!OnbInv, Onboard!JobHolds, Onboard!InStore
  <1>2. QED
    BY OnboardingInvariant, <1>1, PTL

\* The journal and everything said of it stay sound in every part of a behaviour: rows named once,
\* nothing owed without a waiting row, the capture's events in their order.
THEOREM JournalInvariant == PartSpec => []JournalInv
  <1>1. JournalInv /\ [PartNext]_sumvars => JournalInv'
    BY JournalStep, JournalRests DEF PartNext, Slotted, sumvars
  <1>2. PartInit => JournalInv
    BY JournalBegins DEF PartInit
  <1>3. QED
    BY <1>1, <1>2, PTL DEF PartSpec

\* JournalSound: for any connections, cameras, events and limits, an event that is owed waits in the
\* journal until it is answered or withdrawn although capture can be cut between its row and its
\* cursor, rows are unique, a waiting row's camera is granted, and the queues and the answered rows
\* stay within MAX_PENDING and MAX_RETAINED (capture_person_events, update, respond).
THEOREM JournalStaysSound == PartSpec => []JournalSound
  <1>1. JournalInv => JournalSound
    BY DEF JournalInv, JournalSound
  <1>2. QED
    BY JournalInvariant, <1>1, PTL

\* The replay flag of a waiting row is true exactly when the row was handed out before, through
\* retries, restarts, withdrawn grants and deleted rows, unless its event was answered before (pull).
THEOREM ReplaysStayHonest == PartSpec => []ReplayHonest
  <1>1. JournalInv => ReplayHonest
    BY DEF JournalInv
  <1>2. QED
    BY JournalInvariant, <1>1, PTL

\* An accepted answer is final: no step gives a row of its name another one (respond).
THEOREM AnswersStayFinal == PartSpec => [][part = "journal" => AnswerFinal]_sumvars
  <1>1. JournalInv /\ [PartNext]_sumvars => [part = "journal" => AnswerFinal]_sumvars
    <2> SUFFICES ASSUME JournalInv, PartNext, part = "journal" PROVE AnswerFinal
      OBVIOUS
    <2>1. Next
      BY DEF PartNext
    <2>2. QED
      BY <2>1, AnswersStay
  <1>2. QED
    BY JournalInvariant, <1>1, PTL DEF PartSpec

\* StepsHonest, the four together: no step changes an accepted answer, confirms a time source that is
\* not in force, commits to a log that was lost, or stores a probed camera without its claim.
THEOREM EveryStepHonest == PartSpec => StepsHonest
  <1>1. QED
    BY AnswersStayFinal, ConfirmedTimeInForce, NoneRunsAfterLoss, CamerasStoredUnderClaim, PTL
    DEF StepsHonest

=============================================================================

--------------------------- MODULE CameraOnboarding ---------------------------
(***************************************************************************)
(* Adding, moving, pausing and removing cameras: the probe vault and the   *)
(* connector's worker slots, the administrator's requests under the        *)
(* mutations lock, the two SQLite files (device registry, camera store)    *)
(* and the sources the recording service was last given.  Every host is    *)
(* the same; an endpoint is a port with a stream key (0: none).            *)
(***************************************************************************)
EXTENDS Integers, FiniteSets

CONSTANTS Devs,       \* device identities
          MaxCams,    \* MAX_OPERATOR_CAMERAS
          MaxDevs,    \* capacity of the registry
          Ports, Names,
          Reqs,       \* administrator requests that may overlap
          ProbeIds,   \* entries of the vault
          MaxSlots,   \* worker slots of the connector
          Sessions,
          MaxOps, MaxCancels, MaxFaults, MaxCrashes, MaxProbes   \* bounds

VARIABLES
  reg, store, pref,  \* durable: registry rows, camera_sources, camera_recording (TRUE: no row)
  tx,                \* the open transaction over both files
  svc,               \* OperatorProductService._sources
  roll,              \* a rollback of recording preferences still to run: a set of at most one
  pc, job, prev,     \* requests: where they are, what they ask, the selections they saw
  probe, active,     \* the vault and the connector's _active
  loose,             \* worker threads whose request has gone
  valid,             \* sessions that authenticate as an administrator
  left,              \* what the bounds still allow
  astray             \* history: how the service's sources were left apart from the store

onbdisk == <<reg, store, pref, tx>>
onbprobe == <<probe, active, loose>>
onbvars == <<onbdisk, svc, roll, pc, job, prev, onbprobe, valid, left, astray>>

NoDev == [name |-> 0, port |-> 0, onvif |-> FALSE]
NoRow == [name |-> 0, port |-> 0, onvif |-> FALSE, key |-> 0]
NoSource == [dev |-> NoDev, uri |-> 0]
NoProbe == [st |-> "none", sess |-> 0, port |-> 0, onvif |-> FALSE, in |-> FALSE, conn |-> FALSE]
NoTx == [dev |-> 0, row |-> NoRow, source |-> NoSource]
NoJob == [kind |-> "none", sess |-> 0, probe |-> 0, row |-> NoRow, uri |-> 0, dev |-> 0, on |-> TRUE]
\* Device has no stream key: it is a column of the registry only.
Device(row) == [name |-> row.name, port |-> row.port, onvif |-> row.onvif]
Stored == {d \in Devs : store[d] # NoSource}

First == CHOOSE d \in Devs : TRUE
FirstRow == [name |-> 1, port |-> 1, onvif |-> FALSE, key |-> 0]
\* list_sources: every source with its recording preference.
Selections == [d \in Devs |-> [source |-> store[d], rec |-> pref[d]]]

\* A site with one camera.
OnbInit ==
  /\ reg = [d \in Devs |-> IF d = First THEN FirstRow ELSE NoRow]
  /\ store = [d \in Devs |-> IF d = First THEN [dev |-> Device(FirstRow), uri |-> 1] ELSE NoSource]
  /\ pref = [d \in Devs |-> TRUE] /\ tx = NoTx
  /\ svc = Selections /\ roll = {}
  /\ pc = [r \in Reqs |-> "free"] /\ job = [r \in Reqs |-> NoJob]
  /\ prev = [r \in Reqs |-> Selections]
  /\ probe = [p \in ProbeIds |-> NoProbe] /\ active = 0 /\ loose = 0
  /\ valid = Sessions /\ astray = {}
  /\ left = [op |-> MaxOps, cancel |-> MaxCancels, fault |-> MaxFaults, crash |-> MaxCrashes,
             probe |-> MaxProbes]

Spend(k) == left[k] > 0 /\ left' = [left EXCEPT ![k] = @ - 1]
\* SQLite work runs on the event loop: nothing else of the loop interleaves.
InStore == {"enrol", "upsert", "rcreg", "rcsource", "rccommit"}
LoopFree == \A r \in Reqs : pc[r] \notin InStore
\* async with mutations.
Holding == {r \in Reqs : pc[r] \notin {"free", "lock"}}
\* _read_sources refuses the whole store when one source is not its enrolled device.
Readable == \A d \in Stored : store[d].dev = Device(reg[d])

-----------------------------------------------------------------------------
(* The probe vault and OnvifConnector.                                     *)

\* reserve, then _run takes a slot, or refuses when both are taken.
ProbeStarts(p, s, k, onvif) ==
  /\ LoopFree /\ s \in valid /\ probe[p] = NoProbe /\ (onvif => active < MaxSlots) /\ Spend("probe")
  /\ probe' = [probe EXCEPT ![p] = [st |-> "run", sess |-> s, port |-> k, onvif |-> onvif,
                                    in |-> TRUE, conn |-> FALSE]]
  /\ active' = IF onvif THEN active + 1 ELSE active
  /\ UNCHANGED <<onbdisk, svc, roll, pc, job, prev, loose, valid, astray>>
\* The worker's finally frees the slot; the session and the vault are asked
\* again before the profiles are kept.
ProbeEnds(p, ok) ==
  /\ LoopFree /\ probe[p].st = "run"
  /\ active' = IF probe[p].onvif THEN active - 1 ELSE active
  /\ probe' = [probe EXCEPT ![p] = IF ok /\ @.sess \in valid /\ @.in THEN [@ EXCEPT !.st = "ready"]
                                   ELSE NoProbe]
  /\ UNCHANGED <<onbdisk, svc, roll, pc, job, prev, loose, valid, left, astray>>
\* The shielded worker thread outlives its cancelled request, with its slot.
SlotKept == active' = active /\ loose' = loose + 1
ProbeCancelled(p) ==
  /\ LoopFree /\ probe[p].st = "run" /\ Spend("cancel")
  /\ probe' = [probe EXCEPT ![p] = NoProbe]
  /\ IF probe[p].onvif THEN SlotKept ELSE UNCHANGED <<active, loose>>
  /\ UNCHANGED <<onbdisk, svc, roll, pc, job, prev, valid, astray>>
WorkerEnds == /\ loose > 0 /\ loose' = loose - 1 /\ active' = active - 1
              /\ UNCHANGED <<onbdisk, svc, roll, pc, job, prev, probe, valid, left, astray>>

\* A probe leaves the vault; a request that still uses it finds out later.
Out(v) == IF v.st = "run" \/ v.conn THEN [v EXCEPT !.in = FALSE] ELSE NoProbe
\* prune, and clear_token when its session signs out.
Expire(p) == /\ LoopFree /\ probe[p].in /\ probe' = [probe EXCEPT ![p] = Out(@)]
             /\ UNCHANGED <<onbdisk, svc, roll, pc, job, prev, active, loose, valid, left, astray>>
SignOut(s) == /\ LoopFree /\ s \in valid /\ valid' = valid \ {s}
              /\ UNCHANGED <<onbdisk, svc, roll, pc, job, prev, onbprobe, left, astray>>
ClearToken(s) ==
  /\ LoopFree /\ s \notin valid
  /\ probe' = [p \in ProbeIds |-> IF probe[p].in /\ probe[p].sess = s THEN Out(probe[p]) ELSE probe[p]]
  /\ probe' # probe
  /\ UNCHANGED <<onbdisk, svc, roll, pc, job, prev, active, loose, valid, left, astray>>

-----------------------------------------------------------------------------
(* Requests up to the mutations lock.                                      *)

Submit(r, j) == /\ LoopFree /\ pc[r] = "free" /\ Spend("op")
                /\ pc' = [pc EXCEPT ![r] = "lock"] /\ job' = [job EXCEPT ![r] = j]
                /\ UNCHANGED <<onbdisk, svc, roll, prev, active, loose, valid, astray>>
\* connect and connect_stream (d: the camera to move to this stream, 0 for none).
Connect(r, p, n, d) ==
  /\ probe[p].st = "ready" /\ probe[p].in /\ ~probe[p].conn /\ probe[p].sess \in valid
  /\ d # 0 => ~probe[p].onvif
  /\ probe' = [probe EXCEPT ![p].conn = TRUE]
  /\ Submit(r, [NoJob EXCEPT !.kind = IF d = 0 THEN "add" ELSE "move", !.sess = probe[p].sess,
                !.probe = p, !.uri = 2, !.dev = d,
                !.row = [name |-> n, port |-> probe[p].port, onvif |-> probe[p].onvif,
                         key |-> IF probe[p].onvif THEN 0 ELSE 1]])
\* POST /cameras: port 80, no probe.
EnrollCamera(r, s, n) ==
  /\ s \in valid /\ UNCHANGED probe
  /\ Submit(r, [NoJob EXCEPT !.kind = "add", !.sess = s, !.uri = 3,
                !.row = [name |-> n, port |-> 1, onvif |-> FALSE, key |-> 0]])
RecordingPreference(r, s, d, on) ==
  /\ s \in valid /\ UNCHANGED probe
  /\ Submit(r, [NoJob EXCEPT !.kind = "prefer", !.sess = s, !.dev = d, !.on = on])
RemoveCamera(r, s, d) ==
  /\ s \in valid /\ UNCHANGED probe
  /\ Submit(r, [NoJob EXCEPT !.kind = "remove", !.sess = s, !.dev = d])

Acquire(r) == /\ LoopFree /\ pc[r] = "lock" /\ Holding = {} /\ pc' = [pc EXCEPT ![r] = "auth"]
              /\ UNCHANGED <<onbdisk, svc, roll, job, prev, onbprobe, valid, left, astray>>

\* The request returns: the lock and the probe are released, and a probe that
\* served its purpose is discarded.
Finish(r, served) ==
  /\ pc' = [pc EXCEPT ![r] = "free"] /\ job' = [job EXCEPT ![r] = NoJob]
  /\ LET p == job[r].probe IN
       probe' = IF p = 0 THEN probe
                ELSE [probe EXCEPT ![p] = IF served \/ ~@.in THEN NoProbe ELSE [@ EXCEPT !.conn = FALSE]]

-----------------------------------------------------------------------------
(* enroll_camera_source, with the lock.                                    *)

\* before_store: the probe is still in the vault and this request's.
Claimed(r) == job[r].probe # 0 => probe[job[r].probe].in /\ probe[job[r].probe].conn
Full == Cardinality(Stored) >= MaxCams
SameEndpoint(d, row) == reg[d] # NoRow /\ reg[d].port = row.port /\ reg[d].key = row.key
\* find_name_host.
SameName(row) == {d \in Devs : reg[d] # NoRow /\ reg[d].name = row.name}
\* The checks before the first write: the step to take, and the device.
Refused(r) == job[r].sess \notin valid \/ ~Claimed(r) \/ ~Readable
Admission(r) ==
  LET row == job[r].row
      named == Cardinality(SameName(row))
      fresh == row.key # 0 /\ ~\E d \in Stored : SameEndpoint(d, row)
      new == ~\E d \in Stored : store[d].dev.port = row.port
  IN IF Refused(r) THEN [to |-> "fail", dev |-> 0]
     ELSE IF job[r].kind = "move"
     THEN IF job[r].dev \in Stored /\ store[job[r].dev].dev.name = row.name
          THEN [to |-> "rcreg", dev |-> job[r].dev] ELSE [to |-> "fail", dev |-> 0]
     ELSE IF row.onvif /\ named > 1 THEN [to |-> "fail", dev |-> 0]
     ELSE IF row.onvif /\ named = 1 THEN [to |-> "rcreg", dev |-> CHOOSE d \in SameName(row) : TRUE]
     ELSE [to |-> IF Full /\ (fresh \/ new) THEN "fail" ELSE "enrol", dev |-> 0]
Admit(r) ==
  /\ LoopFree /\ pc[r] = "auth" /\ job[r].kind \in {"add", "move"}
  /\ IF Admission(r).to = "fail" THEN Finish(r, FALSE)
     ELSE /\ pc' = [pc EXCEPT ![r] = Admission(r).to]
          /\ job' = [job EXCEPT ![r].dev = Admission(r).dev] /\ UNCHANGED probe
  /\ UNCHANGED <<onbdisk, svc, roll, prev, active, loose, valid, left, astray>>

\* DeviceRegistry._enroll: the identical row, or a new one; else a conflict or
\* no capacity.
EnrollRow(r) ==
  /\ pc[r] = "enrol"
  /\ LET row == job[r].row
         same == {d \in Devs : SameEndpoint(d, row)}
         free == {d \in Devs : reg[d] = NoRow}
         refused == IF same = {} THEN Cardinality(Devs \ free) >= MaxDevs ELSE \E d \in same : reg[d] # row
         Onto(d) == job' = [job EXCEPT ![r].dev = d] /\ pc' = [pc EXCEPT ![r] = "upsert"]
                    /\ UNCHANGED probe
     IN \/ \E d \in same : reg[d] = row /\ Onto(d) /\ UNCHANGED reg
        \/ refused /\ Finish(r, FALSE) /\ UNCHANGED reg
        \/ /\ same = {} /\ Cardinality(Devs \ free) < MaxDevs
           /\ \E d \in free : Onto(d) /\ reg' = [reg EXCEPT ![d] = row]
  /\ UNCHANGED <<store, pref, tx, svc, roll, prev, active, loose, valid, left, astray>>

\* The selections handed to apply_sources; the event loop is free again.
Applying(r) == pc' = [pc EXCEPT ![r] = "apply"] /\ UNCHANGED <<job, probe>>
\* OperatorCameraStore.upsert; the preference of a known camera is kept.
Upsert(r) ==
  /\ pc[r] = "upsert"
  /\ LET d == job[r].dev IN
       IF Readable /\ (d \in Stored \/ ~Full)
       THEN store' = [store EXCEPT ![d] = [dev |-> Device(reg[d]), uri |-> job[r].uri]] /\ Applying(r)
       ELSE UNCHANGED store /\ Finish(r, FALSE)
  /\ UNCHANGED <<reg, pref, tx, svc, roll, prev, active, loose, valid, left, astray>>

\* _reconnect_source: both files in one transaction of the store's connection.
Moved(r) == LET row == job[r].row IN
  [name |-> reg[job[r].dev].name, port |-> row.port,
   onvif |-> row.onvif, key |-> row.key]
WriteAttached(d, row) == tx' = [tx EXCEPT !.dev = d, !.row = row] /\ UNCHANGED reg
\* UPDATE operator_registry.devices; UNIQUE refuses another camera's endpoint.
ReconnectRegistry(r) ==
  /\ pc[r] = "rcreg"
  /\ LET d == job[r].dev IN
       IF ~Readable \/ (d \notin Stored /\ Full) \/ (\E e \in Devs \ {d} : SameEndpoint(e, Moved(r)))
       THEN Finish(r, FALSE) /\ UNCHANGED <<reg, tx>>
       ELSE /\ WriteAttached(d, Moved(r)) /\ pc' = [pc EXCEPT ![r] = "rcsource"]
            /\ UNCHANGED <<job, probe>>
  /\ UNCHANGED <<store, pref, svc, roll, prev, active, loose, valid, left, astray>>
ReconnectSource(r) ==
  /\ pc[r] = "rcsource" /\ pc' = [pc EXCEPT ![r] = "rccommit"]
  /\ tx' = [tx EXCEPT !.source = [dev |-> Device(tx.row), uri |-> job[r].uri]]
  /\ UNCHANGED <<reg, store, pref, svc, roll, job, prev, onbprobe, valid, left, astray>>
ReconnectCommit(r) ==
  /\ pc[r] = "rccommit" /\ Applying(r) /\ tx' = NoTx
  /\ reg' = [reg EXCEPT ![tx.dev] = tx.row] /\ store' = [store EXCEPT ![tx.dev] = tx.source]
  /\ UNCHANGED <<pref, svc, roll, prev, active, loose, valid, left, astray>>
\* A failing statement rolls both files back.
StoreFails(r) ==
  /\ pc[r] \in InStore /\ Spend("fault") /\ Finish(r, FALSE) /\ tx' = NoTx
  /\ UNCHANGED <<reg, store, pref, svc, roll, prev, active, loose, valid, astray>>

\* The store's remove; the registry keeps the device.  The session is not
\* asked again.
Remove(r) ==
  /\ LoopFree /\ pc[r] = "auth" /\ job[r].kind = "remove"
  /\ LET d == job[r].dev IN
       IF Readable /\ d \in Stored
       THEN /\ store' = [store EXCEPT ![d] = NoSource] /\ pref' = [pref EXCEPT ![d] = TRUE]
            /\ Applying(r)
       ELSE Finish(r, FALSE) /\ UNCHANGED <<store, pref>>
  /\ UNCHANGED <<reg, tx, svc, roll, prev, active, loose, valid, left, astray>>

\* apply_sources: the service lock; the sources are taken over before any call
\* to the worker, whose failure only delays them.
ApplySources(r) ==
  /\ LoopFree /\ pc[r] = "apply" /\ roll = {} /\ svc' = Selections /\ astray' = {}
  /\ \E ok \in BOOLEAN : Finish(r, ok)
  /\ UNCHANGED <<onbdisk, roll, prev, active, loose, valid, left>>
\* Cancelled while it waits for the service lock.
ApplyCancelled(r) ==
  /\ LoopFree /\ pc[r] = "apply" /\ Spend("cancel") /\ Finish(r, FALSE)
  /\ astray' = astray \cup {"unapplied"}
  /\ UNCHANGED <<onbdisk, svc, roll, prev, active, loose, valid>>

-----------------------------------------------------------------------------
(* recording_preference, with the lock: the service first, then the store. *)

\* _change_recording_preferences refuses other cameras than it has.
SameCameras(a, b) == \A d \in Devs : a[d].source = b[d].source
Preferred(r) == [prev[r] EXCEPT ![job[r].dev].rec = job[r].on]
Prefer(r) ==
  /\ LoopFree /\ pc[r] = "auth" /\ job[r].kind = "prefer"
  /\ LET d == job[r].dev IN
       IF job[r].sess \notin valid \/ ~Readable \/ d \notin Stored \/ pref[d] = job[r].on
       THEN Finish(r, FALSE) /\ UNCHANGED prev
       ELSE /\ pc' = [pc EXCEPT ![r] = "papply"] /\ prev' = [prev EXCEPT ![r] = Selections]
            /\ UNCHANGED <<job, probe>>
  /\ UNCHANGED <<onbdisk, svc, roll, active, loose, valid, left, astray>>
NoRollback(r) == Finish(r, FALSE) /\ UNCHANGED roll
\* except BaseException: the previous selections are applied again.
Rollback(r) == pc' = [pc EXCEPT ![r] = "roll"] /\ roll' = {prev[r]} /\ UNCHANGED <<job, probe>>
PreferApplied(r) ==
  /\ LoopFree /\ pc[r] = "papply" /\ roll = {} /\ SameCameras(svc, Preferred(r))
  /\ svc' = Preferred(r) /\ pc' = [pc EXCEPT ![r] = "pstore"]
  /\ UNCHANGED <<onbdisk, roll, job, prev, onbprobe, valid, left, astray>>
\* Refused, failed and compensated, or cancelled and compensated.
PreferFails(r) ==
  /\ LoopFree /\ pc[r] = "papply" /\ roll = {} /\ Rollback(r)
  /\ IF SameCameras(svc, Preferred(r)) THEN Spend("fault") \/ Spend("cancel") ELSE UNCHANGED left
  /\ UNCHANGED <<onbdisk, svc, prev, active, loose, valid, astray>>
\* The session again, then the store.
PreferStored(r) ==
  /\ LoopFree /\ pc[r] = "pstore"
  /\ IF job[r].sess \in valid
     THEN pref' = [pref EXCEPT ![job[r].dev] = job[r].on] /\ Finish(r, TRUE) /\ UNCHANGED roll
     ELSE Rollback(r) /\ UNCHANGED pref
  /\ UNCHANGED <<reg, store, tx, svc, prev, active, loose, valid, left, astray>>
PreferUnstored(r) ==
  /\ LoopFree /\ pc[r] = "pstore" /\ (Spend("fault") \/ Spend("cancel")) /\ Rollback(r)
  /\ UNCHANGED <<onbdisk, svc, prev, active, loose, valid, astray>>
\* A second cancellation leaves the shielded rollback behind, and the lock.
RollbackAbandoned(r) ==
  /\ LoopFree /\ pc[r] = "roll" /\ Spend("cancel") /\ Finish(r, FALSE)
  /\ UNCHANGED <<onbdisk, svc, roll, prev, active, loose, valid, astray>>
\* Its failure is swallowed: the worker died, or the service has other cameras.
RolledBack(ok) ==
  /\ LoopFree
  /\ \E p \in roll :
       IF ok /\ SameCameras(svc, p) THEN svc' = p /\ UNCHANGED <<astray, left>>
       ELSE /\ UNCHANGED svc /\ (SameCameras(svc, p) => Spend("fault"))
            /\ (~SameCameras(svc, p) => ~ok /\ UNCHANGED left)
            /\ astray' = IF svc = p THEN astray ELSE astray \cup {"unrolled"}
  /\ roll' = {} /\ pc' = [r \in Reqs |-> IF pc[r] = "roll" THEN "free" ELSE pc[r]]
  /\ job' = [r \in Reqs |-> IF pc[r] = "roll" THEN NoJob ELSE job[r]]
  /\ UNCHANGED <<onbdisk, prev, onbprobe, valid>>

\* The process dies: SQLite recovers both files, the service starts with the store.
CrashRestart ==
  /\ Readable /\ Spend("crash") /\ tx' = NoTx /\ svc' = Selections /\ roll' = {} /\ astray' = {}
  /\ pc' = [r \in Reqs |-> "free"] /\ job' = [r \in Reqs |-> NoJob]
  /\ probe' = [p \in ProbeIds |-> NoProbe] /\ active' = 0 /\ loose' = 0 /\ valid' = Sessions
  /\ UNCHANGED <<reg, store, pref, prev>>

OnbNext ==
  \/ \E p \in ProbeIds, s \in Sessions, k \in Ports, o \in BOOLEAN : ProbeStarts(p, s, k, o)
  \/ \E p \in ProbeIds, ok \in BOOLEAN : ProbeEnds(p, ok)
  \/ \E p \in ProbeIds : ProbeCancelled(p) \/ Expire(p)
  \/ WorkerEnds \/ \E s \in Sessions : SignOut(s) \/ ClearToken(s)
  \/ \E r \in Reqs, p \in ProbeIds, n \in Names, d \in Devs \cup {0} : Connect(r, p, n, d)
  \/ \E r \in Reqs, s \in Sessions, n \in Names : EnrollCamera(r, s, n)
  \/ \E r \in Reqs, s \in Sessions, d \in Devs, on \in BOOLEAN : RecordingPreference(r, s, d, on)
  \/ \E r \in Reqs, s \in Sessions, d \in Devs : RemoveCamera(r, s, d)
  \/ \E r \in Reqs : \/ Acquire(r) \/ Admit(r) \/ EnrollRow(r) \/ Upsert(r) \/ ReconnectRegistry(r)
                     \/ ReconnectSource(r) \/ ReconnectCommit(r) \/ StoreFails(r) \/ Remove(r)
                     \/ ApplySources(r) \/ ApplyCancelled(r) \/ Prefer(r) \/ PreferApplied(r)
                     \/ PreferFails(r) \/ PreferStored(r) \/ PreferUnstored(r) \/ RollbackAbandoned(r)
  \/ \E ok \in BOOLEAN : RolledBack(ok)
  \/ CrashRestart
OnbSpec == OnbInit /\ [][OnbNext]_onbvars

-----------------------------------------------------------------------------
(* Properties.                                                             *)

\* Whatever is interrupted or crashes, every stored source is the device the
\* registry has enrolled: one that differs would make the store refuse every
\* camera, at each request and at the next start.
StoreAdmissible == Readable

\* A camera is added or moved only while the administrator's session is current
\* and the probe it came from is still in the vault, although both are checked
\* before the request waits for its turn.
StoredUnderClaim ==
  \A r \in Reqs : pc[r] \in {"upsert", "rccommit"} /\ store' # store
       => /\ job[r].sess \in valid
          /\ job[r].probe # 0 => probe[job[r].probe].in /\ probe[job[r].probe].conn

\* The connector's counter is the number of its running threads, and within its
\* slots, although cancelled requests leave threads behind.
Probing == {p \in ProbeIds : probe[p].st = "run" /\ probe[p].onvif}
SlotsExact == active = loose + Cardinality(Probing) /\ active <= MaxSlots

\* Between mutations the service records the cameras the store holds, as the
\* store says, unless a request was cancelled before its sources were applied
\* or a rollback failed.
ServiceFollowsStore == Holding = {} /\ roll = {} /\ astray = {} => svc = Selections

-----------------------------------------------------------------------------
(* What makes them inductive.                                              *)

Rows == [name : Names \cup {0, 1}, port : Ports \cup {0, 1}, onvif : BOOLEAN, key : {0, 1}]
Devices == [name : Names \cup {0, 1}, port : Ports \cup {0, 1}, onvif : BOOLEAN]
Places == [dev : Devices, uri : {0, 1, 2, 3}]
Txs == [dev : Devs \cup {0}, row : Rows, source : Places]
Jobs == [kind : {"none", "add", "move", "prefer", "remove"}, sess : Sessions \cup {0},
         probe : ProbeIds \cup {0}, row : Rows, uri : {0, 1, 2, 3}, dev : Devs \cup {0}, on : BOOLEAN]
Probes == [st : {"none", "run", "ready"}, sess : Sessions \cup {0}, port : Ports \cup {0},
           onvif : BOOLEAN, in : BOOLEAN, conn : BOOLEAN]
OnbType ==
  /\ reg \in [Devs -> Rows] /\ store \in [Devs -> Places] /\ pref \in [Devs -> BOOLEAN]
  /\ tx \in Txs
  /\ pc \in [Reqs -> {"free", "lock", "auth", "apply", "papply", "pstore", "roll"} \cup InStore]
  /\ job \in [Reqs -> Jobs] /\ prev \in [Reqs -> [Devs -> [source : Places, rec : BOOLEAN]]]
  /\ probe \in [ProbeIds -> Probes]
  /\ active \in Nat /\ loose \in Nat
\* One request has the mutations lock.
OneHolder == \A r, q \in Holding : r = q
\* A stored camera is enrolled (no enrolled device has port 0).
StoredEnrolled == \A d \in Stored : reg[d].port # 0
\* A request owns the probe it came from, which has ended.
ProbesOwned ==
  /\ \A p \in ProbeIds : /\ probe[p].conn => probe[p].st = "ready"
                         /\ probe[p].st # "none" => probe[p].port # 0
  /\ \A r \in Reqs : job[r].probe # 0 => probe[job[r].probe].conn
  /\ \A r, q \in Reqs : job[r].probe # 0 /\ job[r].probe = job[q].probe => r = q
\* What a request has done so far: its device, its transaction, its claim, the selections it saw.
JobHolds(r) ==
  /\ job[r].kind \in {"add", "move"} => job[r].row.port # 0
  /\ job[r].kind = "prefer" => job[r].probe = 0
  /\ pc[r] \in InStore => job[r].kind \in {"add", "move"} /\ job[r].sess \in valid /\ Claimed(r)
  /\ pc[r] = "upsert" => job[r].dev \in Devs /\ reg[job[r].dev].port # 0
  /\ pc[r] = "rcreg" => job[r].dev \in Devs
  /\ pc[r] \in {"rcsource", "rccommit"} => tx.dev \in Devs /\ tx.row.port # 0
  /\ pc[r] = "rccommit" => tx.source.dev = Device(tx.row)
  /\ pc[r] \in {"papply", "pstore", "roll"} =>
       job[r].kind = "prefer" /\ job[r].dev \in Devs /\ prev[r] = Selections
  /\ pc[r] = "pstore" => roll = {} /\ svc = Preferred(r)
\* What waits to be rolled back is what the store says, unless a request has yet to apply its change.
Following ==
  astray = {} /\ (\A r \in Reqs : pc[r] # "apply") =>
    /\ \A p \in roll : p = Selections
    /\ roll = {} /\ (\A r \in Reqs : pc[r] # "pstore") => svc = Selections
OnbInv ==
  /\ OnbType /\ OneHolder /\ StoreAdmissible /\ StoredEnrolled /\ ProbesOwned
  /\ \A r \in Reqs : JobHolds(r)
  /\ Following /\ SlotsExact
=============================================================================

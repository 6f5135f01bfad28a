-------------------------- MODULE TimeAdministration --------------------------
(***************************************************************************)
(* Setting the time source of the host and of a camera: requests under the *)
(* mutations lock, the one host operation thread with its private request  *)
(* and response files, the broker process that asks Windows for elevation, *)
(* the elevated helper, which is nobody's child and may act late, and      *)
(* cancellation and closing at any point.  A request's wanted setting is   *)
(* named by the request; 0 is what was there before.                       *)
(***************************************************************************)
EXTENDS Integers, FiniteSets

CONSTANTS Writes,     \* requests that configure the host or the camera
          Reads,      \* requests that only read the host's state
          MaxCancels  \* bound

VARIABLES
  tpc,        \* where the request and its thread are
  kind,       \* "host", "camera" (its NTP setting) or "clock" (its time)
  gone,       \* requests whose client has gone: _owned_result waits on
  mlock,      \* holder of the mutations lock: a set of at most one
  hlock,      \* holder of _host_lock
  reqFile,    \* requests whose request file exists
  response,   \* requests whose response file says "completed"
  pending,    \* _pending
  broker,     \* live broker processes
  helper,     \* the elevated helper of a request: "none", "prompt", "acting", "ended"
  config,     \* the host's setting
  camNtp, camMode,   \* the camera's two settings
  confirmed,  \* requests answered with success
  tclosed,    \* _closed
  revoked     \* history: requests whose admission a cancellation took back

tmfiles == <<reqFile, response, pending, broker>>
tmworld == <<helper, config, camNtp, camMode>>
tmvars == <<tpc, kind, gone, mlock, hlock, tmfiles, tmworld, confirmed, tclosed, revoked>>

All == Writes \cup Reads
InThread == {"begin", "file", "registered", "broker", "verify", "clean"}
OnCamera == {"setntp", "setmode", "camverify", "setclock"}

TmInit == /\ tpc = [r \in All |-> "new"] /\ kind = [r \in All |-> "host"] /\ gone = {}
          /\ mlock = {} /\ hlock = {} /\ reqFile = {} /\ response = {} /\ pending = {} /\ broker = {}
          /\ helper = [r \in All |-> "none"] /\ config = 0 /\ camNtp = 0 /\ camMode = 0
          /\ confirmed = {} /\ tclosed = FALSE /\ revoked = {}

Goto(r, s) == tpc' = [tpc EXCEPT ![r] = s]

-----------------------------------------------------------------------------
(* The routes and TimeAdministrationService.                               *)

\* configure_host, synchronize_host and mutate_camera take the mutations lock.
Acquire(r, k) == /\ r \in Writes /\ tpc[r] = "new" /\ mlock = {} /\ mlock' = {r} /\ Goto(r, "lease")
                 /\ kind' = [kind EXCEPT ![r] = k]
                 /\ UNCHANGED <<gone, hlock, tmfiles, tmworld, confirmed, tclosed, revoked>>
\* _host_call: refused when closed or busy.
HostCall(r) ==
  /\ kind[r] = "host"
  /\ tpc[r] = IF r \in Writes THEN "lease" ELSE "new"
  /\ IF tclosed \/ hlock # {} THEN Goto(r, "over") /\ mlock' = mlock \ {r} /\ UNCHANGED hlock
     ELSE Goto(r, IF r \in Writes THEN "begin" ELSE "reading") /\ hlock' = {r} /\ UNCHANGED mlock
  /\ UNCHANGED <<kind, gone, tmfiles, tmworld, confirmed, tclosed, revoked>>
HostRead(r) == /\ tpc[r] = "reading" /\ Goto(r, "over") /\ hlock' = {}
               /\ UNCHANGED <<kind, gone, mlock, tmfiles, tmworld, confirmed, tclosed, revoked>>
\* The thread has finished; only then does the request return.
Return(r) == /\ tpc[r] = "done" /\ Goto(r, "over") /\ mlock' = mlock \ {r}
             /\ UNCHANGED <<kind, gone, hlock, tmfiles, tmworld, confirmed, tclosed, revoked>>

TakenBack == {r \in pending \cap reqFile : helper[r] \in {"none", "prompt"}}
\* cancel_current: the pending admission is taken back.
Unlinked == reqFile' = reqFile \ pending /\ revoked' = revoked \cup TakenBack
CancelCurrent == Unlinked /\ broker' = {}

Released(r) == mlock' = mlock \ {r}
\* _owned_result keeps the lease until the thread is done.
LeaseWaits(r) == UNCHANGED mlock
\* The client goes away.
CancelRequest(r) ==
  /\ r \in Writes \ gone /\ tpc[r] \in InThread \cup OnCamera \cup {"done"}
  /\ Cardinality(gone) < MaxCancels /\ gone' = gone \cup {r} /\ LeaseWaits(r)
  /\ IF kind[r] = "host" THEN CancelCurrent ELSE UNCHANGED <<reqFile, revoked, broker>>
  /\ UNCHANGED <<tpc, kind, hlock, response, pending, tmworld, confirmed, tclosed>>
\* aclose sets _closed and cancels; it returns when every thread is done.
CloseService == /\ ~tclosed /\ tclosed' = TRUE /\ CancelCurrent
                /\ UNCHANGED <<tpc, kind, gone, mlock, hlock, response, pending, tmworld, confirmed>>

-----------------------------------------------------------------------------
(* WindowsTimeAdministrator.operate, in the thread.                        *)

Prepare(r) == /\ tpc[r] = "begin"
              /\ IF tclosed THEN Goto(r, "clean") /\ UNCHANGED reqFile
                 ELSE Goto(r, "file") /\ reqFile' = reqFile \cup {r}
              /\ UNCHANGED <<kind, gone, mlock, hlock, response, pending, broker, tmworld, confirmed,
                             tclosed, revoked>>
Register(r) == /\ tpc[r] = "file" /\ pending' = pending \cup {r} /\ Goto(r, "registered")
               /\ UNCHANGED <<kind, gone, mlock, hlock, reqFile, response, broker, tmworld, confirmed,
                              tclosed, revoked>>
\* _owned_elevation: no broker once closed.
Launch(r) == /\ tpc[r] = "registered"
             /\ IF tclosed THEN Goto(r, "clean") /\ UNCHANGED <<broker, helper>>
                ELSE Goto(r, "broker") /\ broker' = {r} /\ helper' = [helper EXCEPT ![r] = "prompt"]
             /\ UNCHANGED <<kind, gone, mlock, hlock, reqFile, response, pending, config, camNtp, camMode,
                            confirmed, tclosed, revoked>>
BrokerReturns(r) == /\ tpc[r] = "broker" /\ r \in broker /\ helper[r] = "ended"
                    /\ Goto(r, "verify") /\ broker' = {}
                    /\ UNCHANGED <<kind, gone, mlock, hlock, reqFile, response, pending, tmworld, confirmed,
                                   tclosed, revoked>>
\* Killed, or out of time.
BrokerFails(r) == /\ tpc[r] = "broker" /\ Goto(r, "clean") /\ broker' = {}
                  /\ UNCHANGED <<kind, gone, mlock, hlock, reqFile, response, pending, tmworld, confirmed,
                                 tclosed, revoked>>
\* The response is the helper's, and the host's setting is read back.
Verified(r) == r \in response /\ config = r
Verify(r) == /\ tpc[r] = "verify" /\ Goto(r, "clean")
             /\ confirmed' = IF Verified(r) /\ ~tclosed THEN confirmed \cup {r} ELSE confirmed
             /\ UNCHANGED <<kind, gone, mlock, hlock, tmfiles, tmworld, tclosed, revoked>>
Clean(r) == /\ tpc[r] = "clean" /\ Goto(r, "done") /\ hlock' = {}
            /\ pending' = pending \ {r} /\ reqFile' = reqFile \ {r} /\ response' = response \ {r}
            /\ UNCHANGED <<kind, gone, mlock, broker, tmworld, confirmed, tclosed, revoked>>

(* The prompt and the elevated helper.                                     *)
Accepted(r) == /\ helper[r] = "prompt"
               /\ helper' = [helper EXCEPT ![r] = IF r \in reqFile THEN "acting" ELSE "ended"]
               /\ UNCHANGED <<tpc, kind, gone, mlock, hlock, tmfiles, config, camNtp, camMode, confirmed,
                              tclosed, revoked>>
Declined(r) == /\ helper[r] = "prompt" /\ helper' = [helper EXCEPT ![r] = "ended"]
               /\ UNCHANGED <<tpc, kind, gone, mlock, hlock, tmfiles, config, camNtp, camMode, confirmed,
                              tclosed, revoked>>
HelperActs(r) == /\ helper[r] = "acting" /\ config # r /\ config' = r
                 /\ UNCHANGED <<tpc, kind, gone, mlock, hlock, tmfiles, helper, camNtp, camMode, confirmed,
                                tclosed, revoked>>
HelperEnds(r) == /\ helper[r] = "acting" /\ helper' = [helper EXCEPT ![r] = "ended"]
                 /\ \E ok \in BOOLEAN : response' = IF ok /\ config = r THEN response \cup {r} ELSE response
                 /\ UNCHANGED <<tpc, kind, gone, mlock, hlock, reqFile, pending, broker, config, camNtp,
                                camMode, confirmed, tclosed, revoked>>

-----------------------------------------------------------------------------
(* _camera_operation, in the connector's thread.                           *)

CameraCall(r) == /\ kind[r] # "host" /\ tpc[r] = "lease"
                 /\ IF tclosed THEN Goto(r, "over") /\ mlock' = mlock \ {r}
                    ELSE Goto(r, IF kind[r] = "camera" THEN "setntp" ELSE "setclock") /\ UNCHANGED mlock
                 /\ UNCHANGED <<gone, kind, hlock, tmfiles, tmworld, confirmed, tclosed, revoked>>
SetNtp(r) == /\ tpc[r] = "setntp" /\ camNtp' = r /\ Goto(r, "setmode")
             /\ UNCHANGED <<kind, gone, mlock, hlock, tmfiles, helper, config, camMode, confirmed, tclosed,
                            revoked>>
SetMode(r) == /\ tpc[r] = "setmode" /\ camMode' = r /\ Goto(r, "camverify")
              /\ UNCHANGED <<kind, gone, mlock, hlock, tmfiles, helper, config, camNtp, confirmed, tclosed,
                             revoked>>
\* Synchronizing sets the clock by hand, which ends the NTP mode.
SetClock(r) == /\ tpc[r] = "setclock" /\ camMode' = 0 /\ Goto(r, "done")
               /\ UNCHANGED <<kind, gone, mlock, hlock, tmfiles, helper, config, camNtp, confirmed, tclosed,
                              revoked>>
\* The camera refuses, or accepts and does not keep the setting.
CameraFails(r) == /\ tpc[r] \in OnCamera /\ Goto(r, "done")
                  /\ UNCHANGED <<kind, gone, mlock, hlock, tmfiles, tmworld, confirmed, tclosed, revoked>>
CameraForgets(r) == /\ tpc[r] = "camverify" /\ camMode # 0 /\ camMode' = 0
                    /\ UNCHANGED <<tpc, kind, gone, mlock, hlock, tmfiles, helper, config, camNtp, confirmed,
                                   tclosed, revoked>>
CameraVerify(r) == /\ tpc[r] = "camverify" /\ Goto(r, "done")
                   /\ confirmed' = IF camNtp = r /\ camMode = r THEN confirmed \cup {r} ELSE confirmed
                   /\ UNCHANGED <<kind, gone, mlock, hlock, tmfiles, tmworld, tclosed, revoked>>

TmNext ==
  \/ \E r \in Writes, k \in {"host", "camera", "clock"} : Acquire(r, k)
  \/ \E r \in All : \/ HostCall(r) \/ HostRead(r) \/ Return(r) \/ CancelRequest(r) \/ Prepare(r)
                    \/ Register(r) \/ Launch(r) \/ BrokerReturns(r) \/ BrokerFails(r) \/ Verify(r)
                    \/ Clean(r) \/ Accepted(r) \/ Declined(r) \/ HelperActs(r) \/ HelperEnds(r)
                    \/ CameraCall(r) \/ SetNtp(r) \/ SetMode(r) \/ SetClock(r) \/ CameraFails(r) \/ CameraForgets(r)
                    \/ CameraVerify(r)
  \/ CloseService
TmSpec == TmInit /\ [][TmNext]_tmvars

-----------------------------------------------------------------------------
(* Properties.                                                             *)

\* A cancelled request keeps the mutations lock while its thread still works,
\* so no other change overlaps it: "A cancelled HTTP request cannot release its
\* mutation lease mid-write."
LeaseKept == \A r \in Writes : tpc[r] \in InThread \cup OnCamera => mlock = {r}

\* An elevation prompt accepted after the cancellation took its request file
\* away changes nothing.
StalePromptHarmless == \A r \in revoked : helper[r] # "acting"

\* Success is answered only while the setting is the one asked for, although the
\* helper of an earlier request that timed out may act at any moment.
ConfirmedInForce ==
  \A r \in confirmed' \ confirmed :
        IF kind[r] = "host" THEN config = r ELSE camNtp = r /\ camMode = r
=============================================================================

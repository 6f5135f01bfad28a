----------------------------- MODULE MCServices -----------------------------
(***************************************************************************)
(* The integration journal and the services an administrator meets, each   *)
(* in an instance small enough for TLC: person events, camera onboarding   *)
(* and the ONVIF probe, the audit log, time administration, and starting   *)
(* the product.  A behaviour is about one of them: the components share no *)
(* variable, so checking them one after the other loses nothing.  `part'   *)
(* names the component.  The journal, the audit log, the time              *)
(* administration and the start have their variables under their own names *)
(* and rest in their initial state while another part is checked; s1, s2,  *)
(* ... are the variables of the other components.                          *)
(***************************************************************************)
EXTENDS MCIntegrationJournal

CONSTANTS
  Ops, AuditRows, MaxBroken,   \* of AuditLog, AuditRows for its MaxRows
  Writes, Reads, MaxCancels,   \* of TimeAdministration
  Programs, MaxCrashes,        \* of StartUp
  Nonces, Clocks, NumProfiles, Budget, \* of CameraProbe
  Cams, MaxFile, MaxSize, MaxBytes, MaxGen, MaxProc,  \* of PersonEvents
  \* of CameraOnboarding
  Devs, MaxCams, MaxDevs, Ports, Names, AdminReqs, ProbeIds, MaxSlots, Sessions, MaxOps,
  AdminCancels, MaxFaults, AdminCrashes, MaxProbes

\* The log keeps at least the row just written; 0 is the setting, the program, the port or the
\* probe of nobody; there is a camera.
ASSUME ServicesAssumption ==
  /\ AuditRows \in Nat \ {0} /\ 0 \notin Writes \cup Reads /\ 0 \notin Programs
  /\ Cams # {} /\ MaxFile \in Nat
  /\ Devs # {} /\ 0 \notin Ports \cup ProbeIds /\ IsFiniteSet(ProbeIds) /\ MaxSlots \in Nat

VARIABLES
  \* of AuditLog, logRows for its rows
  file, state, logRows, sealed, at, failed, op, writes, serial, broken, effects, lostEnd, born,
  kept,
  \* of TimeAdministration
  tpc, kind, gone, mlock, hlock, reqFile, response, pending, broker, helper, config, camNtp,
  camMode, confirmed, tclosed, revoked,
  \* of StartUp
  madeBy, db, manifest, writers, lockFile, holder, pc, open, thread, crashes,
  part,  \* the component this behaviour is about
  s1, s2, s3, s4, s5, s6, s7, s8, s9, s10, s11, s12, s13, s14, s15, s16, s17, s18, s19,
  s20, s21, s22  \* its variables; 0 where it has fewer

auditvars == <<file, state, logRows, sealed, at, failed, op, writes, serial, broken, effects,
               lostEnd, born, kept>>
timevars == <<tpc, kind, gone, mlock, hlock, reqFile, response, pending, broker, helper, config,
              camNtp, camMode, confirmed, tclosed, revoked>>
startvars == <<madeBy, db, manifest, writers, lockFile, holder, pc, open, thread, crashes>>
\* The variables a component with 15 of them does not use, and all of them.
After15 == <<s16, s17, s18, s19, s20, s21, s22>>
slots == <<s1, s2, s3, s4, s5, s6, s7, s8, s9, s10, s11, s12, s13, s14, s15, After15>>
None15 == s16 = 0 /\ s17 = 0 /\ s18 = 0 /\ s19 = 0 /\ s20 = 0 /\ s21 = 0 /\ s22 = 0
None0 ==
  s1 = 0 /\ s2 = 0 /\ s3 = 0 /\ s4 = 0 /\ s5 = 0 /\ s6 = 0 /\ s7 = 0 /\ s8 = 0 /\
  s9 = 0 /\ s10 = 0 /\ s11 = 0 /\ s12 = 0 /\ s13 = 0 /\ s14 = 0 /\ s15 = 0 /\ None15
sumvars == <<part, slots, auditvars, timevars, startvars, vars>>

-----------------------------------------------------------------------------
\* The cameras whose files grow; the native worker may be started again.
Persons == INSTANCE PersonEvents WITH
    disk <- s1, listed <- s2, source <- s3, conf <- s4, observed <- s5, hints <- s6,
    cold <- s7, spc <- s8, todo <- s9, taken <- s10, tpc <- s11, tcam <- s12,
    want <- s13, answer <- s14, proc <- s15, alive <- s16, expired <- s17, pipe <- s18,
    asked <- s19, procs <- s20, wclosing <- s21, rows <- s22

\* Administrator requests that may overlap, be cancelled, fail and be cut by a crash.
Onboard == INSTANCE CameraOnboarding WITH
    Reqs <- AdminReqs, MaxCancels <- AdminCancels, MaxCrashes <- AdminCrashes,
    reg <- s1, store <- s2, pref <- s3, tx <- s4, svc <- s5, roll <- s6, pc <- s7,
    job <- s8, prev <- s9, probe <- s10, active <- s11, loose <- s12, valid <- s13,
    left <- s14, astray <- s15

Audit == INSTANCE AuditLog WITH MaxRows <- AuditRows, rows <- logRows
Time == INSTANCE TimeAdministration
Start == INSTANCE StartUp

\* A camera that may change its nonce and whose clock may differ.
Onvif == INSTANCE CameraProbe WITH
    step <- s1, secure <- s2, honest <- s3, at <- s4, attempt <- s5, code <- s6,
    media <- s7, challenge <- s8, nonceCount <- s9, clockKnown <- s10, measured <- s11,
    recheckUsed <- s12, left <- s13, camClock <- s14, camNonce <- s15, changes <- s16,
    excused <- s17, sent <- s18, replayed <- s19, exposed <- s20, listed <- s21,
    result <- s22

-----------------------------------------------------------------------------
PartInit ==
  /\ Init /\ Audit!AudInit /\ Time!TmInit /\ Start!StartInit
  /\ \/ part \in {"journal", "audit", "time", "start"} /\ None0
     \/ part = "events" /\ Persons!EvInit
     \/ part = "onboarding" /\ Onboard!OnbInit /\ None15
     \/ part = "probe" /\ Onvif!ProbeInit

\* A step of a component that has slots leaves the named variables alone.
Slotted == UNCHANGED <<part, auditvars, timevars, startvars, vars>>
PartNext ==
  \/ part = "journal" /\ Next /\ UNCHANGED <<part, slots, auditvars, timevars, startvars>>
  \/ part = "audit" /\ Audit!AudNext /\ UNCHANGED <<part, slots, timevars, startvars, vars>>
  \/ part = "time" /\ Time!TmNext /\ UNCHANGED <<part, slots, auditvars, startvars, vars>>
  \/ part = "start" /\ Start!StartNext /\ UNCHANGED <<part, slots, auditvars, timevars, vars>>
  \/ part = "events" /\ Persons!EvNext /\ Slotted
  \/ part = "onboarding" /\ Onboard!OnbNext /\ UNCHANGED After15 /\ Slotted
  \/ part = "probe" /\ Onvif!ProbeNext /\ Slotted
PartSpec == PartInit /\ [][PartNext]_sumvars

-----------------------------------------------------------------------------
(* Properties.                                                             *)

\* The journal loses, repeats and leaks nothing and stays within its bounds
\* (operator_integrations): see the invariants of IntegrationJournal.
JournalSound ==
  part = "journal" => TypeOK /\ NothingLost /\ OneRowEach /\ ScopeKept /\ JournalBounded

\* An answer of the native worker is applied to the question it answers, and an event
\* comes from new bytes of a camera as it is configured now; after close nothing is
\* sampled (operator_events, operator_events_decoder).
EventsSound ==
  part = "events" =>
    /\ Persons!AnswersMatch
    /\ Persons!EventsCurrent
    /\ Persons!EventsFromGrowth
    /\ Persons!ClosedForGood

\* The camera store holds only what it would admit, the worker slots are exact, and
\* between mutations the service follows the store (operator_product_api,
\* operator_product_state, operator_onvif).
OnboardingSound ==
  part = "onboarding" =>
    /\ Onboard!StoreAdmissible
    /\ Onboard!SlotsExact
    /\ Onboard!ServiceFollowsStore

\* Nothing sensitive happens before its attempt is in the log, and the log a program
\* goes on with is the one it left (operator_audit, operator_audit_middleware).
AuditSound == Audit!AttemptFirst /\ Audit!LogAdmits /\ Audit!NeverReplaced

\* The lease of a time change is held until its elevated helper is done, and a helper
\* that is admitted late finds nothing to do (operator_time_admin).
TimeSound == Time!LeaseKept /\ Time!StalePromptHarmless

\* A camera that behaves is not refused, no authorization is sent twice, and no digest
\* is spent on a scheme that would give the password away (operator_onvif).
ProbeSound ==
  part = "probe" =>
    /\ Onvif!HonestNotRefused
    /\ Onvif!NoAuthorizationReplayed
    /\ Onvif!AccountProtected

\* One program installs the identity state, and one works on the profile at a time
\* (identity_state, operator_profile_lock, operator_product).
StartSound == Start!OneInstaller /\ Start!WorksUnderLease

\* No step changes an accepted answer, confirms a time source that is not in force,
\* commits to a log that was lost, or stores a probed camera without its claim.
StepsHonest ==
  [][/\ part = "journal" => AnswerFinal
     /\ part = "time" => Time!ConfirmedInForce
     /\ part = "audit" => Audit!NoneAfterLoss
     /\ part = "onboarding" => Onboard!StoredUnderClaim]_sumvars
=============================================================================

----------------------------- MODULE OperatorLaunch ----------------------------
(***************************************************************************)
(* A live launch: the coordinator's slot, the resolver of the private      *)
(* source, the launcher's visible runtime and, when analytics are          *)
(* configured, a native worker the launch owns and the overlay that feeds  *)
(* it frames.  A launch may be cancelled at every await; the worker is a   *)
(* thread nobody can stop, so it may outlive its launch.                   *)
(***************************************************************************)
EXTENDS Integers, FiniteSets

CONSTANTS
  Launches,   \* requests to POST /api/v1/operator/live
  MaxActive,  \* max_active_launches
  MaxNative,  \* _MAX_NATIVE_SESSIONS
  MaxFrames,  \* frames a delivery may show here
  MaxCalls,   \* max_frames of the overlay: calls of the provider
  MaxStale    \* max_stale_ms, in frames

VARIABLES
  kind,      \* the configured resolver: "none", "open" (a local or a public test source), "private"
  typed,     \* its payload type is configured, so none is probed
  analytic,  \* a provider factory is configured
  active,    \* _active_launches
  pc, err,   \* launch -> where its request is; its primary error: "refused", "failed", "cancelled"
  probing,   \* launches whose credential probe's thread still runs
  free,      \* _capacity, the factory's semaphore
  work,      \* launch -> its native worker: "none", "init", "idle", "infer"
  backend,   \* launches whose _backend is there
  shut,      \* launch -> its session: "open", "closing", "shut", "released"
  intr,      \* launches whose session is _interrupted
  rt,        \* launch -> its visible runtime: "none", "running", "ended"
  task,      \* launch -> its overlay's provider task: "none", "new", "called", "ok", "bad"
  asked,     \* launch -> the frame the provider task is about
  latest,    \* launch -> the frame of _latest_observations, 0 for none
  cnt,       \* launch -> the overlay's counters
  oldest     \* launch -> history: the age of the oldest observations drawn

request == <<kind, typed, analytic, active, pc, err, probing>>
native == <<free, work, backend, shut, intr>>
overlay == <<task, asked, latest, cnt, oldest>>
launchvars == <<request, native, rt, overlay>>

Zero == [processed |-> 0, overlay |-> 0, passthrough |-> 0, submissions |-> 0, completions |-> 0, failures |-> 0,
         unrendered |-> 0, busy |-> 0, capacity |-> 0, dropped |-> 0]

LaunchInit ==
  /\ kind \in {"none", "open", "private"} /\ typed \in BOOLEAN /\ analytic \in BOOLEAN
  /\ active = 0 /\ probing = {} /\ pc = [l \in Launches |-> "idle"] /\ err = [l \in Launches |-> "none"]
  /\ free = MaxNative /\ work = [l \in Launches |-> "none"] /\ backend = {} /\ intr = {}
  /\ shut = [l \in Launches |-> "open"] /\ rt = [l \in Launches |-> "none"]
  /\ task = [l \in Launches |-> "none"] /\ asked = [l \in Launches |-> 0] /\ latest = [l \in Launches |-> 0]
  /\ cnt = [l \in Launches |-> Zero] /\ oldest = [l \in Launches |-> 0]

-----------------------------------------------------------------------------
(* The slot.                                                               *)

Goto(l, p) == pc' = [pc EXCEPT ![l] = p]
Primary(l, e) == err' = [err EXCEPT ![l] = IF @ = "none" THEN e ELSE @]
\* _release in the finally of launch: every way out, whatever ended it.
Given(l) == IF active > 0 THEN active - 1 ELSE 0
GivenIfAnswered(l) == IF err[l] = "cancelled" THEN active ELSE Given(l)
Slot(l) == Given(l)
Finish(l) == Goto(l, "done") /\ active' = Slot(l)
Refuse(l, e) == Goto(l, "done") /\ Primary(l, e) /\ UNCHANGED <<kind, typed, analytic, active, probing, native, rt, overlay>>

\* launch_live_operator and the checks of launch before the slot is taken.
Rejected(l) == pc[l] = "idle" /\ Refuse(l, "refused")
NotConfigured(l) == pc[l] = "idle" /\ kind = "none" /\ Refuse(l, "refused")
Busy(l) == pc[l] = "idle" /\ kind # "none" /\ active >= MaxActive /\ Refuse(l, "refused")
\* _reserve and the resolver up to its first await; a wrong token or a device
\* that is not the configured source's gives the slot straight back.
Reserve(l) ==
  /\ pc[l] = "idle" /\ kind # "none" /\ active < MaxActive
  /\ active' = active + 1 /\ UNCHANGED <<kind, typed, analytic, err, native, rt, overlay>>
  /\ IF kind = "private" THEN Goto(l, "credential") /\ probing' = probing \cup {l}
     ELSE Goto(l, IF typed THEN "resolved" ELSE "payload") /\ UNCHANGED probing
Mismatch(l) == /\ pc[l] = "idle" /\ kind # "none" /\ active < MaxActive
               /\ Refuse(l, "failed")
\* The credential probe's thread, which no cancellation reaches.
ProbeEnds(l) == l \in probing /\ probing' = probing \ {l}
                /\ UNCHANGED <<kind, typed, analytic, active, pc, err, native, rt, overlay>>
Authenticated(l) ==
  /\ pc[l] = "credential" /\ l \notin probing
  /\ \/ Goto(l, IF typed THEN "resolved" ELSE "payload") /\ UNCHANGED <<err, active>>
     \/ Primary(l, "failed") /\ Finish(l)
  /\ UNCHANGED <<kind, typed, analytic, probing, native, rt, overlay>>
\* _payload_probe, and the check that the resolved source is the device's.
Typed(l) ==
  /\ pc[l] = "payload"
  /\ \/ Goto(l, "resolved") /\ UNCHANGED <<err, active>>
     \/ Primary(l, "failed") /\ Finish(l)
  /\ UNCHANGED <<kind, typed, analytic, probing, native, rt, overlay>>

-----------------------------------------------------------------------------
(* The native worker of a launch.                                          *)

BusyWorker(l) == work[l] \in {"init", "infer"}
\* aclose's finally: the semaphore is given back by the pending future's
\* callback, at once when the worker is idle, else when its call ends.
AtCallback(l) == IF BusyWorker(l) THEN shut' = [shut EXCEPT ![l] = "shut"] /\ UNCHANGED <<free, backend>>
                 ELSE shut' = [shut EXCEPT ![l] = "released"] /\ free' = free + 1 /\ backend' = backend \ {l}
ReleaseCompleted(l) == AtCallback(l)
\* What a call that ends does for a session that was shut meanwhile.
Settled(l, b) ==
  /\ work' = [work EXCEPT ![l] = "idle"]
  /\ IF shut[l] = "shut" THEN shut' = [shut EXCEPT ![l] = "released"] /\ free' = free + 1 /\ backend' = backend \ {l}
     ELSE backend' = b /\ UNCHANGED <<shut, free>>
Initialized(l) == /\ work[l] = "init" /\ \E ok \in BOOLEAN : Settled(l, IF ok THEN backend \cup {l} ELSE backend)
                  /\ UNCHANGED <<request, intr, rt, overlay>>
Inferred(l) == /\ work[l] = "infer" /\ Settled(l, backend)
               /\ \E ok \in BOOLEAN : task' = [task EXCEPT ![l] = IF @ = "called" THEN (IF ok THEN "ok" ELSE "bad") ELSE @]
               /\ UNCHANGED <<request, intr, rt, asked, latest, cnt, oldest>>

\* WindowsSingleLiveOperatorLauncher.run: the factory takes capacity and a
\* session starts, or the runtime is built at once.
Acquire(l) ==
  /\ pc[l] = "resolved" /\ analytic
  /\ \/ free = 0 /\ Primary(l, "failed") /\ Finish(l) /\ UNCHANGED <<free, work>>
     \/ free > 0 /\ free' = free - 1 /\ work' = [work EXCEPT ![l] = "init"] /\ Goto(l, "init") /\ UNCHANGED <<err, active>>
  /\ UNCHANGED <<kind, typed, analytic, probing, backend, shut, intr, rt, overlay>>
\* _run's construction fails or the runtime is there, with or without a provider.
Built(l) ==
  \/ Goto(l, "start") /\ UNCHANGED <<err, active, shut>>
  \/ /\ Primary(l, "failed")
     /\ IF work[l] = "none" THEN Finish(l) /\ UNCHANGED shut
        ELSE Goto(l, "provider") /\ shut' = [shut EXCEPT ![l] = "closing"] /\ UNCHANGED active
Build(l) == /\ pc[l] = "resolved" /\ ~analytic /\ Built(l)
            /\ UNCHANGED <<kind, typed, analytic, probing, free, work, backend, intr, rt, overlay>>
Ready(l) == /\ pc[l] = "init" /\ l \in backend /\ ~BusyWorker(l) /\ Built(l)
            /\ UNCHANGED <<kind, typed, analytic, probing, free, work, backend, intr, rt, overlay>>
\* start reports no worker, or its deadline passes: the factory closes it.
NotReady(l) == /\ pc[l] = "init" /\ l \notin backend /\ Primary(l, "failed") /\ Goto(l, "unstarted")
               /\ shut' = [shut EXCEPT ![l] = "closing"]
               /\ UNCHANGED <<kind, typed, analytic, active, probing, free, work, backend, intr, rt, overlay>>
\* aclose: the worker is idle, or its deadline passes, or it is cancelled.
Unstarted(l) ==
  /\ pc[l] = "unstarted" /\ ReleaseCompleted(l)
  /\ \/ ~BusyWorker(l) /\ UNCHANGED err
     \/ BusyWorker(l) /\ err' = [err EXCEPT ![l] = "failed"]
     \/ err' = [err EXCEPT ![l] = "cancelled"]
  /\ Finish(l) /\ UNCHANGED <<kind, typed, analytic, probing, work, intr, rt, overlay>>
ProviderClosed(l) ==
  /\ pc[l] = "provider" /\ ReleaseCompleted(l)
  /\ \/ ~BusyWorker(l) /\ UNCHANGED err
     \/ BusyWorker(l) /\ Primary(l, "failed")
     \/ Primary(l, "cancelled")
  /\ Finish(l) /\ UNCHANGED <<kind, typed, analytic, probing, work, intr, rt, overlay>>

-----------------------------------------------------------------------------
(* The overlay: one call of the provider at a time, beside the frames.     *)

Counted(c, f) == [c EXCEPT ![f] = @ + 1]
\* _harvest_provider.
Harvested(l) == CASE task[l] = "ok" -> Counted(cnt[l], "completions")
                  [] task[l] = "bad" -> Counted(cnt[l], "failures")
                  [] OTHER -> cnt[l]
Harvest(l) == Harvested(l)
Shown(l) == cnt[l].processed + 1
\* overlay_consumer.
Frame(l) ==
  /\ rt[l] = "running" /\ cnt[l].processed < MaxFrames
  /\ LET taken == task[l] \in {"ok", "bad", "none"}
         fresh == IF task[l] = "ok" THEN asked[l] ELSE latest[l]
         c == Counted(Harvest(l), "processed")
         calls == taken /\ c.submissions < MaxCalls
         d == Counted(c, IF ~taken THEN "busy" ELSE IF calls THEN "submissions" ELSE "capacity")
         age == Shown(l) - fresh
     IN /\ latest' = [latest EXCEPT ![l] = fresh]
        /\ task' = [task EXCEPT ![l] = IF calls THEN "new" ELSE IF taken THEN "none" ELSE @]
        /\ asked' = [asked EXCEPT ![l] = IF calls THEN Shown(l) ELSE @]
        /\ \/ /\ analytic /\ fresh # 0 /\ age \in 0..MaxStale
              /\ cnt' = [cnt EXCEPT ![l] = Counted(d, "overlay")]
              /\ oldest' = [oldest EXCEPT ![l] = IF age > @ THEN age ELSE @]
           \* nothing to draw, what there is is stale, or no box was rendered
           \/ analytic /\ cnt' = [cnt EXCEPT ![l] = Counted(d, "passthrough")] /\ UNCHANGED oldest
           \* the renderer fails
           \/ /\ analytic /\ fresh # 0 /\ age \in 0..MaxStale
              /\ cnt' = [cnt EXCEPT ![l] = Counted(Counted(d, "passthrough"), "unrendered")] /\ UNCHANGED oldest
  /\ UNCHANGED <<request, native, rt>>
\* The task's first step: the session takes the call or refuses it.
Usable(l) == shut[l] = "open" /\ l \notin intr /\ ~BusyWorker(l) /\ l \in backend
Ask(l) == /\ task[l] = "new"
          /\ IF Usable(l) THEN task' = [task EXCEPT ![l] = "called"] /\ work' = [work EXCEPT ![l] = "infer"]
             ELSE task' = [task EXCEPT ![l] = "bad"] /\ UNCHANGED work
          /\ UNCHANGED <<request, free, backend, shut, intr, rt, asked, latest, cnt, oldest>>
\* _collect's deadline: the call is abandoned, the session interrupted.
Deadline(l) == /\ task[l] = "called" /\ task' = [task EXCEPT ![l] = "bad"] /\ intr' = intr \cup {l}
               /\ UNCHANGED <<request, free, work, backend, shut, rt, asked, latest, cnt, oldest>>
\* The delivery ends: what the finally of run does with the provider task.
DeliveryOver(l) ==
  /\ rt' = [rt EXCEPT ![l] = "ended"] /\ task' = [task EXCEPT ![l] = "none"]
  /\ intr' = IF task[l] = "called" THEN intr \cup {l} ELSE intr
  /\ cnt' = [cnt EXCEPT ![l] = IF task[l] \in {"new", "called"} THEN Counted(@, "dropped") ELSE Harvested(l)]
  /\ latest' = [latest EXCEPT ![l] = IF task[l] = "ok" THEN asked[l] ELSE @]
  /\ UNCHANGED <<asked, oldest>>
DeliveryEnds(l) == rt[l] = "running" /\ DeliveryOver(l) /\ UNCHANGED <<request, free, work, backend, shut>>

-----------------------------------------------------------------------------
(* The visible runtime.                                                    *)

RuntimeStarts(l) ==
  /\ pc[l] = "start"
  /\ \/ Goto(l, "wait") /\ rt' = [rt EXCEPT ![l] = "running"] /\ UNCHANGED err
     \/ Goto(l, "close") /\ Primary(l, "failed") /\ UNCHANGED rt
  /\ UNCHANGED <<kind, typed, analytic, active, probing, native, overlay>>
RuntimeWaited(l) ==
  /\ pc[l] = "wait" /\ rt[l] = "ended" /\ Goto(l, "close")
  /\ (UNCHANGED err \/ Primary(l, "failed"))
  /\ UNCHANGED <<kind, typed, analytic, active, probing, native, rt, overlay>>
\* After runtime.close, run's finally closes an owned provider.
Onward(l) == IF work[l] = "none" THEN Finish(l) /\ UNCHANGED shut
             ELSE Goto(l, "provider") /\ shut' = [shut EXCEPT ![l] = "closing"] /\ UNCHANGED active
RuntimeClosed(l) ==
  /\ pc[l] = "close" /\ Onward(l) /\ UNCHANGED err
  /\ IF rt[l] = "running" THEN DeliveryOver(l) ELSE UNCHANGED <<rt, intr, overlay>>
  /\ UNCHANGED <<kind, typed, analytic, probing, free, work, backend>>
\* It raises or is cancelled, and its delivery may be left running.
CloseFails(l) ==
  /\ pc[l] = "close" /\ Onward(l) /\ (\E e \in {"failed", "cancelled"} : Primary(l, e))
  /\ UNCHANGED <<kind, typed, analytic, probing, free, work, backend, intr, rt, overlay>>

\* The request is cancelled at an await.
Cancel(l) ==
  /\ \/ pc[l] \in {"credential", "payload"} /\ Primary(l, "cancelled") /\ Finish(l) /\ UNCHANGED shut
     \/ /\ pc[l] = "init" /\ Primary(l, "cancelled") /\ Goto(l, "unstarted") /\ shut' = [shut EXCEPT ![l] = "closing"]
        /\ UNCHANGED active
     \/ pc[l] \in {"start", "wait"} /\ Primary(l, "cancelled") /\ Goto(l, "close") /\ UNCHANGED <<active, shut>>
  /\ UNCHANGED <<kind, typed, analytic, probing, free, work, backend, intr, rt, overlay>>

Launched(l) == \/ Rejected(l) \/ NotConfigured(l) \/ Busy(l) \/ Reserve(l) \/ Mismatch(l) \/ Authenticated(l) \/ Typed(l)
               \/ Acquire(l) \/ Build(l) \/ Ready(l) \/ NotReady(l) \/ Unstarted(l) \/ ProviderClosed(l)
               \/ RuntimeStarts(l) \/ RuntimeWaited(l) \/ RuntimeClosed(l) \/ CloseFails(l) \/ Cancel(l)
Worked(l) == ProbeEnds(l) \/ Initialized(l) \/ Inferred(l) \/ Frame(l) \/ Ask(l) \/ Deadline(l) \/ DeliveryEnds(l)
LaunchNext == \E l \in Launches : Launched(l) \/ Worked(l)
LaunchSpec == LaunchInit /\ [][LaunchNext]_launchvars

-----------------------------------------------------------------------------
(* Properties.                                                             *)

Owns(l) == work[l] # "none" /\ shut[l] # "released"
\* A slot of the coordinator is held exactly while a launch runs, and a share
\* of the native capacity exactly while a worker may still run: a launch that
\* was cancelled or gave up waiting leaves its worker counted until its call
\* ends, and once everything has ended every slot and share is back.
CapacityExact ==
  /\ active = Cardinality({l \in Launches : pc[l] \notin {"idle", "done"}}) /\ active <= MaxActive
  /\ free = MaxNative - Cardinality({l \in Launches : Owns(l)})
  /\ \A l \in Launches : /\ BusyWorker(l) => Owns(l)
                         /\ pc[l] = "done" /\ ~BusyWorker(l) => ~Owns(l)
\* Every frame of an overlay is shown once and accounted for once, every call
\* of the provider has one outcome (the one a delivery's end cancels is
\* neither completed nor failed), and boxes are never drawn over a frame more
\* than MaxStale after the one they were found in.
FramesAccounted ==
  \A l \in Launches : LET c == cnt[l] IN
    /\ c.processed = c.overlay + c.passthrough /\ c.processed = c.submissions + c.busy + c.capacity
    /\ c.submissions = c.completions + c.failures + c.dropped + (IF task[l] = "none" THEN 0 ELSE 1)
    /\ oldest[l] <= MaxStale /\ c.dropped <= 1

-----------------------------------------------------------------------------
(* What makes them inductive.                                              *)

Running == {l \in Launches : pc[l] \notin {"idle", "done"}}
Owners == {l \in Launches : Owns(l)}
Fields == {"processed", "overlay", "passthrough", "submissions", "completions", "failures", "unrendered", "busy",
           "capacity", "dropped"}
Places == {"idle", "credential", "payload", "resolved", "init", "start", "wait", "close", "unstarted", "provider",
           "done"}
LaunchType ==
  /\ active \in Nat /\ free \in Nat
  /\ pc \in [Launches -> Places] /\ work \in [Launches -> {"none", "init", "idle", "infer"}]
  /\ shut \in [Launches -> {"open", "closing", "shut", "released"}]
  /\ rt \in [Launches -> {"none", "running", "ended"}]
  /\ task \in [Launches -> {"none", "new", "called", "ok", "bad"}]
  /\ cnt \in [Launches -> [Fields -> Nat]] /\ oldest \in [Launches -> Nat]
SlotsCounted ==
  /\ active = Cardinality(Running) /\ active <= MaxActive
  /\ free = MaxNative - Cardinality(Owners)
\* Only a launch that is over has shut its session, and a session that waits for its worker's
\* call to end is one whose worker is in a call.
Session(l) ==
  /\ pc[l] \in {"idle", "credential", "payload", "resolved"} => work[l] = "none" /\ rt[l] = "none"
  /\ pc[l] \in {"init", "start"} => rt[l] = "none"
  /\ pc[l] \in {"init", "unstarted", "provider"} => work[l] # "none"
  /\ shut[l] = "closing" <=> pc[l] \in {"unstarted", "provider"}
  /\ shut[l] \in {"shut", "released"} => pc[l] = "done" /\ work[l] # "none"
  /\ pc[l] = "done" => work[l] = "none" \/ shut[l] \in {"shut", "released"}
  /\ shut[l] = "shut" => BusyWorker(l)
  /\ shut[l] = "released" => ~BusyWorker(l)
  /\ l \in backend => work[l] # "none"
\* Only a delivery that runs has a provider task, and it drops the call that is under way when it ends.
Overlay(l) ==
  /\ rt[l] # "running" => task[l] = "none"
  /\ rt[l] # "ended" => cnt[l].dropped = 0
LaunchInv == LaunchType /\ SlotsCounted /\ (\A l \in Launches : Session(l) /\ Overlay(l)) /\ FramesAccounted
=============================================================================

------------------------------ MODULE MCMedia -------------------------------
(***************************************************************************)
(* The components that own media, each in an instance small enough for     *)
(* TLC: the move of the recordings (StorageMigration), and the modules of  *)
(* recording, playback, live views, native workers and windows.            *)
(* A behaviour is about one of them: the components share no variable, so  *)
(* checking them one after the other loses nothing.  `part' names the      *)
(* component and s1, s2, ... are its variables.                            *)
(***************************************************************************)
EXTENDS StorageMigration, TLC

CONSTANTS
  Calls, MaxReplacements, MaxGenerations, MaxFrames,
  MaxCallsEach,                                 \* of PresentationSupervisor
  Exports, MaxExports, Plays, Users, ControlIds, MaxPlays,
  Chunks, MaxVersion,                           \* of RecordingReaders
  Stoppers,                                     \* of NativeProcess
  Readers, Selections, Closers, ReadSlots, MaxThreads, MaxTasks,  \* of MediaProvider
  Consumers, Sources, MaxConsumers, MaxViewThreads, MaxCuts,     \* of LiveView
  Slots, FrameGoal, MaxTotalFrames, MaxCancels,                  \* of LiveDelivery
  Launches, LaunchSlots, MaxNative, MaxShown, MaxCalls, MaxStale, \* of OperatorLaunch
  Views, Extents, MaxReplace, MaxPresent, MaxHandles,            \* of ViewportWindows
  SegmentGoal, PacketGoal, MaxSegments, RecordingSlots,
  MaxInterrupts, MaxIoFaults,                                    \* of OperatorRecording
  Modulus, TicksPerMs, Origin, Gaps, PacketCount, Numerators, Denominators,
  WorkBound, MaxDecoded, MaxTime, MaxPauses                      \* of RecordedPlayback

\* Zero stands for no stopper; the bounds are numbers.
ASSUME StoppersAssumption == 0 \notin Stoppers
ASSUME ProviderAssumption == ReadSlots \in Nat /\ MaxThreads \in Nat /\ MaxTasks \in Nat
ASSUME ReadersAssumption == {MaxExports, MaxPlays, Chunks, MaxVersion} \subseteq Nat
ASSUME SupervisorAssumption == {MaxReplacements, MaxGenerations, MaxFrames, MaxCallsEach} \subseteq Nat
ASSUME ViewAssumption == 0 \notin Consumers
ASSUME DeliveryAssumption == MaxTotalFrames \in Nat
ASSUME LaunchAssumption == IsFiniteSet(Launches) /\ {LaunchSlots, MaxNative, MaxStale} \subseteq Nat
ASSUME WindowsAssumption == Extents \subseteq Nat
ASSUME RecordingAssumption == MaxSegments \in Nat
ASSUME PlaybackAssumption ==
  /\ {Modulus, TicksPerMs, PacketCount} \cup Numerators \cup Denominators \subseteq Nat \ {0}
  /\ {Origin, WorkBound} \cup Gaps \subseteq Nat

VARIABLES
  part,  \* the component this behaviour is about
  s1, s2, s3, s4, s5, s6, s7, s8, s9, s10, s11, s12, s13, s14, s15, s16, s17, s18, s19,
  s20, s21, s22, s23, s24  \* its variables; 0 where it has fewer

\* The variables a component with n of them does not use.
After19 == <<s20, s21, s22, s23, s24>>
After18 == <<s19, After19>>
After17 == <<s18, After18>>
After15 == <<s16, s17, After17>>
After13 == <<s14, s15, After15>>
After0 == <<s1, s2, s3, s4, s5, s6, s7, s8, s9, s10, s11, s12, s13, After13>>
None19 == s20 = 0 /\ s21 = 0 /\ s22 = 0 /\ s23 = 0 /\ s24 = 0
None18 == s19 = 0 /\ None19
None17 == s18 = 0 /\ None18
None15 == s16 = 0 /\ s17 = 0 /\ None17
None13 == s14 = 0 /\ s15 = 0 /\ None15
None0 ==
  s1 = 0 /\ s2 = 0 /\ s3 = 0 /\ s4 = 0 /\ s5 = 0 /\ s6 = 0 /\ s7 = 0 /\ s8 = 0 /\
  s9 = 0 /\ s10 = 0 /\ s11 = 0 /\ s12 = 0 /\ s13 = 0 /\ None13
sumvars == <<part, After0, vars>>

\* Segments are alike, and so are the directories recordings may be moved to.
Symmetry == Permutations(Seg) \cup Permutations(Dir \ {Default})

-----------------------------------------------------------------------------
\* Two viewports; areas that are minimised, smaller and larger than a frame.
Windows == INSTANCE ViewportWindows WITH
    Slots <- Views,
    wstate <- s1, lstate <- s2, step <- s3, targets <- s4, fresh <- s5, bitmap <- s6,
    size <- s7, swaps <- s8, frames <- s9, blits <- s10, lshown <- s11, wshown <- s12,
    painted <- s13, alive <- s14, lost <- s15, used <- s16, wfaults <- s17

\* Two segments, the second one short; interruptions enough to hit every clean-up twice.
Recorder == INSTANCE OperatorRecording WITH
    MaxActive <- RecordingSlots,
    rpc <- s1, again <- s2, inner <- s3, seg <- s4, made <- s5, recorder <- s6,
    sink <- s7, packets <- s8, total <- s9, written <- s10, receipts <- s11,
    jobs <- s12, disk <- s13, own <- s14, active <- s15, cut <- s16, stuck <- s17,
    rfaults <- s18, interrupts <- s19

\* Timestamps that wrap between the packets, stand still or run backwards.
Playback == INSTANCE RecordedPlayback WITH
    MediaTimes <- Gaps \cup {-g : g \in Gaps}, Rates <- Numerators \X Denominators,
    FrameGoal <- MaxDecoded,
    times <- s1, file <- s2, described <- s3, win <- s4, rate <- s5, ppc <- s6,
    read <- s7, ticks <- s8, origin <- s9, item <- s10, got <- s11, started <- s12,
    wake <- s13, raw <- s14, pausedAt <- s15, pausedTotal <- s16, pauses <- s17,
    deadline <- s18, left <- s19, worked <- s20, frames <- s21, op <- s22,
    closer <- s23, played <- s24

\* The exports of recordings, beside one playback; and the playbacks, beside one export.
Export == INSTANCE RecordingReaders WITH
    Plays <- {1}, Users <- {1}, ControlIds <- {1}, MaxPlays <- 1,
    version <- s1, xpc <- s2, lease <- s3, checker <- s4, seen <- s5, handle <- s6,
    fd <- s7, sent <- s8, lpc <- s9, asked <- s10, playing <- s11, controls <- s12,
    held <- s13
Play == INSTANCE RecordingReaders WITH
    Exports <- {1}, MaxExports <- 1,
    version <- s1, xpc <- s2, lease <- s3, checker <- s4, seen <- s5, handle <- s6,
    fd <- s7, sent <- s8, lpc <- s9, asked <- s10, playing <- s11, controls <- s12,
    held <- s13

\* Two callers, three generations.
Supervisor == INSTANCE PresentationSupervisor WITH
    cpc <- s1, what <- s2, calls <- s3, super <- s4, replaced <- s5, host <- s6,
    gen <- s7, runtime <- s8, accounted <- s9, totals <- s10, tally <- s11, rts <- s12,
    shown <- s13

\* Two consumers that may ask for different sources.
View == INSTANCE LiveView WITH
    MaxThreads <- MaxViewThreads,
    vpc <- s1, vwhat <- s2, vsrc <- s3, vstate <- s4, leases <- s5, shared <- s6,
    sess <- s7, pipeline <- s8, playing <- s9, threads <- s10, begun <- s11,
    cuts <- s12, stray <- s13

\* Three slots that together may deliver less than each of them alone.
Delivery == INSTANCE LiveDelivery WITH
    mrun <- s1, mstate <- s2, end <- s3, task <- s4, outcome <- s5, backend <- s6,
    maker <- s7, puller <- s8, closer <- s9, frames <- s10, total <- s11,
    mcancels <- s12, orphaned <- s13

\* Two callers, one slot, a close that joins the threads.
Provider == INSTANCE MediaProvider WITH
    MaxActive <- ReadSlots,
    closed <- s1, admitted <- s2, reads <- s3, thr <- s4, snaps <- s5, task <- s6,
    good <- s7, sel <- s8, on <- s9, rpc <- s10, goal <- s11, shares <- s12,
    over <- s13, stale <- s14, closing <- s15, joining <- s16, cpc <- s17

\* Two threads that stop the same service.
Native == INSTANCE NativeProcess WITH
    win <- s1, made <- s2, owner <- s3, job <- s4, leader <- s5, inJob <- s6,
    gate <- s7, doomed <- s8, child <- s9, number <- s10, seenExit <- s11, spc <- s12,
    stopLock <- s13, stopped <- s14, foreignHit <- s15

\* Two launches for one slot and one native session.
Launch == INSTANCE OperatorLaunch WITH
    MaxActive <- LaunchSlots, MaxFrames <- MaxShown,
    kind <- s1, typed <- s2, analytic <- s3, active <- s4, pc <- s5, err <- s6,
    probing <- s7, free <- s8, work <- s9, backend <- s10, shut <- s11, intr <- s12,
    rt <- s13, task <- s14, asked <- s15, latest <- s16, cnt <- s17, oldest <- s18

-----------------------------------------------------------------------------
\* Nothing recorded, nothing moved: StorageMigration while another part is checked.
Resting == Init /\ clutter = {}

PartInit ==
  \/ part = "storage" /\ Init /\ None0
  \/ part = "windows" /\ Resting /\ Windows!Init /\ None17
  \/ part = "recording" /\ Resting /\ Recorder!RecInit /\ None19
  \/ part = "playback" /\ Resting /\ Playback!PbInit
  \/ part = "exports" /\ Resting /\ Export!RdInit /\ None13
  \/ part = "plays" /\ Resting /\ Play!RdInit /\ None13
  \/ part = "supervisor" /\ Resting /\ Supervisor!SupInit /\ None13
  \/ part = "view" /\ Resting /\ View!ViewInit /\ None13
  \/ part = "delivery" /\ Resting /\ Delivery!DelInit /\ None13
  \/ part = "provider" /\ Resting /\ Provider!ProvInit /\ None17
  \/ part = "native" /\ Resting /\ Native!NatInit /\ None15
  \/ part = "launch" /\ Resting /\ Launch!LaunchInit /\ None18
PartNext ==
  \/ part = "storage" /\ Next /\ UNCHANGED <<part, After0>>
  \/ part = "windows" /\ Windows!Next /\ UNCHANGED <<part, After17, vars>>
  \/ part = "recording" /\ Recorder!RecNext /\ UNCHANGED <<part, After19, vars>>
  \/ part = "playback" /\ Playback!PbNext /\ UNCHANGED <<part, vars>>
  \/ part = "exports" /\ Export!RdNext /\ UNCHANGED <<part, After13, vars>>
  \/ part = "plays" /\ Play!RdNext /\ UNCHANGED <<part, After13, vars>>
  \/ part = "supervisor" /\ Supervisor!SupNext /\ UNCHANGED <<part, After13, vars>>
  \/ part = "view" /\ View!ViewNext /\ UNCHANGED <<part, After13, vars>>
  \/ part = "delivery" /\ Delivery!DelNext /\ UNCHANGED <<part, After13, vars>>
  \/ part = "provider" /\ Provider!ProvNext /\ UNCHANGED <<part, After17, vars>>
  \/ part = "native" /\ Native!NatNext /\ UNCHANGED <<part, After15, vars>>
  \/ part = "launch" /\ Launch!LaunchNext /\ UNCHANGED <<part, After18, vars>>
PartSpec == PartInit /\ [][PartNext]_sumvars

-----------------------------------------------------------------------------
(* Properties.                                                             *)

\* A generation's windows and bitmaps are released however its opening fails, its
\* counters count what was shown, and a painted frame covers the client area
\* (windows_presentation_surface, windows_presentation_target).
WindowsSound ==
  part = "windows" =>
    /\ Windows!NoOrphanWindows
    /\ Windows!CountersTruthful
    /\ Windows!PaintCoversClient

\* However a recording is interrupted, what is published is whole and what was
\* finished stays (operator_recording, framed_recording, file_sink).
RecordingsWhole ==
  part = "recording" => Recorder!FinishedSegmentsKept /\ Recorder!NothingHalfRecorded

\* A playback shows the asked window, no packet before its time, times out only for
\* work and not for a pause, and keeps its native decoder while a call uses it
\* (playback_timeline, playback_pump, playback_control, gstreamer_playback_decoder).
PlaybackFaithful ==
  part = "playback" =>
    /\ Playback!WindowExact
    /\ Playback!NeverEarly
    /\ Playback!TimeoutMeansWork
    /\ Playback!NativeKeptWhileUsed

\* The slots of the exports are exact, what is sent was verified, and a pause reaches
\* the playback it names (operator_export, operator_playback).
ReadersHonest ==
  /\ part = "exports" => Export!ExportSlotsExact /\ Export!SentWasVerified
  /\ part = "plays" => Play!ControlReachesPlay

\* One generation presents at a time, a stop reaches it even while it is replaced, and
\* the reported frame count never drops (presentation_supervisor, presentation_host).
SupervisionSound ==
  [][part = "supervisor" =>
       /\ Supervisor!OneGenerationPresents'
       /\ Supervisor!StopReaches'
       /\ Supervisor!TotalsNeverDrop]_sumvars

\* Every lease sees the source it asked for, and a multi-view run that ended left no
\* task, delivered no frame too many and closed no backend under a native call
\* (live_view, session, multiview_live_presentation, gstreamer_direct_frame_delivery).
LiveRunsClean ==
  /\ part = "view" => View!LeasesSeeTheirSource /\ View!BoundaryTracksSession
  /\ part = "delivery" =>
       Delivery!RunLeavesNothing /\ Delivery!FrameBoundKept /\ Delivery!NativeExclusive

\* A read's slot is held by its thread until it is done, and a snapshot is not older than
\* the question it answers (mediamtx_provider); stopping a service stops all of its
\* process tree and nothing else, also when its owner dies half-way (native_process).
WorkersOwned ==
  /\ part = "provider" => Provider!ReadsOwned /\ Provider!SnapshotsFresh
  /\ part = "native" => Native!NothingForeignStopped /\ Native!NothingLeftRunning

\* The launches and native sessions counted are those that are there, and every
\* analysed frame is drawn, stale or given up (operator_launch, analytics_runtime,
\* analytics_overlay_delivery).
LaunchesAccounted ==
  part = "launch" => Launch!CapacityExact /\ Launch!FramesAccounted
=============================================================================

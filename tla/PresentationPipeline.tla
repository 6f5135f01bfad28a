------------------------ MODULE PresentationPipeline ------------------------
(***************************************************************************)
(* One generation of a presentation: the runtime that validates the plan,  *)
(* the controller that owns the session's task, the session, the mixed     *)
(* coordinator with one task per stream, the live and the playback         *)
(* deliveries with their decoders, and the dispatcher that hands frames to *)
(* the viewports.  All of it runs on one event loop, so an action is what  *)
(* happens between two suspension points; a timeout is an action that may  *)
(* be taken whenever the call it bounds has not ended.                     *)
(*                                                                         *)
(* Two callers use a runtime: the owner (a host or the Windows operator    *)
(* runtime), whose start, stop and close are serialised by its own lock,   *)
(* and a waiter, whose wait() overlaps them.                               *)
(***************************************************************************)
EXTENDS Naturals, FiniteSets

CONSTANTS Slots,        \* viewport slots bound at assembly
          Live,         \* the slots of the plan with a live stream
          AllowAllLive, \* allow_all_live
          MaxStreams,   \* max_streams
          MaxFrames,    \* max_total_frames, shared by coordinator and dispatcher
          None          \* nobody holds the consumer lock

ASSUME PipelineAssumption == /\ Live \subseteq Slots /\ AllowAllLive \in BOOLEAN
                             /\ MaxFrames \in Nat /\ MaxStreams \in Nat
                             /\ None \notin Slots

VARIABLES
  ctl,       \* BoundedPresentationController._state
  ref,       \* _task is not None
  task,      \* what became of the task that runs the session
  cancel,    \* task.cancel() was called and has not been delivered
  sess,      \* BoundedPresentationSession._state
  mix,       \* where BoundedMixedPresentation.run is
  stream,    \* [Slots -> where the stream's task is]
  prim,      \* [Slots -> the delivery's primary_error]
  dec,       \* [Slots -> the delivery's decoder]
  scancel,   \* the slots whose stream task was cancelled, not yet delivered
  lock,      \* the slot that holds _consumer_lock, or None
  disp,      \* BoundedViewportDispatcher._state
  bound,     \* the slots in _consumers
  frames,    \* _delivered_frames of coordinator and dispatcher
  paused,    \* PlaybackPauseControl is PAUSED
  owner,     \* where the owner's call is
  closing,   \* the owner's stop was called by close
  waiter     \* where the waiter's call is

callers == <<owner, closing, waiter>>
streams == <<stream, prim, dec, scancel, lock>>
vars == <<ctl, ref, task, cancel, sess, mix, streams, disp, bound, frames, paused, callers>>

TaskOver == task \in {"complete", "failed", "cancelled"}
Terminal == {"complete", "failed", "cancelled"}
Unfinished == {s \in Slots : stream[s] \notin Terminal}
Playback == Slots \ Live

-----------------------------------------------------------------------------
(* The runtime: configuration and plan.                                     *)

MinimumStreams == IF AllowAllLive THEN 1 ELSE 2

\* The bounds the constructor accepts; the bindings' slots are a set here,
\* so they are unique as the code demands.
ValidConfiguration == /\ MinimumStreams <= MaxStreams
                      /\ MinimumStreams <= Cardinality(Slots)
                      /\ Cardinality(Slots) <= MaxStreams
                      /\ MaxFrames >= 1

\* A plan is the set of its slots and the subset that is live.
ValidatePlan(slots, live) ==
  /\ MinimumStreams <= Cardinality(slots) /\ Cardinality(slots) <= MaxStreams
  /\ slots = Slots
  /\ live # {}
  /\ slots = live => AllowAllLive

\* The coordinator checks the plan again when the task runs.
ValidateStreams(slots, live) ==
  /\ MinimumStreams <= Cardinality(slots) /\ Cardinality(slots) <= MaxStreams
  /\ live # {} /\ (slots = live => AllowAllLive)

-----------------------------------------------------------------------------
(* Assembly.                                                                *)

Dispatcher == disp = "open" /\ bound = Slots
Coordinator == mix = "created" /\ frames = 0 /\ lock = None
LiveDelivery(s) == stream[s] = "idle" /\ prim[s] = "none" /\ dec[s] = "none"
PlaybackDelivery(s) == stream[s] = "idle" /\ prim[s] = "none" /\ dec[s] = "none"

Init == /\ ValidConfiguration
        /\ ctl = "created" /\ ref = FALSE /\ task = "none" /\ cancel = FALSE
        /\ sess = "created"
        /\ stream = [s \in Slots |-> "idle"] /\ prim = [s \in Slots |-> "none"]
        /\ dec = [s \in Slots |-> "none"] /\ scancel = {}
        /\ lock = None /\ mix = "created" /\ frames = 0
        /\ Coordinator /\ \A s \in Live : LiveDelivery(s)
        /\ \A s \in Playback : PlaybackDelivery(s)
        /\ disp = "open" /\ bound = Slots /\ Dispatcher
        /\ paused = FALSE
        /\ owner = "idle" /\ closing = FALSE /\ waiter = "idle"

-----------------------------------------------------------------------------
(* Controller and runtime calls of the owner.                               *)

\* The controller creates the session's task and returns at once.
StartTask == /\ ctl = "created"
             /\ ctl' = "running" /\ task' = "scheduled" /\ ref' = TRUE

\* start of the runtime: the plan is checked, then the controller starts.
Start(slots, live) ==
  /\ owner = "idle"
  /\ ValidatePlan(slots, live)
  /\ StartTask
  /\ UNCHANGED <<cancel, sess, mix, streams, disp, bound, frames, paused, callers>>

\* task.cancel() does nothing to a task that is over.
CancelTask == cancel' = (cancel \/ ~TaskOver)

\* stop: cancels the task, then awaits it outside the lock.
StopBegin(fromClose) ==
  /\ owner = "idle" /\ ctl = "running"
  /\ IF ref THEN /\ CancelTask /\ owner' = "stopping" /\ closing' = fromClose
                 /\ ctl' = ctl
            ELSE ctl' = "failed" /\ UNCHANGED <<cancel, owner, closing>>
  /\ UNCHANGED <<ref, task, sess, mix, streams, disp, bound, frames, paused, waiter>>

\* The shielded task is over: cancelled or complete lets stop go on, an error
\* of the session fails the controller.
StopTaskOver ==
  /\ owner = "stopping" /\ TaskOver
  /\ IF task = "failed" THEN ctl' = "failed" /\ owner' = "idle"
                        ELSE owner' = "closing_after_stop" /\ ctl' = ctl
  /\ UNCHANGED <<ref, task, cancel, sess, mix, streams, disp, bound, frames, paused, closing,
                 waiter>>

\* stop_timeout_seconds passes: the task is kept, still being cancelled.
StopTimeout ==
  /\ owner = "stopping" /\ ~TaskOver
  /\ ctl' = "failed" /\ owner' = "idle"
  /\ UNCHANGED <<ref, task, cancel, sess, mix, streams, disp, bound, frames, paused, closing,
                 waiter>>

\* The owner's own cancellation or timeout arrives here: it is swallowed, and
\* the session is closed although the task is not over.
StopInterrupted ==
  /\ owner = "stopping" /\ ~TaskOver
  /\ owner' = "closing_after_stop"
  /\ UNCHANGED <<ctl, ref, task, cancel, sess, mix, streams, disp, bound, frames, paused,
                 closing, waiter>>

\* The dispatcher forgets the consumers, whatever its state.
CloseDispatcher == /\ bound' = {}
                   /\ disp' = IF disp = "open" THEN "closed" ELSE disp

\* session.close needs the lock that run holds for as long as it runs.
RunLockFreeIgnored == TRUE
RunLockFree == task # "running"

CloseSession == /\ RunLockFree
                /\ CloseDispatcher
                /\ sess' = IF sess = "created" THEN "closed" ELSE sess

\* stop ends by closing the session; it reports STOPPED even when the task
\* completed or a waiter had already reported COMPLETE.
StopClosesSession ==
  /\ owner = "closing_after_stop"
  /\ CloseSession
  /\ ctl' = "stopped" /\ ref' = FALSE
  /\ owner' = IF closing THEN "closing" ELSE "idle"
  /\ UNCHANGED <<task, cancel, mix, streams, frames, paused, closing, waiter>>

\* The wait for the session's lock times out, or fails the cleanup.
SessionCloseTimeout ==
  /\ owner \in {"closing_after_stop", "closing"} /\ ~RunLockFree
  /\ ctl' = "failed" /\ ref' = FALSE /\ owner' = "idle"
  /\ UNCHANGED <<task, cancel, sess, mix, streams, disp, bound, frames, paused, closing, waiter>>

\* The owner is cancelled while it waits for the session's lock.
SessionCloseInterrupted ==
  /\ owner \in {"closing_after_stop", "closing"} /\ ~RunLockFree
  /\ owner' = "idle"
  /\ UNCHANGED <<ctl, ref, task, cancel, sess, mix, streams, disp, bound, frames, paused,
                 closing, waiter>>

\* close: a running presentation is stopped first (StopBegin(TRUE)).
CloseBegin ==
  /\ owner = "idle" /\ ctl \notin {"closed", "running"}
  /\ owner' = "closing"
  /\ UNCHANGED <<ctl, ref, task, cancel, sess, mix, streams, disp, bound, frames, paused,
                 closing, waiter>>

CloseEnd ==
  /\ owner = "closing"
  /\ CloseSession
  /\ ctl' = "closed" /\ ref' = FALSE /\ owner' = "idle"
  /\ UNCHANGED <<task, cancel, mix, streams, frames, paused, closing, waiter>>

-----------------------------------------------------------------------------
(* wait.                                                                    *)

\* wait takes the task handle under the lock; without one it returns at once.
WaitBegin ==
  /\ waiter = "idle" /\ ctl # "created" /\ ref
  /\ waiter' = "waiting"
  /\ UNCHANGED <<ctl, ref, task, cancel, sess, mix, streams, disp, bound, frames, paused, owner,
                 closing>>

\* A cancelled waiter leaves everything as it is: the task is shielded.
WaitCancelled ==
  /\ waiter = "waiting" /\ ~TaskOver
  /\ waiter' = "idle"
  /\ UNCHANGED <<ctl, ref, task, cancel, sess, mix, streams, disp, bound, frames, paused, owner,
                 closing>>

WaitEnd ==
  /\ waiter = "waiting" /\ TaskOver
  /\ ctl' = CASE task = "failed" -> "failed"
              [] task = "cancelled" /\ ctl = "running" -> "stopped"
              [] task = "complete" /\ ctl = "running" -> "complete"
              [] OTHER -> ctl
  /\ ref' = FALSE /\ waiter' = "idle"
  /\ UNCHANGED <<task, cancel, sess, mix, streams, disp, bound, frames, paused, owner, closing>>

-----------------------------------------------------------------------------
(* The session's task and the coordinator.                                  *)

\* A task cancelled before its first step never runs the session.
TaskCancelledEarly ==
  /\ task = "scheduled" /\ cancel
  /\ task' = "cancelled" /\ cancel' = FALSE
  /\ UNCHANGED <<ctl, ref, sess, mix, streams, disp, bound, frames, paused, callers>>

\* The coordinator starts one task per stream.
SpawnStreams == mix = "created" /\ ValidateStreams(Slots, Live) /\ mix' = "running"

\* The session runs the coordinator, once.
RunBegin ==
  /\ task = "scheduled" /\ ~cancel /\ sess = "created"
  /\ task' = "running" /\ sess' = "running" /\ SpawnStreams
  /\ UNCHANGED <<ctl, ref, cancel, streams, disp, bound, frames, paused, callers>>

\* _cancel_tasks: every stream task that is not done is cancelled and awaited.
CancelTasksLiveOnly == scancel' = Unfinished \cap Live
CancelTasks == scancel' = Unfinished

\* gather raises the first stream's failure.
RunFails ==
  /\ task = "running" /\ mix = "running" /\ ~cancel
  /\ \E s \in Slots : stream[s] = "failed"
  /\ mix' = "failing" /\ CancelTasks
  /\ UNCHANGED <<ctl, ref, task, cancel, sess, stream, prim, dec, lock, disp, bound, frames,
                 paused, callers>>

\* A cancellation of the task reaches gather, in either of its two waits.
RunCancelled ==
  /\ task = "running" /\ cancel
  /\ mix' = "cancelling" /\ CancelTasks /\ cancel' = FALSE
  /\ UNCHANGED <<ctl, ref, task, sess, stream, prim, dec, lock, disp, bound, frames, paused,
                 callers>>

\* The coordinator returns once every stream task is done; the session then
\* releases the viewports and only then takes its final state.
AllDoneNotAwaited == mix # "running" \/ Unfinished = {}
AllDone == Unfinished = {}

RunEnd ==
  /\ task = "running" /\ ~cancel /\ AllDone
  /\ mix = "running" => \A s \in Slots : stream[s] = "complete"
  /\ CloseDispatcher
  /\ LET end == CASE mix = "running" -> "complete"
                  [] mix = "failing" -> "failed"
                  [] mix = "cancelling" -> "cancelled"
     IN sess' = end /\ task' = end /\ mix' = end
  /\ UNCHANGED <<ctl, ref, cancel, streams, frames, paused, callers>>

-----------------------------------------------------------------------------
(* A stream's task: decoder, frames, decoder closed.                        *)

Rest(s) == UNCHANGED <<ctl, ref, task, cancel, sess, mix, paused, callers>>
Goto(s, st) == stream' = [stream EXCEPT ![s] = st]
Runs(s) == task = "running" /\ s \notin scancel

\* The delivery creates its decoder; one that cannot be initialised fails the
\* stream with nothing to close.
OpenDecoder(s) ==
  /\ Runs(s) /\ stream[s] = "idle"
  /\ \/ Goto(s, "open") /\ dec' = [dec EXCEPT ![s] = "open"]
     \/ Goto(s, "failed") /\ dec' = dec
  /\ UNCHANGED <<prim, scancel, lock, disp, bound, frames>> /\ Rest(s)

NewLiveDecoder(s) == s \in Live /\ OpenDecoder(s)
NewPlaybackDecoder(s) == s \in Playback /\ OpenDecoder(s)

\* A playback frame passes the pause control before it goes to its consumer.
Admitted(s) == s \in Playback => ~paused

\* A failing delivery stops, remembers its first error and closes the decoder.
FailStream(s) == Goto(s, "closing") /\ prim' = [prim EXCEPT ![s] = "error"]

\* Bad RTP timing, decoder failure or timeout, a frame bound, a lost source.
LiveError(s) ==
  /\ s \in Live /\ Runs(s) /\ stream[s] = "open"
  /\ FailStream(s)
  /\ UNCHANGED <<dec, scancel, lock, disp, bound, frames>> /\ Rest(s)

PlaybackError(s) ==
  /\ s \in Playback /\ Runs(s) /\ stream[s] = "open"
  /\ FailStream(s)
  /\ UNCHANGED <<dec, scancel, lock, disp, bound, frames>> /\ Rest(s)

\* The source ends; what the decoder flushes is delivered like any frame.
LiveEnd(s) ==
  /\ s \in Live /\ Runs(s) /\ stream[s] = "open"
  /\ Goto(s, "closing")
  /\ UNCHANGED <<prim, dec, scancel, lock, disp, bound, frames>> /\ Rest(s)

PlaybackEnd(s) ==
  /\ s \in Playback /\ Runs(s) /\ stream[s] = "open"
  /\ Goto(s, "closing")
  /\ UNCHANGED <<prim, dec, scancel, lock, disp, bound, frames>> /\ Rest(s)

\* dispatch refuses unless it is open and knows the slot.
Dispatchable(s) == disp = "open" /\ s \in bound

\* The aggregate bound on frames, checked under the consumer lock.
FrameAllowed == frames < MaxFrames

\* _deliver_frame with the consumer lock held: the bounds, then the viewport's
\* consumer.
Hand(s) == /\ IF FrameAllowed /\ Dispatchable(s)
              THEN Goto(s, "frame") /\ lock' = s /\ prim' = prim
              ELSE FailStream(s) /\ lock' = lock
           /\ UNCHANGED <<dec, scancel, disp, bound, frames>> /\ Rest(s)

\* A packet was decoded into a frame.  With the consumer lock free the frame
\* goes on in the same step; otherwise it waits for the lock, behind those
\* that wait already.
Waiting == {s \in Slots : stream[s] = "ready"}

DecodeFrame(s) ==
  /\ Runs(s) /\ stream[s] = "open" /\ Admitted(s)
  /\ IF lock = None /\ Waiting = {}
     THEN Hand(s)
     ELSE /\ Goto(s, "ready")
          /\ UNCHANGED <<prim, dec, scancel, lock, disp, bound, frames>> /\ Rest(s)

\* The lock is given to a waiting frame.
DeliverFrame(s) == Runs(s) /\ stream[s] = "ready" /\ lock = None /\ Hand(s)

\* The consumer returned: dispatcher and coordinator count the frame.
FrameShown(s) ==
  /\ Runs(s) /\ stream[s] = "frame"
  /\ Goto(s, "open") /\ lock' = None /\ frames' = frames + 1
  /\ UNCHANGED <<prim, dec, scancel, disp, bound>> /\ Rest(s)

\* The consumer raised or ran out of time: the dispatcher fails and forgets
\* every viewport.
DispatchFails(s) ==
  /\ Runs(s) /\ stream[s] = "frame"
  /\ FailStream(s) /\ lock' = None /\ disp' = "failed" /\ bound' = {}
  /\ UNCHANGED <<dec, scancel, frames>> /\ Rest(s)

\* Cancellation is delivered wherever the stream is suspended; a consumer
\* that was running is cancelled with it and the lock is given back.
StreamCancelled(s) ==
  /\ s \in scancel /\ stream[s] \in {"idle", "open", "ready", "frame", "counting"}
  /\ scancel' = scancel \ {s}
  /\ IF dec[s] = "open"
     THEN Goto(s, "closing") /\ prim' = [prim EXCEPT ![s] = "cancel"]
     ELSE Goto(s, "cancelled") /\ prim' = prim
  /\ lock' = IF lock = s THEN None ELSE lock
  /\ UNCHANGED <<dec, disp, bound, frames>> /\ Rest(s)

\* finally: the decoder is closed; a failure to close, or a cancellation that
\* interrupts it, replaces the outcome only when there was no earlier error.
AfterClose(s, outcome) ==
  CASE prim[s] = "error" -> "failed"
    [] prim[s] = "cancel" -> "cancelled"
    [] OTHER -> outcome

DecoderClosed(s) ==
  /\ s \notin scancel /\ stream[s] = "closing"
  /\ \/ Goto(s, AfterClose(s, "counting")) /\ dec' = [dec EXCEPT ![s] = "closed"]
     \/ Goto(s, AfterClose(s, "failed")) /\ dec' = [dec EXCEPT ![s] = "abandoned"]
  /\ UNCHANGED <<prim, scancel, lock, disp, bound, frames>> /\ Rest(s)

CloseInterrupted(s) ==
  /\ s \in scancel /\ stream[s] = "closing"
  /\ scancel' = scancel \ {s}
  /\ Goto(s, AfterClose(s, "cancelled")) /\ dec' = [dec EXCEPT ![s] = "abandoned"]
  /\ UNCHANGED <<prim, lock, disp, bound, frames>> /\ Rest(s)

\* A finished stream is counted under the consumer lock.
CountStream(s) ==
  /\ Runs(s) /\ stream[s] = "counting" /\ lock = None
  /\ Goto(s, "complete")
  /\ UNCHANGED <<prim, dec, scancel, lock, disp, bound, frames>> /\ Rest(s)

-----------------------------------------------------------------------------
(* PlaybackPauseControl.                                                    *)

Pause == /\ ~paused /\ Playback # {} /\ paused' = TRUE
         /\ UNCHANGED <<ctl, ref, task, cancel, sess, mix, streams, disp, bound, frames, callers>>

Resume == /\ paused /\ paused' = FALSE
          /\ UNCHANGED <<ctl, ref, task, cancel, sess, mix, streams, disp, bound, frames, callers>>

-----------------------------------------------------------------------------
StreamStep(s) ==
  \/ NewLiveDecoder(s) \/ NewPlaybackDecoder(s) \/ DecodeFrame(s)
  \/ LiveError(s) \/ PlaybackError(s) \/ LiveEnd(s) \/ PlaybackEnd(s)
  \/ DeliverFrame(s) \/ FrameShown(s) \/ DispatchFails(s)
  \/ StreamCancelled(s) \/ DecoderClosed(s) \/ CloseInterrupted(s) \/ CountStream(s)

TaskStep == TaskCancelledEarly \/ RunBegin \/ RunFails \/ RunCancelled \/ RunEnd

OwnerStep == \/ StopTaskOver \/ StopTimeout \/ StopInterrupted \/ StopClosesSession
             \/ SessionCloseTimeout \/ SessionCloseInterrupted \/ CloseEnd

Next == \/ Start(Slots, Live)
        \/ \E fromClose \in BOOLEAN : StopBegin(fromClose)
        \/ CloseBegin \/ OwnerStep
        \/ WaitBegin \/ WaitCancelled \/ WaitEnd
        \/ TaskStep
        \/ \E s \in Slots : StreamStep(s)
        \/ Pause \/ Resume

Spec == Init /\ [][Next]_vars

\* The event loop runs every ready task: the session's task, the delivery of
\* a cancellation, decoders being closed, and calls whose await is over.  The
\* end of the session is scheduled the moment its last stream is done, so
\* callers that give up and stop again cannot overtake it for ever (SF).
Fairness == /\ WF_vars(TaskStep) /\ SF_vars(RunEnd)
            /\ \A s \in Slots : /\ WF_vars(StreamCancelled(s)) /\ WF_vars(DecoderClosed(s))
                                /\ WF_vars(CloseInterrupted(s))
            /\ WF_vars(StopTaskOver) /\ WF_vars(StopClosesSession) /\ WF_vars(CloseEnd)

FairSpec == Spec /\ Fairness

-----------------------------------------------------------------------------
(* Properties.                                                              *)

\* The states are those of the code's enumerations, and the counts keep their bounds.
TypeOK ==
  /\ ctl \in {"created", "running", "complete", "stopped", "failed", "closed"}
  /\ ref \in BOOLEAN /\ cancel \in BOOLEAN /\ paused \in BOOLEAN /\ closing \in BOOLEAN
  /\ task \in {"none", "scheduled", "running"} \cup Terminal
  /\ sess \in {"created", "running", "closed"} \cup Terminal
  /\ mix \in {"created", "running", "failing", "cancelling"} \cup Terminal
  /\ stream \in [Slots -> {"idle", "open", "ready", "frame", "closing", "counting"} \cup Terminal]
  /\ prim \in [Slots -> {"none", "error", "cancel"}]
  /\ dec \in [Slots -> {"none", "open", "closed", "abandoned"}]
  /\ scancel \subseteq Slots /\ bound \subseteq Slots /\ lock \in Slots \cup {None}
  /\ disp \in {"open", "failed", "closed"} /\ frames \in 0..MaxFrames
  /\ owner \in {"idle", "stopping", "closing_after_stop", "closing"}
  /\ waiter \in {"idle", "waiting"}

\* Whatever mixture of failures, cancellations and timeouts ended the session,
\* every decoder a stream created has been told to close and nobody is left
\* holding the consumer lock; and once the owner's call has returned with the
\* presentation complete, stopped or closed, no viewport consumer is retained.
Ended == ctl \in {"complete", "stopped", "closed"}
NothingLeftOpen ==
  /\ TaskOver => (\A s \in Slots : dec[s] # "open") /\ lock = None
  /\ Ended /\ owner = "idle" => bound = {}

\* Every variable has its type, and what has ended is closed and released.
RunClean == TypeOK /\ NothingLeftOpen

\* The pipeline keeps the contract with its viewports: the refinement.
Contract == INSTANCE ViewportContract
              WITH gate <- IF disp = "open" /\ ~TaskOver THEN "open" ELSE "shut",
                   showing <- {s \in Slots : stream[s] = "frame"},
                   shown <- frames,
                   over <- Ended
KeepsContract == Contract!Spec

\* A stop that has been asked for ends, with the session's task over, unless
\* it times out: in every case the cancelled task itself comes to an end.
StopEndsTask == (owner = "stopping") ~> TaskOver
=============================================================================

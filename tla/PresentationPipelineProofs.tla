--------------------- MODULE PresentationPipelineProofs ---------------------
(***************************************************************************)
(* Theorems about PresentationPipeline, for any set of viewports, any plan *)
(* and any bound on the frames: the clean end of every run, and that the   *)
(* pipeline implements the contract with its viewports.                    *)
(***************************************************************************)
EXTENDS PresentationPipeline, TLAPS

-----------------------------------------------------------------------------
(* The inductive invariant.                                                *)

Decoding == {"open", "ready", "frame", "closing"}

\* The consumer lock is held by the stream whose frame is at its viewport, and
\* there is room for that frame in the count.
LockSound == /\ \A s \in Slots : stream[s] = "frame" <=> lock = s
             /\ lock # None => frames < MaxFrames

\* A decoder is open exactly while its stream has something to close.
DecodersSound == \A s \in Slots : dec[s] = "open" <=> stream[s] \in Decoding

\* Streams move only while the session's task runs; before and after, each has
\* not begun or has ended.  A cancellation waits only for a stream that goes on.
StreamsSound == /\ task # "running" => \A s \in Slots : stream[s] \in {"idle"} \cup Terminal
                /\ task # "running" => scancel = {}
                /\ \A s \in scancel : stream[s] \notin Terminal
                /\ task = "running" => mix \in {"running", "failing", "cancelling"}

\* A viewport is handed a frame only while the dispatcher is open, and whatever is
\* reported as ended has the gate shut.
GateSound == /\ lock # None => disp = "open"
             /\ Ended => disp # "open" \/ TaskOver
             /\ ctl = "created" => task = "none" /\ ~cancel

\* Consumers are kept after the end only by a stop that is still going to release
\* them: the one that cancelled the task before it first ran.
Stopping == owner \in {"stopping", "closing_after_stop"}
ReleaseSound == /\ task \in {"complete", "failed"} => bound = {}
                /\ task = "cancelled" /\ ctl = "running" /\ bound # {} => Stopping
                /\ task = "scheduled" /\ cancel /\ ctl = "running" => Stopping
                /\ Ended /\ bound # {} => Stopping /\ task = "cancelled"

\* The switches of controller, task, pause control and owner.
Flags == ref \in BOOLEAN /\ cancel \in BOOLEAN /\ paused \in BOOLEAN /\ closing \in BOOLEAN

IInv == TypeOK /\ LockSound /\ DecodersSound /\ StreamsSound /\ GateSound /\ ReleaseSound

-----------------------------------------------------------------------------
(* The proofs.                                                             *)

\* The assembled pipeline, before its start, satisfies the invariant.
LEMMA InvInit == Init => IInv
  <1> SUFFICES ASSUME Init PROVE IInv
    OBVIOUS
  <1>1. Flags
    BY Zenon DEF Init, Flags
  <1>2. QED
    BY <1>1, PipelineAssumption
       DEF Flags, Init, IInv, TypeOK, LockSound, DecodersSound, StreamsSound, GateSound,
           ReleaseSound, ValidConfiguration, Decoding, Terminal, Ended, TaskOver, Stopping

\* The calls of owner and waiter, and the pause control, keep the invariant.
LEMMA CallersKeepInv ==
  ASSUME IInv,
         \/ Start(Slots, Live) \/ \E fromClose \in BOOLEAN : StopBegin(fromClose)
         \/ CloseBegin \/ OwnerStep \/ WaitBegin \/ WaitCancelled \/ WaitEnd \/ Pause \/ Resume
  PROVE  IInv'
  <1> USE DEF IInv, TypeOK, LockSound, DecodersSound, StreamsSound, GateSound, ReleaseSound,
       Decoding, Terminal, Ended, TaskOver, Stopping, streams, callers
  <1>1. CASE Start(Slots, Live)
    <2>1. Flags'
      BY <1>1, Zenon DEF Start, StartTask, Flags
    <2>2. QED
      BY <1>1, <2>1 DEF Start, StartTask, Flags
  <1>2. ASSUME NEW fromClose \in BOOLEAN, StopBegin(fromClose) PROVE IInv'
    BY <1>2 DEF StopBegin, CancelTask
  <1>3. CASE StopTaskOver
    BY <1>3 DEF StopTaskOver
  <1>4. CASE StopTimeout
    BY <1>4 DEF StopTimeout
  <1>5. CASE StopInterrupted
    BY <1>5 DEF StopInterrupted
  <1>6. CASE StopClosesSession
    <2>1. Flags'
      BY <1>6, Zenon DEF StopClosesSession, CloseSession, RunLockFree, CloseDispatcher, Flags
    <2>2. QED
      BY <1>6, <2>1 DEF StopClosesSession, CloseSession, RunLockFree, CloseDispatcher, Flags
  <1>7. CASE SessionCloseTimeout
    <2>1. Flags'
      BY <1>7, Zenon DEF SessionCloseTimeout, RunLockFree, Flags
    <2>2. QED
      BY <1>7, <2>1 DEF SessionCloseTimeout, RunLockFree, Flags
  <1>8. CASE SessionCloseInterrupted
    BY <1>8 DEF SessionCloseInterrupted, RunLockFree
  <1>9. CASE CloseBegin
    BY <1>9 DEF CloseBegin
  <1>10. CASE CloseEnd
    <2>1. Flags'
      BY <1>10, Zenon DEF CloseEnd, CloseSession, RunLockFree, CloseDispatcher, Flags
    <2>2. QED
      BY <1>10, <2>1 DEF CloseEnd, CloseSession, RunLockFree, CloseDispatcher, Flags
  <1>11. CASE WaitBegin
    BY <1>11 DEF WaitBegin
  <1>12. CASE WaitCancelled
    BY <1>12 DEF WaitCancelled
  <1>13. CASE WaitEnd
    <2>1. Flags'
      BY <1>13, Zenon DEF WaitEnd, Flags
    <2>2. QED
      BY <1>13, <2>1 DEF WaitEnd, Flags
  <1>14. CASE Pause
    BY <1>14 DEF Pause
  <1>15. CASE Resume
    <2>1. Flags'
      BY <1>15, Zenon DEF Resume, Flags
    <2>2. QED
      BY <1>15, <2>1 DEF Resume, Flags
  <1>16. QED
    BY <1>1, <1>2, <1>3, <1>4, <1>5, <1>6, <1>7, <1>8, <1>9, <1>10, <1>11, <1>12, <1>13, <1>14,
       <1>15 DEF OwnerStep

\* The steps of the session's task keep the invariant.
LEMMA TaskKeepsInv ==
  ASSUME IInv, TaskStep PROVE IInv'
  <1> USE DEF IInv, TypeOK, LockSound, DecodersSound, StreamsSound, GateSound, ReleaseSound,
       Decoding, Terminal, Ended, TaskOver, Stopping, streams, callers
  <1>1. CASE TaskCancelledEarly
    <2>1. Flags'
      BY <1>1, Zenon DEF TaskCancelledEarly, Flags
    <2>2. QED
      BY <1>1, <2>1 DEF TaskCancelledEarly, Flags
  <1>2. CASE RunBegin
    BY <1>2 DEF RunBegin, SpawnStreams
  <1>3. CASE RunFails
    BY <1>3 DEF RunFails, CancelTasks, Unfinished
  <1>4. CASE RunCancelled
    <2>1. Flags'
      BY <1>4, Zenon DEF RunCancelled, CancelTasks, Unfinished, Flags
    <2>2. QED
      BY <1>4, <2>1 DEF RunCancelled, CancelTasks, Unfinished, Flags
  <1>5. CASE RunEnd
    BY <1>5 DEF RunEnd, AllDone, Unfinished, CloseDispatcher
  <1>6. QED
    BY <1>1, <1>2, <1>3, <1>4, <1>5 DEF TaskStep

\* The steps of a stream's task keep the invariant.
LEMMA StreamKeepsInv ==
  ASSUME IInv, NEW s \in Slots, StreamStep(s) PROVE IInv'
  <1> USE PipelineAssumption DEF IInv, TypeOK, LockSound, DecodersSound, StreamsSound, GateSound, ReleaseSound,
       Decoding, Terminal, Ended, TaskOver, Stopping, streams, callers, Rest, Goto, Runs, FailStream
  <1>1. CASE NewLiveDecoder(s) \/ NewPlaybackDecoder(s)
    BY <1>1 DEF NewLiveDecoder, NewPlaybackDecoder, OpenDecoder
  <1>2. CASE LiveError(s) \/ PlaybackError(s)
    BY <1>2 DEF LiveError, PlaybackError
  <1>3. CASE LiveEnd(s) \/ PlaybackEnd(s)
    BY <1>3 DEF LiveEnd, PlaybackEnd
  <1>4. CASE DecodeFrame(s)
    BY <1>4 DEF DecodeFrame, Hand, FrameAllowed, Dispatchable
  <1>5. CASE DeliverFrame(s)
    BY <1>5 DEF DeliverFrame, Hand, FrameAllowed, Dispatchable
  <1>6. CASE FrameShown(s)
    BY <1>6 DEF FrameShown
  <1>7. CASE DispatchFails(s)
    BY <1>7 DEF DispatchFails
  <1>8. CASE StreamCancelled(s)
    BY <1>8 DEF StreamCancelled
  <1>9. CASE DecoderClosed(s)
    BY <1>9 DEF DecoderClosed, AfterClose
  <1>10. CASE CloseInterrupted(s)
    BY <1>10 DEF CloseInterrupted, AfterClose
  <1>11. CASE CountStream(s)
    BY <1>11 DEF CountStream
  <1>12. QED
    BY <1>1, <1>2, <1>3, <1>4, <1>5, <1>6, <1>7, <1>8, <1>9, <1>10, <1>11 DEF StreamStep

\* The invariant holds in every reachable state.
THEOREM PipelineInvariant == Spec => []IInv
  <1>1. IInv /\ UNCHANGED vars => IInv'
    BY DEF IInv, TypeOK, LockSound, DecodersSound, StreamsSound, GateSound, ReleaseSound, Decoding,
           Terminal, Ended, TaskOver, Stopping, vars, streams, callers
  <1>2. IInv /\ Next => IInv'
    BY CallersKeepInv, TaskKeepsInv, StreamKeepsInv DEF Next
  <1>3. QED
    BY InvInit, <1>1, <1>2, PTL DEF Spec

\* RunClean: however a run ends (its streams fail, are cancelled or time out; stop and
\* close overlap it), its decoders were told to close, nobody holds the consumer lock, and
\* once the owner's call has returned no viewport consumer is kept.
THEOREM CleanRuns == Spec => []RunClean
  <1>1. IInv => RunClean
    BY PipelineAssumption DEF IInv, RunClean, NothingLeftOpen, TypeOK, LockSound, DecodersSound,
           StreamsSound, GateSound, ReleaseSound, Decoding, Terminal, Ended, TaskOver, Stopping
  <1>2. QED
    BY <1>1, PipelineInvariant, PTL

-----------------------------------------------------------------------------
(* The refinement.                                                         *)

\* A report of the end: nothing the viewports see changes, and what is reported as
\* ended has its gate shut and nobody at a viewport.
LEMMA ReportKeepsContract ==
  ASSUME IInv, IInv', UNCHANGED <<task, disp, stream, frames>>
  PROVE  [Contract!Next]_(Contract!vars)
  <1> DEFINE gate == IF disp = "open" /\ ~TaskOver THEN "open" ELSE "shut"
             showing == {s \in Slots : stream[s] = "frame"}
  <1>1. gate' = gate /\ showing' = showing /\ frames' = frames
    BY DEF TaskOver
  <1>2. Ended \in BOOLEAN /\ Ended' \in BOOLEAN
    BY DEF Ended
  <1>3. CASE Ended' = Ended
    BY <1>1, <1>3 DEF Contract!vars
  <1>4. CASE Ended' # Ended
    <2>1. Ended \/ Ended'
      BY <1>2, <1>4, Zenon
    <2>2. disp # "open" \/ TaskOver
      BY <2>1 DEF IInv, GateSound, TaskOver
    <2>3. gate = "shut"
      BY <2>2
    <2>4. showing = {}
      BY <2>2, PipelineAssumption
         DEF IInv, TypeOK, GateSound, LockSound, StreamsSound, TaskOver, Terminal
    <2>5. QED
      BY <1>1, <1>2, <2>3, <2>4 DEF Contract!Next, Contract!Report, Contract!vars
  <1>5. QED
    BY <1>3, <1>4

\* A call of the owner or the waiter releases the viewports, reports the end, or
\* changes nothing the contract speaks of.
LEMMA CallersKeepContract ==
  ASSUME IInv,
         \/ Start(Slots, Live) \/ \E fromClose \in BOOLEAN : StopBegin(fromClose)
         \/ CloseBegin \/ OwnerStep \/ WaitBegin \/ WaitCancelled \/ WaitEnd \/ Pause \/ Resume
  PROVE  [Contract!Next]_(Contract!vars)
  <1>0. IInv'
    BY CallersKeepInv
  <1> USE DEF IInv, TypeOK, LockSound, DecodersSound, StreamsSound, GateSound,
       Decoding, Terminal, Ended, TaskOver, streams, callers,
       Contract!Next, Contract!vars, Contract!Release, Contract!Report
  <1>1. CASE Start(Slots, Live)
    BY <1>1 DEF Start, StartTask
  <1>2. ASSUME NEW fromClose \in BOOLEAN, StopBegin(fromClose)
        PROVE  [Contract!Next]_(Contract!vars)
    BY <1>0, <1>2, ReportKeepsContract DEF StopBegin
  <1>3. CASE StopTaskOver
    BY <1>0, <1>3, ReportKeepsContract DEF StopTaskOver
  <1>4. CASE StopTimeout
    BY <1>0, <1>4, ReportKeepsContract DEF StopTimeout
  <1>5. CASE StopInterrupted
    BY <1>5 DEF StopInterrupted
  <1>6. CASE StopClosesSession
    BY <1>6 DEF StopClosesSession, CloseSession, RunLockFree, CloseDispatcher
  <1>7. CASE SessionCloseTimeout
    BY <1>0, <1>7, ReportKeepsContract DEF SessionCloseTimeout
  <1>8. CASE SessionCloseInterrupted
    BY <1>8 DEF SessionCloseInterrupted, RunLockFree
  <1>9. CASE CloseBegin
    BY <1>9 DEF CloseBegin
  <1>10. CASE CloseEnd
    BY <1>10 DEF CloseEnd, CloseSession, RunLockFree, CloseDispatcher
  <1>11. CASE WaitBegin \/ WaitCancelled
    BY <1>11 DEF WaitBegin, WaitCancelled
  <1>12. CASE WaitEnd
    BY <1>0, <1>12, ReportKeepsContract DEF WaitEnd
  <1>13. CASE Pause \/ Resume
    BY <1>13 DEF Pause, Resume
  <1>14. QED
    BY <1>1, <1>2, <1>3, <1>4, <1>5, <1>6, <1>7, <1>8, <1>9, <1>10, <1>11, <1>12, <1>13
       DEF OwnerStep

\* The session's task releases the viewports when it ends, and only then.
LEMMA TaskKeepsContract ==
  ASSUME IInv, TaskStep PROVE [Contract!Next]_(Contract!vars)
  <1> USE DEF IInv, TypeOK, LockSound, StreamsSound, GateSound,
       Decoding, Terminal, Ended, TaskOver, streams, callers,
       Contract!Next, Contract!vars, Contract!Release, Contract!Report
  <1>1. CASE TaskCancelledEarly
    BY <1>1 DEF TaskCancelledEarly
  <1>2. CASE RunBegin
    BY <1>2 DEF RunBegin, SpawnStreams
  <1>3. CASE RunFails
    BY <1>3 DEF RunFails
  <1>4. CASE RunCancelled
    BY <1>4 DEF RunCancelled
  <1>5. CASE RunEnd
    BY <1>5 DEF RunEnd, AllDone, Unfinished, CloseDispatcher
  <1>6. QED
    BY <1>1, <1>2, <1>3, <1>4, <1>5 DEF TaskStep

\* A stream hands a frame, has it taken, abandons it, or is none of the contract's.
LEMMA StreamKeepsContract ==
  ASSUME IInv, NEW s \in Slots, StreamStep(s) PROVE [Contract!Next]_(Contract!vars)
  <1> USE PipelineAssumption DEF IInv, TypeOK, LockSound, DecodersSound, StreamsSound, GateSound,
       Decoding, Terminal, Ended, TaskOver, streams, callers, Rest, Goto, Runs, FailStream,
       Contract!Next, Contract!vars
  <1>1. CASE NewLiveDecoder(s) \/ NewPlaybackDecoder(s)
    BY <1>1 DEF NewLiveDecoder, NewPlaybackDecoder, OpenDecoder
  <1>2. CASE LiveError(s) \/ PlaybackError(s)
    BY <1>2 DEF LiveError, PlaybackError
  <1>3. CASE LiveEnd(s) \/ PlaybackEnd(s)
    BY <1>3 DEF LiveEnd, PlaybackEnd
  <1>4. CASE DecodeFrame(s)
    BY <1>4 DEF DecodeFrame, Hand, FrameAllowed, Dispatchable, Contract!Hand
  <1>5. CASE DeliverFrame(s)
    BY <1>5 DEF DeliverFrame, Hand, FrameAllowed, Dispatchable, Contract!Hand
  <1>6. CASE FrameShown(s)
    BY <1>6 DEF FrameShown, Contract!Take
  <1>7. CASE DispatchFails(s)
    BY <1>7 DEF DispatchFails, Contract!Abandon
  <1>8. CASE StreamCancelled(s)
    BY <1>8 DEF StreamCancelled, Contract!Abandon
  <1>9. CASE DecoderClosed(s)
    BY <1>9 DEF DecoderClosed, AfterClose
  <1>10. CASE CloseInterrupted(s)
    BY <1>10 DEF CloseInterrupted, AfterClose
  <1>11. CASE CountStream(s)
    BY <1>11 DEF CountStream
  <1>12. QED
    BY <1>1, <1>2, <1>3, <1>4, <1>5, <1>6, <1>7, <1>8, <1>9, <1>10, <1>11 DEF StreamStep

\* KeepsContract: the pipeline implements the contract with its viewports.  They are handed
\* frames one at a time, at most MaxFrames of them and none after their release, and the
\* presentation is reported over only once they are released.
THEOREM PipelineKeepsContract == Spec => KeepsContract
  <1>1. Init => Contract!Init
    BY DEF Init, Contract!Init, Ended, TaskOver
  <1>2. IInv /\ UNCHANGED vars => UNCHANGED Contract!vars
    BY DEF vars, streams, callers, Contract!vars, Ended, TaskOver
  <1>3. IInv /\ Next => [Contract!Next]_(Contract!vars)
    BY CallersKeepContract, TaskKeepsContract, StreamKeepsContract DEF Next
  <1>4. QED
    BY <1>1, <1>2, <1>3, PipelineInvariant, PTL DEF Spec, KeepsContract, Contract!Spec

=============================================================================

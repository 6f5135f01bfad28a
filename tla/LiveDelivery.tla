----------------------------- MODULE LiveDelivery -----------------------------
(***************************************************************************)
(* A multi-view presentation run: one task per slot, each pulling decoded  *)
(* frames from its native backend in threads and handing them, under the   *)
(* shared consumer lock, to one consumer.  One task's failure, or the      *)
(* cancellation of the run, ends all of them; threads are never            *)
(* interrupted.  The live and the playback presentation share this shape.  *)
(***************************************************************************)
EXTENDS Integers, FiniteSets

CONSTANTS Slots, FrameGoal, MaxTotalFrames,
          MaxCancels   \* bound: cancellations of the run

VARIABLES
  mrun,       \* run: "created", "running", "cancelling", "over"
  mstate,     \* _state
  end,        \* the state run will set when its tasks are done
  task,       \* where each slot's task is
  outcome,    \* how it ended
  backend,    \* its native backend: "none", "open", "closed"
  maker,      \* slots whose backend factory runs in a thread
  puller,     \* its pull thread: "no", "want" the native lock, "in" native code
  closer,     \* its close thread
  frames,     \* frames delivered for each slot
  total,      \* _delivered_frames
  mcancels,   \* bound
  orphaned    \* history: slots whose task was cancelled while the factory ran

taskvars == <<task, outcome, frames, total>>
nativevars == <<backend, maker, puller, closer>>
delvars == <<mrun, mstate, end, taskvars, nativevars, mcancels, orphaned>>

DelInit ==
  /\ mrun = "created" /\ mstate = "created" /\ end = "none" /\ total = 0
  /\ task = [s \in Slots |-> "new"] /\ outcome = [s \in Slots |-> "none"]
  /\ backend = [s \in Slots |-> "none"] /\ maker = {}
  /\ puller = [s \in Slots |-> "no"] /\ closer = [s \in Slots |-> "no"]
  /\ frames = [s \in Slots |-> 0] /\ mcancels = 0 /\ orphaned = {}

-----------------------------------------------------------------------------
(* The threads.  A native operation holds _native_operation_lock.          *)

NativeLockFree(s) == puller[s] # "in" /\ closer[s] # "in"
Made(s) == /\ s \in maker /\ maker' = maker \ {s} /\ backend' = [backend EXCEPT ![s] = "open"]
           /\ UNCHANGED <<mrun, mstate, end, taskvars, puller, closer, mcancels, orphaned>>
PullEnters(s) == /\ puller[s] = "want" /\ NativeLockFree(s) /\ puller' = [puller EXCEPT ![s] = "in"]
                 /\ UNCHANGED <<mrun, mstate, end, taskvars, backend, maker, closer, mcancels, orphaned>>
PullReturns(s) == /\ puller[s] = "in" /\ puller' = [puller EXCEPT ![s] = "no"]
                  /\ UNCHANGED <<mrun, mstate, end, taskvars, backend, maker, closer, mcancels, orphaned>>
CloseEnters(s) == /\ closer[s] = "want" /\ NativeLockFree(s) /\ closer' = [closer EXCEPT ![s] = "in"]
                  /\ UNCHANGED <<mrun, mstate, end, taskvars, backend, maker, puller, mcancels, orphaned>>
CloseReturns(s) == /\ closer[s] = "in" /\ closer' = [closer EXCEPT ![s] = "no"]
                   /\ backend' = [backend EXCEPT ![s] = "closed"]
                   /\ UNCHANGED <<mrun, mstate, end, taskvars, maker, puller, mcancels, orphaned>>

-----------------------------------------------------------------------------
(* GStreamerDirectFrameDelivery.run under _run_stream, one slot's task.    *)

Goto(s, at) == task' = [task EXCEPT ![s] = at]
Begin(s) == /\ task[s] = "new" /\ mrun = "running" /\ Goto(s, "open") /\ maker' = maker \cup {s}
            /\ UNCHANGED <<mrun, mstate, end, outcome, frames, total, backend, puller, closer, mcancels, orphaned>>
OpenFails(s) == /\ task[s] = "open" /\ s \in maker /\ maker' = maker \ {s} /\ Goto(s, "done")
                /\ outcome' = [outcome EXCEPT ![s] = "failed"]
                /\ UNCHANGED <<mrun, mstate, end, frames, total, backend, puller, closer, mcancels, orphaned>>
\* The loop: another frame is pulled until the goal is reached.
Pulling(s) == /\ Goto(s, "pull") /\ puller' = [puller EXCEPT ![s] = "want"]
Opened(s) == /\ task[s] = "open" /\ s \notin maker /\ Pulling(s)
             /\ UNCHANGED <<mrun, mstate, end, outcome, frames, total, backend, maker, closer, mcancels, orphaned>>
\* Every way out of the loop closes the backend.
Closing(s, o) == /\ Goto(s, "close") /\ closer' = [closer EXCEPT ![s] = "want"]
                 /\ outcome' = [outcome EXCEPT ![s] = o]
\* A frame, nothing yet, or an error or the delivery's deadline.
Pulled(s) == /\ task[s] = "pull" /\ puller[s] = "no"
             /\ \/ Goto(s, "lock") /\ UNCHANGED <<outcome, puller, closer>>
                \/ Pulling(s) /\ UNCHANGED <<outcome, closer>>
                \/ Closing(s, "failed") /\ UNCHANGED puller
             /\ UNCHANGED <<mrun, mstate, end, frames, total, backend, maker, mcancels, orphaned>>
\* _deliver_frame: the bound is checked under the consumer lock.
Consuming == {s \in Slots : task[s] = "consume"}
ConsumerLockFree == Consuming = {}
Deliver(s) == /\ task[s] = "lock" /\ ConsumerLockFree
              /\ IF total < MaxTotalFrames THEN Goto(s, "consume") /\ UNCHANGED <<outcome, closer>>
                 ELSE Closing(s, "failed")
              /\ UNCHANGED <<mrun, mstate, end, frames, total, backend, maker, puller, mcancels, orphaned>>
Consumed(s) == /\ task[s] = "consume" /\ total' = total + 1 /\ frames' = [frames EXCEPT ![s] = @ + 1]
               /\ \/ frames[s] + 1 < FrameGoal /\ Pulling(s) /\ UNCHANGED <<outcome, closer>>
                  \/ frames[s] + 1 >= FrameGoal /\ Closing(s, "complete") /\ UNCHANGED puller
               /\ UNCHANGED <<mrun, mstate, end, backend, maker, mcancels, orphaned>>
ConsumerFails(s) == /\ task[s] = "consume" /\ Closing(s, "failed")
                    /\ UNCHANGED <<mrun, mstate, end, frames, total, backend, maker, puller, mcancels, orphaned>>
Closed(s) == /\ task[s] = "close" /\ closer[s] = "no" /\ Goto(s, "done")
             /\ UNCHANGED <<mrun, mstate, end, outcome, frames, total, nativevars, mcancels, orphaned>>

-----------------------------------------------------------------------------
(* run: gather, and the end of all tasks.                                  *)

RunStarts == /\ mrun = "created" /\ mrun' = "running" /\ mstate' = "running"
             /\ UNCHANGED <<end, taskvars, nativevars, mcancels, orphaned>>
\* cancel() of every task that is not done, at the await it is in.
InLoop(s) == task[s] \in {"pull", "lock", "consume"}
CancelTasks ==
  /\ task' = [s \in Slots |-> IF InLoop(s) THEN "close" ELSE "done"]
  /\ outcome' = [s \in Slots |-> IF task[s] = "done" THEN outcome[s] ELSE "cancelled"]
  /\ closer' = [s \in Slots |-> IF InLoop(s) THEN "want" ELSE closer[s]]
  /\ orphaned' = orphaned \cup {s \in Slots : task[s] = "open"}
  /\ UNCHANGED <<frames, total, backend, maker, puller>>
FailedTask == \E s \in Slots : task[s] = "done" /\ outcome[s] = "failed"
TaskFailed == /\ mrun = "running" /\ FailedTask /\ mrun' = "cancelling" /\ end' = "failed" /\ CancelTasks
              /\ UNCHANGED <<mstate, mcancels>>
CancelRun == /\ mrun = "running" /\ mcancels < MaxCancels /\ mcancels' = mcancels + 1
             /\ mrun' = "cancelling" /\ end' = "cancelled" /\ CancelTasks /\ UNCHANGED mstate
\* Cancelled again while it waits for its tasks: they are cancelled again too.
CancelAgain == /\ mrun = "cancelling" /\ mcancels < MaxCancels /\ mcancels' = mcancels + 1
               /\ end' = "running" /\ CancelTasks /\ UNCHANGED <<mrun, mstate>>
Gathered == \A s \in Slots : task[s] = "done"
GatherSkipped == TRUE
TasksDone == Gathered
RunEnds == /\ \/ mrun = "cancelling" /\ TasksDone /\ mstate' = end
              \/ mrun = "running" /\ Gathered /\ ~FailedTask /\ mstate' = "complete"
           /\ mrun' = "over" /\ UNCHANGED <<end, taskvars, nativevars, mcancels, orphaned>>

DelNext ==
  \/ \E s \in Slots : \/ Made(s) \/ PullEnters(s) \/ PullReturns(s) \/ CloseEnters(s) \/ CloseReturns(s)
                      \/ Begin(s) \/ OpenFails(s) \/ Opened(s) \/ Pulled(s) \/ Deliver(s) \/ Consumed(s)
                      \/ ConsumerFails(s) \/ Closed(s)
  \/ RunStarts \/ TaskFailed \/ CancelRun \/ CancelAgain \/ RunEnds
DelSpec == DelInit /\ [][DelNext]_delvars

-----------------------------------------------------------------------------
(* Properties.                                                             *)

\* When run returns, however often it was cancelled, no task of it is left that
\* could hand the consumer another frame, and every backend is closed or being
\* closed, except one whose factory was still running when its task was
\* cancelled: nobody closes that one.
RunLeavesNothing ==
  mrun = "over" => \A s \in Slots :
    /\ task[s] = "done"
    /\ backend[s] = "open" => closer[s] # "no" \/ s \in orphaned

\* The frame bound holds across the slots, whoever waits for the consumer, and
\* the consumer gets one frame at a time.
FrameBoundKept == total <= MaxTotalFrames /\ Cardinality(Consuming) <= 1

\* Native code is never pulled from while it is closed, although cancelling a
\* task leaves its pull thread running.
NativeExclusive == \A s \in Slots : ~(puller[s] = "in" /\ closer[s] = "in")

-----------------------------------------------------------------------------
(* What makes them inductive.                                              *)

DelType ==
  /\ mrun \in {"created", "running", "cancelling", "over"} /\ total \in Nat
  /\ task \in [Slots -> {"new", "open", "pull", "lock", "consume", "close", "done"}]
  /\ outcome \in [Slots -> {"none", "failed", "complete", "cancelled"}]
  /\ backend \in [Slots -> {"none", "open", "closed"}]
  /\ puller \in [Slots -> {"no", "want", "in"}] /\ closer \in [Slots -> {"no", "want", "in"}]
  /\ frames \in [Slots -> Nat] /\ maker \subseteq Slots /\ orphaned \subseteq Slots
\* One slot has the consumer, and there is a frame left for it.
OneConsumes ==
  /\ total <= MaxTotalFrames
  /\ \A s \in Slots : task[s] = "consume" =>
       total < MaxTotalFrames /\ \A r \in Slots : task[r] = "consume" => r = s
\* An open backend has a task that will close it, a close thread, or nobody.
BackendsOwned ==
  \A s \in Slots :
    /\ s \in maker => task[s] = "open" \/ s \in orphaned
    /\ s \in maker \/ task[s] = "new" => backend[s] = "none" /\ closer[s] = "no"
    /\ s \in orphaned => task[s] = "done"
    /\ backend[s] = "open" =>
         task[s] \in {"open", "pull", "lock", "consume"} \/ closer[s] # "no" \/ s \in orphaned
    /\ mrun = "over" => task[s] = "done"
DelInv == DelType /\ OneConsumes /\ BackendsOwned /\ NativeExclusive
=============================================================================

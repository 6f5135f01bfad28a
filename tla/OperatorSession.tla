--------------------------- MODULE OperatorSession ---------------------------
(***************************************************************************)
(* The Windows operator stack: the control session with its request queue  *)
(* and viewport history, the application with its shell, the host with its *)
(* generations and the runtime that owns one presentation and its windows. *)
(*                                                                         *)
(* Two tasks share it on one event loop.  S runs the session: controls,    *)
(* message pump, poll.  W, created anew for every generation, awaits       *)
(* application.wait, which goes through host.wait and runtime.wait to the  *)
(* presentation.  S takes the three locks from the outside in (application,*)
(* host, runtime), W asks for them one after the other from the inside     *)
(* out.  turn says which task is between two suspension points: a lock     *)
(* that is free is taken without suspending, and a lock's waiters are      *)
(* served in order.  A step of S while W is over is one action, however    *)
(* many awaits it has, since nobody can tell them apart.                   *)
(***************************************************************************)
EXTENDS Naturals, Integers, Sequences

CONSTANTS Plans,        \* sets of viewport slots: two layouts of a plan differ in geometry
          MaxX,         \* greatest coordinate a geometry accepts
          MaxGen,       \* host: _max_generations
          MaxPending,   \* control: _max_pending_controls
          MaxPerCycle,  \* control: _max_controls_per_cycle
          MaxCycles,    \* session: _max_cycles
          MaxHistory,   \* history: _max_history
          MaxOps,       \* history: _max_operations
          MaxRequests,  \* bound: requests and gestures made
          MaxFaults     \* bound: native or media calls that fail

ASSUME SessionAssumption == /\ MaxX \in Nat /\ MaxGen \in Nat \ {0} /\ MaxPending \in Nat \ {0}
                            /\ MaxPerCycle \in Nat \ {0} /\ MaxCycles \in Nat \ {0}
                            /\ MaxHistory \in Nat \ {0} /\ MaxOps \in Nat
                            /\ MaxRequests \in Nat /\ MaxFaults \in Nat

VARIABLES
  sess,     \* WindowsOperatorSession._state
  pc,       \* where S is
  turn,     \* "S", "W" or "free": the task between two suspension points
  held,     \* locks S holds: 0, 1 application, 2 and host, 3 and runtime
  wpc,      \* where W is; "done", "error" and "cancelled" are its ends
  wres,     \* what W carries outwards
  wgen,     \* the generation W was created for
  app,      \* WindowsOperatorApplication._state
  owned,    \* the application has a host (_host is not None)
  shell,    \* the top-level window
  host,     \* WindowsOperatorHost._state
  hrun,     \* generation of the host's _runtime, 0 for None
  gen,      \* host: _generation
  counted,  \* host: _accounted_generation
  ended,    \* host: _completed_generations + _stopped_generations
  rt,       \* state of the current generation's WindowsOperatorRuntime
  media,    \* its presentation runtime
  win,      \* its windows runtime
  lay,      \* application: _logical_layout
  act,      \* control: _active_layout
  hist,     \* viewport history: [layout, undo, redo, ops]
  queue,    \* control: _controls
  cur,      \* the control being processed
  ctrl,     \* controls taken in this cycle
  cycles,   \* session: _cycles
  term,     \* the terminal state the run will report
  requests, \* requests made so far
  faults    \* faults so far

control == <<act, hist, queue, cur, ctrl, cycles, term, requests>>
hostvars == <<host, hrun, gen, counted, ended, rt, media, win>>
appvars == <<app, owned, shell, lay>>
wvars == <<wpc, wres, wgen>>
vars == <<sess, pc, turn, held, wvars, appvars, hostvars, control, faults>>

NoLayout == <<"none", 0>>
Asked == Plans \X {0}    \* layouts a caller asks for; edits make the others
WOver == wpc \in {"none", "done", "error", "cancelled"}

-----------------------------------------------------------------------------
(* Viewport edits and their history.                                       *)

\* A relative edit of a slot of plan p; moving out of range is INVALID_EDIT,
\* a slot the layout does not have is SLOT_NOT_FOUND.
EditFits(layout, edit) == edit.plan = layout[1]
EditValid(layout, edit) == /\ EditFits(layout, edit)
                           /\ layout[2] + edit.d \in 0..MaxX
apply_viewport_edit(layout, edit) == <<layout[1], layout[2] + edit.d>>

NewHistory(layout) == [layout |-> layout, undo |-> <<>>, redo |-> <<>>, ops |-> 0]

RebaseKeepsStacks(h, layout) == [h EXCEPT !.layout = layout]
\* An explicitly accepted layout is the new baseline.
Rebase(h, layout) == [h EXCEPT !.layout = layout, !.undo = <<>>, !.redo = <<>>]

Push(s, x) == IF Len(s) = MaxHistory THEN Append(Tail(s), x) ELSE Append(s, x)
Last(s) == s[Len(s)]
Front(s) == SubSeq(s, 1, Len(s) - 1)

\* What the history holds once the relayout was accepted.  redo does not trim.
Applied(h, new) == [layout |-> new, undo |-> Push(h.undo, h.layout), redo |-> <<>>,
                    ops |-> h.ops + 1]
Undone(h) == [layout |-> Last(h.undo), undo |-> Front(h.undo),
              redo |-> Append(h.redo, h.layout), ops |-> h.ops + 1]
Redone(h) == [layout |-> Last(h.redo), undo |-> Append(h.undo, h.layout),
              redo |-> Front(h.redo), ops |-> h.ops + 1]

\* A request the history refuses before anything is visible.
Refused(h, c) == \/ h.ops >= MaxOps
                 \/ c.kind = "undo" /\ h.undo = <<>>
                 \/ c.kind = "redo" /\ h.redo = <<>>
Candidate(h, c) == CASE c.kind = "undo" -> Last(h.undo)
                     [] c.kind = "redo" -> Last(h.redo)
                     [] c.kind = "edit" -> apply_viewport_edit(act, c)
                     [] OTHER -> c.layout

-----------------------------------------------------------------------------
(* Releasing a generation.                                                 *)

Gone == {"none", "closed", "stuck"}

CleanupFirstOnly ==
  /\ media' \in (IF media \in Gone THEN {media} ELSE {"closed", "stuck"})
  /\ win' = (IF media' = "stuck" \/ win \in Gone THEN win ELSE "closed")
  /\ faults' = faults + (IF media' = "stuck" /\ media # "stuck" THEN 1 ELSE 0)
  /\ faults' <= MaxFaults
\* runtime._cleanup: both children are closed, whatever the other one did; a
\* close that fails leaves its child behind and is a fault.
Cleanup == /\ media' \in (IF media \in Gone THEN {media} ELSE {"closed", "stuck"})
           /\ win' \in (IF win \in Gone THEN {win} ELSE {"closed", "stuck"})
           /\ faults' = faults + (IF media' = "stuck" /\ media # "stuck" THEN 1 ELSE 0)
                               + (IF win' = "stuck" /\ win # "stuck" THEN 1 ELSE 0)
           /\ faults' <= MaxFaults
Clean == media' # "stuck" /\ win' # "stuck"

\* A generation that completed or stopped is counted once.
Account == IF counted = gen THEN UNCHANGED <<counted, ended>>
                            ELSE counted' = gen /\ ended' = ended + 1

\* Stopping a presentation may fail, and may report that it had failed.
MayFail == faults < MaxFaults \/ media = "failed"

\* host._release_current: a running generation is stopped first.  ok is FALSE
\* when stopping or closing failed; the runtime is given up either way.
Release(ok) ==
  /\ hrun' = 0
  /\ IF hrun = 0 THEN ok /\ UNCHANGED <<rt, media, win, counted, ended, faults>>
     ELSE /\ Cleanup
          /\ \/ /\ ok /\ Clean /\ (host = "running" => rt = "running")
                /\ rt' = "closed" /\ Account
             \/ /\ ~ok /\ rt' \in {"closed", "failed"}
                /\ (host = "running" /\ rt = "running") => MayFail
                /\ host # "running" => ~Clean
                /\ IF host = "running" THEN UNCHANGED <<counted, ended>> ELSE Account

\* application._close_host: the reference is dropped first, every error is
\* swallowed and reported as a failed clean-up.
CloseHost(ok) ==
  /\ owned' = FALSE
  /\ IF ~owned THEN ok /\ UNCHANGED <<host, hrun, counted, ended, rt, media, win, faults>>
     ELSE IF host \in {"ready", "closed"}
     THEN ok /\ host' = "closed" /\ UNCHANGED <<hrun, counted, ended, rt, media, win, faults>>
     ELSE Release(ok) /\ host' = (IF ok THEN "closed" ELSE "failed")

DestroyShell == shell' = (IF shell = "open" THEN "destroyed" ELSE shell)

\* application._fail_closed.
FailClosed == /\ \E ok \in BOOLEAN : CloseHost(ok)
              /\ DestroyShell /\ app' = "failed" /\ held' = 0
              /\ UNCHANGED <<gen, lay>>

\* The same after the host met the error: it has closed its runtime and failed
\* without counting the generation, and is closed in its turn.
HostFailed == /\ hrun # 0 /\ owned
              /\ Cleanup /\ rt' = "closed" /\ hrun' = 0 /\ host' = "closed"
              /\ owned' = FALSE /\ DestroyShell /\ app' = "failed" /\ held' = 0
              /\ UNCHANGED <<gen, counted, ended, lay>>

-----------------------------------------------------------------------------
(* S: the beginning of a run.                                              *)

NewRuntime == gen' = gen + 1 /\ hrun' = gen + 1 /\ rt' = "running" /\ media' = "running"
              /\ win' = "open"
NewWait == wpc' = "new" /\ wres' = "none" /\ wgen' = gen'

Init == /\ sess = "ready" /\ pc = "idle" /\ turn = "free" /\ held = 0
        /\ wpc = "none" /\ wres = "none" /\ wgen = 0
        /\ app = "ready" /\ owned = FALSE /\ shell = "none"
        /\ host = "ready" /\ hrun = 0 /\ gen = 0 /\ counted = 0 /\ ended = 0
        /\ rt = "none" /\ media = "none" /\ win = "none"
        /\ lay = NoLayout /\ act = NoLayout /\ hist = NewHistory(NoLayout)
        /\ queue = <<>> /\ cur = [kind |-> "none"] /\ ctrl = 0 /\ cycles = 0
        /\ term = "none" /\ requests = 0 /\ faults = 0

\* An error, or a cancellation, leaves the loop; cancelled: the reason.
Raise(reason) == pc' = "failing" /\ term' = reason /\ turn' = "S"

\* application.open: the shell is created, or the application has failed.
Open(ok) == IF ok THEN shell' = "open" /\ app' = "open" /\ faults' = faults
                  ELSE shell' = "none" /\ app' = "failed" /\ faults' = faults + 1 /\ faults' <= MaxFaults

RunBegin(ok) == /\ sess = "ready" /\ sess' = "running"
                /\ Open(ok)
                /\ IF ok THEN pc' = "starting" /\ turn' = "free" /\ UNCHANGED term
                         ELSE Raise("failed")
                /\ UNCHANGED <<held, wvars, owned, lay, hostvars, act, hist, queue, cur, ctrl,
                               cycles, requests>>

\* application.start, host.start and runtime.start.
StartOk(layout) ==
  /\ pc = "starting" /\ turn = "free"
  /\ app' = "running" /\ owned' = TRUE /\ host' = "running" /\ NewRuntime /\ NewWait
  /\ lay' = layout /\ act' = layout /\ hist' = NewHistory(layout)
  /\ pc' = "loop" /\ turn' = "S"
  /\ UNCHANGED <<sess, held, shell, counted, ended, queue, cur, ctrl, cycles, term, requests,
                 faults>>

StartFails(reason) ==
  /\ pc = "starting" /\ turn = "free"
  /\ owned' = FALSE /\ app' = "failed" /\ DestroyShell
  /\ reason = "failed" => faults < MaxFaults
  /\ faults' = faults + (IF reason = "failed" THEN 1 ELSE 0)
  /\ Raise(reason)
  /\ UNCHANGED <<sess, held, wvars, lay, hostvars, act, hist, queue, cur, ctrl, cycles, requests>>

-----------------------------------------------------------------------------
(* Requests.                                                               *)

Edits == [kind : {"edit"}, plan : Plans, d : {-1, 1}, pointer : BOOLEAN]
Controls == [kind : {"stop", "undo", "redo"}] \cup Edits
              \cup [kind : {"relayout", "replace"}, layout : Asked]

\* request_*: refused unless the session runs and the queue has room.
Enqueue(c) ==
  /\ turn = "free" /\ requests < MaxRequests
  /\ sess = "running" /\ pc \notin {"closing", "done"}
  /\ c.kind = "edit" => ~c.pointer
  /\ Len(queue) < MaxPending
  /\ queue' = Append(queue, c) /\ requests' = requests + 1
  /\ UNCHANGED <<sess, pc, turn, held, wvars, appvars, hostvars, act, hist, cur, ctrl, cycles,
                 term, faults>>

-----------------------------------------------------------------------------
(* S: the loop.                                                            *)

CancelWaitOmitted == UNCHANGED wvars
\* _cancel_wait_task: W is cancelled where it waits; inside a clean-up it
\* swallows the cancellation and goes on.
CancelWait == /\ wpc' \in (IF WOver THEN {wpc}
                           ELSE IF wres = "error" /\ wpc # "rt"
                           THEN {wpc} \cup (IF app = "failed" THEN {"cancelled"} ELSE {})
                           ELSE {"cancelled"})
              /\ UNCHANGED <<wres, wgen>>

\* S may not overtake W in the line for a lock.
Behind(level) == wpc = level /\ wres # "error"
Resume == turn \in {"S", "free"}
TurnAt(level) == turn' = (IF Behind(level) THEN "free" ELSE "S")

\* _process_controls takes the next request; a gesture the layout refuses is
\* dropped, any other refused request ends the run.
TakeStop == /\ Head(queue).kind = "stop" /\ CancelWait /\ pc' = "stop" /\ turn' = "free"
            /\ UNCHANGED <<term, act>>
TakeReplace == /\ Head(queue).kind = "replace" /\ CancelWait /\ pc' = "replace" /\ turn' = "free"
               /\ UNCHANGED <<term, act>>
TakeRelayout == /\ Head(queue).kind = "relayout" /\ pc' = "rl_app" /\ TurnAt("app")
                /\ UNCHANGED <<wvars, term, act>>
TakeHistory == /\ Head(queue).kind \in {"undo", "redo"}
               /\ IF Refused(hist, Head(queue)) THEN Raise("failed")
                  ELSE pc' = "rl_app" /\ TurnAt("app") /\ term' = term
               /\ UNCHANGED <<wvars, act>>
TakeEdit == LET c == Head(queue) IN
  /\ c.kind = "edit"
  /\ IF ~EditValid(act, c)
     THEN IF c.pointer /\ EditFits(act, c) THEN pc' = "loop" /\ turn' = "S" /\ term' = term
                                          ELSE Raise("failed")
     ELSE IF Refused(hist, c) THEN Raise("failed")
                              ELSE pc' = "rl_app" /\ TurnAt("app") /\ term' = term
  /\ UNCHANGED <<wvars, act>>

TakeControl ==
  /\ pc = "loop" /\ Resume /\ queue # <<>> /\ ctrl < MaxPerCycle
  /\ \/ TakeStop \/ TakeReplace \/ TakeRelayout \/ TakeHistory \/ TakeEdit
  /\ cur' = Head(queue) /\ queue' = Tail(queue) /\ ctrl' = ctrl + 1
  /\ UNCHANGED <<sess, held, appvars, hostvars, hist, cycles, requests, faults>>

\* Nothing to process: on to the pump.
ControlsDone ==
  /\ pc = "loop" /\ Resume /\ (queue = <<>> \/ ctrl = MaxPerCycle)
  /\ pc' = "pump" /\ TurnAt("app") /\ ctrl' = 0 /\ cur' = [kind |-> "none"]
  /\ UNCHANGED <<sess, held, wvars, appvars, hostvars, act, hist, queue, cycles, term, requests,
                 faults>>

-----------------------------------------------------------------------------
(* S: relayout, through the three locks.                                   *)

RelayoutApp ==
  /\ pc = "rl_app" /\ Resume /\ ~Behind("app")
  /\ IF app = "running" /\ owned THEN held' = 1 /\ pc' = "rl_host" /\ TurnAt("host") /\ term' = term
                                 ELSE Raise("failed") /\ held' = held
  /\ UNCHANGED <<sess, wvars, appvars, hostvars, act, hist, queue, cur, ctrl, cycles, requests,
                 faults>>

\* The layout S asks for: the pump asks for the accepted one again.
Wanted == IF cur.kind = "none" THEN lay ELSE Candidate(hist, cur)

RelayoutHost ==
  /\ pc = "rl_host" /\ Resume /\ ~Behind("host")
  /\ IF host = "running" /\ hrun # 0
     THEN held' = 2 /\ pc' = "rl_rt" /\ TurnAt("rt") /\ UNCHANGED <<appvars, hostvars, faults, term>>
     ELSE FailClosed /\ Raise("failed")
  /\ UNCHANGED <<sess, wvars, act, hist, queue, cur, ctrl, cycles, requests>>

\* The runtime refuses unless it runs and the slots stay the same; the host
\* answers a refusal by closing the runtime.
RelayoutRuntime ==
  /\ pc = "rl_rt" /\ Resume /\ ~Behind("rt")
  /\ IF rt = "running" /\ Wanted[1] = lay[1]
     THEN held' = 3 /\ pc' = "rl_win" /\ turn' = "free" /\ UNCHANGED <<appvars, hostvars, faults, term>>
     ELSE HostFailed /\ Raise("failed")
  /\ UNCHANGED <<sess, wvars, act, hist, queue, cur, ctrl, cycles, requests>>

\* The windows accepted the geometry: the application, the control and the
\* history follow.
Accepted == CASE cur.kind = "undo" -> Undone(hist)
              [] cur.kind = "redo" -> Redone(hist)
              [] cur.kind = "edit" -> Applied(hist, Wanted)
              [] cur.kind = "none" -> hist
              [] OTHER -> Rebase(hist, Wanted)
RelayoutOk ==
  /\ pc = "rl_win" /\ turn = "free"
  /\ lay' = Wanted /\ hist' = Accepted
  /\ act' = (IF cur.kind = "none" THEN act ELSE Wanted)
  /\ held' = 0 /\ turn' = "S"
  /\ pc' = (IF cur.kind = "none" THEN "check" ELSE "loop")
  /\ cycles' = (IF cur.kind = "none" THEN cycles + 1 ELSE cycles)
  /\ UNCHANGED <<sess, wvars, app, owned, shell, hostvars, queue, cur, ctrl, term, requests,
                 faults>>

\* The call fails, times out or S is cancelled in it.
RelayoutFails(reason) ==
  /\ pc = "rl_win" /\ turn = "free"
  /\ HostFailed /\ Raise(reason)
  /\ UNCHANGED <<sess, wvars, act, hist, queue, cur, ctrl, cycles, requests>>

-----------------------------------------------------------------------------
(* S: the message pump.                                                    *)

Pumpable == app \in {"open", "running", "complete", "stopped"} /\ shell = "open"

PumpQuiet ==   \* nothing but messages, or a resize with no running generation
  /\ pc = "pump" /\ Resume /\ ~Behind("app") /\ Pumpable
  /\ pc' = "check" /\ turn' = "S" /\ cycles' = cycles + 1
  /\ UNCHANGED <<sess, held, wvars, appvars, hostvars, act, hist, queue, cur, ctrl, term,
                 requests, faults>>

PumpResized == \* the client area changed: the targets follow
  /\ pc = "pump" /\ Resume /\ ~Behind("app") /\ Pumpable
  /\ app = "running" /\ owned /\ host = "running"
  /\ held' = 1 /\ pc' = "rl_host" /\ TurnAt("host")
  /\ UNCHANGED <<sess, wvars, appvars, hostvars, control, faults>>

PumpClose ==   \* the user closes the window
  /\ pc = "pump" /\ Resume /\ ~Behind("app") /\ Pumpable
  /\ held' = 1 /\ pc' = "close_host" /\ TurnAt("host")
  /\ UNCHANGED <<sess, wvars, appvars, hostvars, control, faults>>

PumpRefused == \* W failed the application meanwhile
  /\ pc = "pump" /\ Resume /\ ~Behind("app") /\ ~Pumpable
  /\ Raise("failed")
  /\ UNCHANGED <<sess, held, wvars, appvars, hostvars, act, hist, queue, cur, ctrl, cycles,
                 requests, faults>>

PumpFails ==   \* the native pump fails or its limit is reached
  /\ pc = "pump" /\ Resume /\ ~Behind("app") /\ Pumpable /\ faults < MaxFaults
  /\ FailClosed /\ Raise("failed")
  /\ UNCHANGED <<sess, wvars, act, hist, queue, cur, ctrl, cycles, requests>>

\* host.close under the application's lock; a running generation is stopped
\* under the host's lock, and W, if it ends now, waits for that lock.
CloseHostBegin ==
  /\ pc = "close_host" /\ Resume /\ ~Behind("host")
  /\ held' = 2 /\ pc' = "close_rt" /\ TurnAt("rt")
  /\ UNCHANGED <<sess, wvars, appvars, hostvars, control, faults>>

CloseRuntimeBegin ==
  /\ pc = "close_rt" /\ Resume /\ ~Behind("rt")
  /\ held' = 3 /\ pc' = "close_wait" /\ turn' = "free"
  /\ UNCHANGED <<sess, wvars, appvars, hostvars, control, faults>>

\* The pump's answer: CLOSED, and S cancels W before W can act on it; or the
\* clean-up failed, also when S was cancelled in it.
UserClosed(ok) ==
  /\ pc = "close_wait" /\ turn = "free"
  /\ CloseHost(ok) /\ DestroyShell /\ held' = 0
  /\ IF ok THEN /\ app' = "closed" /\ term' = "user_closed" /\ cycles' = cycles + 1
                /\ CancelWait /\ pc' = "ending" /\ turn' = "free"
           ELSE /\ app' = "failed" /\ Raise("failed") /\ UNCHANGED <<cycles, wvars>>
  /\ UNCHANGED <<sess, gen, lay, act, hist, queue, cur, ctrl, requests>>

-----------------------------------------------------------------------------
(* S: after the pump.                                                      *)

\* A gesture that ended in this batch becomes an edit of the layout shown; a
\* full queue ends the run.
PointerUp(c) ==
  /\ pc = "check" /\ turn = "S" /\ requests < MaxRequests
  /\ c.kind = "edit" /\ c.pointer /\ EditFits(act, c)
  /\ requests' = requests + 1
  /\ IF Len(queue) < MaxPending THEN queue' = Append(queue, c) /\ UNCHANGED <<pc, term, turn>>
                                ELSE Raise("failed") /\ queue' = queue
  /\ UNCHANGED <<sess, held, wvars, appvars, hostvars, act, hist, cur, ctrl, cycles, faults>>

CheckWait ==
  /\ pc = "check" /\ turn = "S"
  /\ CASE wpc = "done" -> pc' = "ending" /\ term' = "complete" /\ turn' = "free"
       [] wpc \in {"error", "cancelled"} -> Raise("failed")
       [] OTHER -> pc' = "sleep" /\ turn' = "free" /\ term' = term
  /\ UNCHANGED <<sess, held, wvars, appvars, hostvars, act, hist, queue, cur, ctrl, cycles,
                 requests, faults>>

\* The poll interval is over: another cycle, or the limit.
Wake ==
  /\ pc = "sleep" /\ turn = "free"
  /\ IF cycles < MaxCycles THEN pc' = "loop" /\ turn' = "S" /\ UNCHANGED wvars
                           ELSE pc' = "limit" /\ turn' = "free" /\ CancelWait
  /\ UNCHANGED <<sess, held, appvars, hostvars, control, faults>>

-----------------------------------------------------------------------------
(* S: stop, replace and the limit; W is over in all three.                 *)

StopRuntime == /\ Cleanup /\ Clean /\ rt' = "stopped" /\ host' = "stopped" /\ app' = "stopped"
               /\ Account /\ UNCHANGED <<hrun, gen, owned, shell, lay, held>>

Stoppable == app = "running" /\ owned /\ host = "running" /\ rt = "running"

\* application.stop of a control request: refused outside RUNNING, and any
\* error below closes everything.
StopControl ==
  /\ pc = "stop" /\ turn = "free" /\ WOver
  /\ \/ /\ Stoppable /\ StopRuntime /\ pc' = "ending" /\ term' = "complete" /\ turn' = "free"
     \/ /\ app = "running" /\ (Stoppable => MayFail) /\ HostFailed /\ Raise("failed")
     \/ /\ app # "running" /\ Raise("failed") /\ UNCHANGED <<appvars, hostvars, held, faults>>
  /\ UNCHANGED <<sess, wvars, act, hist, queue, cur, ctrl, cycles, requests>>

StopAtLimit ==
  /\ pc = "limit" /\ turn = "free" /\ WOver
  /\ \/ Stoppable /\ StopRuntime
     \/ app = "running" /\ (Stoppable => MayFail) /\ HostFailed
     \/ app # "running" /\ UNCHANGED <<appvars, hostvars, held, faults>>
  /\ Raise("failed")
  /\ UNCHANGED <<sess, wvars, act, hist, queue, cur, ctrl, cycles, requests>>

\* application.replace: the prior generation is released before its successor
\* opens; the history starts again from the new layout.
Replaceable == app \in {"running", "complete", "stopped"} /\ owned
ReplaceOk ==
  /\ pc = "replace" /\ turn = "free" /\ WOver /\ Replaceable
  /\ host \in {"running", "complete", "stopped"} /\ gen < MaxGen
  /\ host = "running" => rt = "running"
  /\ media \notin {"stuck"} /\ win \notin {"stuck"}
  /\ Account /\ NewRuntime /\ NewWait
  /\ host' = "running" /\ app' = "running"
  /\ lay' = cur.layout /\ act' = cur.layout /\ hist' = Rebase(hist, cur.layout)
  /\ pc' = "loop" /\ turn' = "S"
  /\ UNCHANGED <<sess, held, owned, shell, queue, cur, ctrl, cycles, term, requests, faults>>

\* The prior generation is released and counted, its successor does not start.
SuccessorFails ==
  /\ host \in {"running", "complete", "stopped"} /\ (host = "running" => rt = "running")
  /\ Cleanup /\ Clean /\ Account /\ rt' = "closed" /\ hrun' = 0 /\ host' = "closed"
  /\ gen' = gen + 1 /\ owned' = FALSE /\ DestroyShell /\ app' = "failed"
  /\ UNCHANGED <<lay, held>>

\* At the generation limit, or when releasing or starting fails.
ReplaceFails ==
  /\ pc = "replace" /\ turn = "free" /\ WOver
  /\ \/ ~Replaceable /\ UNCHANGED <<appvars, hostvars, held, faults>>
     \/ Replaceable /\ gen = MaxGen /\ FailClosed
     \/ /\ Replaceable /\ gen < MaxGen /\ HostFailed
        /\ (host = "running" /\ rt # "running") \/ MayFail
     \/ /\ Replaceable /\ gen < MaxGen /\ faults < MaxFaults /\ SuccessorFails
  /\ Raise("failed")
  /\ UNCHANGED <<sess, wvars, act, hist, queue, cur, ctrl, cycles, requests>>

\* The caller cancels the run where S sleeps or waits for the application's
\* lock, or in stop or replace.  While S awaits W's end it is swallowed.
Cancelled ==
  /\ turn = "free"
  /\ \/ /\ pc \in {"sleep", "rl_app", "pump"} /\ UNCHANGED <<appvars, hostvars, held, faults>>
     \/ /\ pc = "rl_host" /\ FailClosed
     \/ /\ pc \in {"rl_rt", "stop", "replace"} /\ (pc # "rl_rt" => WOver) /\ app = "running"
        /\ HostFailed
  /\ Raise("cancelled")
  /\ UNCHANGED <<sess, wvars, act, hist, queue, cur, ctrl, cycles, requests>>

-----------------------------------------------------------------------------
(* S: the end of the run.                                                  *)

\* An error or a cancellation: W is cancelled first.
Failing ==
  /\ pc = "failing" /\ turn = "S"
  /\ CancelWait /\ pc' = "ending" /\ turn' = "free"
  /\ UNCHANGED <<sess, held, appvars, hostvars, control, faults>>

\* _close_application and the result; the controls left are dropped.
CloseApplication(ok) ==
  /\ pc = "ending" /\ turn = "free" /\ WOver
  /\ IF app = "closed" THEN ok /\ UNCHANGED <<app, owned, shell, host, hrun, counted, ended, rt,
                                              media, win, faults>>
     ELSE CloseHost(ok) /\ DestroyShell /\ app' = (IF ok THEN "closed" ELSE "failed")
  /\ sess' = (IF ok THEN term ELSE "failed")
  /\ queue' = <<>> /\ pc' = "done" /\ turn' = "free"
  /\ UNCHANGED <<held, wvars, gen, lay, act, hist, cur, ctrl, cycles, term, requests>>

\* session.close outside a run.
Close ==
  /\ sess \notin {"running", "closed"} /\ turn = "free"
  /\ sess' = "closed"
  /\ UNCHANGED <<pc, turn, held, wvars, appvars, hostvars, control, faults>>

-----------------------------------------------------------------------------
(* W: application.wait.                                                    *)

MediaEnds(how) == /\ media = "running" /\ rt = "running" /\ turn = "free" /\ media' = how
                  /\ how = "failed" => faults < MaxFaults
                  /\ faults' = faults + (IF how = "failed" THEN 1 ELSE 0)
                  /\ UNCHANGED <<sess, pc, turn, held, wvars, appvars, host, hrun, gen, counted,
                                 ended, rt, win, control>>

WFree(level) == held < level
WTurn(level) == turn' = (IF WFree(level) THEN "W" ELSE "free")

WaitBegin ==
  /\ wpc = "new" /\ turn = "free" /\ held = 0
  /\ wpc' = (IF app = "running" THEN "media" ELSE "error") /\ UNCHANGED <<wres, wgen>>
  /\ UNCHANGED <<sess, pc, turn, held, appvars, hostvars, control, faults>>

\* The presentation is over, or was stopped or closed by S.
WaitMedia(r) ==
  /\ wpc = "media" /\ turn = "free" /\ media # "running"
  /\ r \in (CASE media = "complete" -> {"complete"} [] media = "failed" -> {"error"}
               [] OTHER -> {"stopped", "error"})
  /\ wpc' = "rt" /\ wres' = r /\ WTurn(3)
  /\ UNCHANGED <<sess, pc, held, wgen, appvars, hostvars, control, faults>>

Resumed == turn \in {"W", "free"}

\* runtime.wait: the result counts only if the runtime still has this
\* presentation.
WaitRuntime ==
  /\ wpc = "rt" /\ Resumed /\ WFree(3)
  /\ wpc' = "host" /\ wgen' = wgen
  /\ IF wres = "error"
     THEN /\ IF rt = "running" /\ hrun = wgen THEN Cleanup /\ rt' = "failed"
                                             ELSE UNCHANGED <<rt, media, win, faults>>
          /\ wres' = wres /\ turn' = "free"
     ELSE /\ IF rt = "running" /\ hrun = wgen THEN rt' = wres /\ wres' = wres
                                             ELSE rt' = rt /\ wres' = "error"
          /\ WTurn(2) /\ UNCHANGED <<media, win, faults>>
  /\ UNCHANGED <<sess, pc, held, appvars, host, hrun, gen, counted, ended, control>>

SameRuntime == hrun = wgen
\* host.wait: an error closes the runtime the host still has, and fails the
\* host; a result is counted.
WaitHost ==
  /\ wpc = "host" /\ Resumed /\ WFree(2)
  /\ wpc' = "app" /\ wgen' = wgen
  /\ IF wres = "error"
     THEN /\ IF SameRuntime THEN /\ Cleanup /\ rt' = "closed" /\ hrun' = 0 /\ host' = "failed"
                            ELSE UNCHANGED <<rt, media, win, faults, hrun, host>>
          /\ wres' = wres /\ turn' = "free" /\ UNCHANGED <<counted, ended>>
     ELSE /\ IF SameRuntime THEN host' = wres /\ Account /\ wres' = wres
                            ELSE wres' = "error" /\ UNCHANGED <<host, counted, ended>>
          /\ WTurn(1) /\ UNCHANGED <<rt, media, win, faults, hrun>>
  /\ UNCHANGED <<sess, pc, held, appvars, gen, control>>

\* application.wait: an error closes whatever host the application has.
WaitApp ==
  /\ wpc = "app" /\ Resumed /\ WFree(1)
  /\ wres' = wres /\ wgen' = wgen /\ turn' = "free"
  /\ IF wres = "error" THEN FailClosed /\ wpc' = "error"
     ELSE /\ IF owned THEN app' = wres /\ wpc' = "done" ELSE app' = app /\ wpc' = "error"
          /\ UNCHANGED <<owned, shell, lay, hostvars, held, faults>>
  /\ UNCHANGED <<sess, pc, control>>

-----------------------------------------------------------------------------
Session == \/ \E ok \in BOOLEAN : RunBegin(ok) \/ UserClosed(ok) \/ CloseApplication(ok)
           \/ \E l \in Asked : StartOk(l)
           \/ \E r \in {"failed", "cancelled"} : StartFails(r) \/ RelayoutFails(r)
           \/ TakeControl \/ ControlsDone
           \/ RelayoutApp \/ RelayoutHost \/ RelayoutRuntime \/ RelayoutOk
           \/ PumpQuiet \/ PumpResized \/ PumpClose \/ PumpRefused \/ PumpFails
           \/ CloseHostBegin \/ CloseRuntimeBegin
           \/ \E c \in Edits : PointerUp(c)
           \/ CheckWait \/ Wake
           \/ StopControl \/ StopAtLimit \/ ReplaceOk \/ ReplaceFails
           \/ Failing
Wait == \/ WaitBegin
        \/ \E r \in {"complete", "stopped", "error"} : WaitMedia(r)
        \/ WaitRuntime \/ WaitHost \/ WaitApp
Next == \/ Session \/ Wait \/ Cancelled \/ Close
        \/ \E c \in Controls : Enqueue(c)
        \/ \E how \in {"complete", "failed"} : MediaEnds(how)

Spec == Init /\ [][Next]_vars

\* Both tasks run, every call they await ends or times out, and the loop polls.
FairSpec == Spec /\ WF_vars(Session) /\ WF_vars(Wait)

-----------------------------------------------------------------------------
(* Properties.                                                             *)

\* The states are those of the code's enumerations, the queue and the history
\* keep their bounds, and S holds locks only inside a call.
TypeOK ==
  /\ sess \in {"ready", "running", "complete", "user_closed", "cancelled", "failed", "closed"}
  /\ turn \in {"S", "W", "free"} /\ held \in 0..3
  /\ (held > 0) = (pc \in {"rl_host", "rl_rt", "rl_win", "close_host", "close_rt", "close_wait"})
  /\ app \in {"ready", "open", "running", "complete", "stopped", "closed", "failed"}
  /\ host \in {"ready", "running", "complete", "stopped", "closed", "failed"}
  /\ rt \in {"none", "running", "complete", "stopped", "closed", "failed"}
  /\ media \in {"none", "running", "complete", "failed", "closed", "stuck"}
  /\ win \in {"none", "open", "closed", "stuck"} /\ shell \in {"none", "open", "destroyed"}
  /\ hrun \in {0, gen} /\ gen \in 0..MaxGen
  /\ Len(queue) <= MaxPending /\ Len(hist.undo) <= MaxHistory /\ hist.ops <= MaxOps
  /\ cycles <= MaxCycles /\ faults <= MaxFaults

\* "always release it before returning" (windows_operator_session.py run): a
\* run that returned has destroyed the shell, closed or tried to close the
\* presentation and the windows of every generation, ended the task that
\* waits, and kept no request.  If it says it completed, nothing was left
\* behind; if it says it was closed by the user, neither, unless the
\* generation had failed by itself first: what its own clean-up could not
\* close is then reported to nobody (_fail_closed, _close_runtime_after_failure).
\* The shell outlives the windows in it.
NothingLeftBehind ==
  /\ pc = "done" => /\ shell # "open" /\ media \in Gone /\ win \in Gone /\ hrun = 0
                    /\ WOver /\ queue = <<>> /\ held = 0
  /\ sess = "complete" => media = "closed" /\ win = "closed"
  /\ sess = "user_closed" => (media = "closed" /\ win = "closed") \/ wres = "error"
  /\ win = "open" => shell = "open"

\* The layout the windows show, the one the next edit starts from and the one
\* undo and redo start from are the same whenever a request is taken, across
\* refused edits, resizes and replaced generations; and every layout that undo
\* or redo can bring back has the slots of the running generation.
LayoutsAgree ==
  /\ (pc \in {"loop", "pump", "check", "sleep"} /\ app = "running") => lay = act /\ lay = hist.layout
  /\ \A s \in {hist.undo, hist.redo} : \A i \in DOMAIN s : s[i][1] = act[1]

\* The task that waits belongs to the current generation, so its failure can
\* never close a later one; a generation is counted at most once, and when
\* the run completed every generation was.
GenerationsCounted ==
  /\ ~WOver => wgen = gen
  /\ ended <= gen /\ counted <= gen
  /\ sess = "complete" => ended = gen

\* Types, clean-up and the account of the generations.
SessionSound == TypeOK /\ NothingLeftBehind /\ GenerationsCounted

\* A run ends: no request, race of the two tasks for the locks or lost
\* cancellation keeps it going for ever.
SessionEnds == (sess = "running") ~> (pc = "done")
=============================================================================

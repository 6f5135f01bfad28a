------------------------------- MODULE AuditLog -------------------------------
(***************************************************************************)
(* The operational audit: the SQLite log with its digest chain and bounded *)
(* retention, the anchor in the account database that makes its file       *)
(* mandatory, the middleware that writes an attempt before and an outcome  *)
(* after every audited request, and the process around them, which may     *)
(* crash at any step.  A digest is the serial number of its row.           *)
(***************************************************************************)
EXTENDS Integers, FiniteSets

CONSTANTS Ops,        \* audited requests
          MaxRows,    \* MAX_AUDIT_ROWS
          MaxBroken   \* bound: crashes, failed writes, cancellations and lost files

VARIABLES
  file,       \* operator-audit.sqlite3: "absent", "empty" (created, no schema), "ready"
  state,      \* audit_state: [anchor, anchorDig, last, lastDig]
  rows,       \* audit_events: [id, prev, dig, op, outcome]
  sealed,     \* the component's row in operator_component_anchors
  at,         \* the process: "down", "check", "create", "schema", "verify", "seal", "up", "refused"
  failed,     \* _failed
  op,         \* [Ops -> where the request is]
  writes,     \* record calls in threads: [op, outcome]
  serial,     \* digests made
  broken,     \* faults so far
  effects,    \* history: requests that had their effect, with what the log was then
  lostEnd,    \* history: an outcome could not be written by this process
  born, kept  \* history: the serial at which the schema was created, and at the seal

auddisk == <<file, state, rows, sealed>>
audhist == <<effects, lostEnd, born, kept>>
audvars == <<auddisk, at, failed, op, writes, serial, broken, audhist>>

NoLog == [anchor |-> 0, anchorDig |-> 0, last |-> 0, lastDig |-> 0]

AudInit == /\ file = "absent" /\ state = NoLog /\ rows = {} /\ sealed = FALSE
           /\ at = "down" /\ failed = FALSE /\ op = [o \in Ops |-> "free"] /\ writes = {}
           /\ serial = 0 /\ broken = 0
           /\ effects = {} /\ lostEnd = FALSE /\ born = -1 /\ kept = -1

Fault == broken < MaxBroken /\ broken' = broken + 1

-----------------------------------------------------------------------------
(* OperatorAuditStore.__init__, with ComponentStateAnchor.                 *)

\* A sealed component must find its file.
AnchorAllows == sealed => file # "absent"
StartUp == /\ at = "down" /\ at' = IF AnchorAllows THEN "create" ELSE "refused"
           /\ failed' = FALSE /\ lostEnd' = FALSE
           /\ UNCHANGED <<auddisk, op, writes, serial, broken, effects, born, kept>>
\* O_CREAT | O_EXCL; the schema only for a file created here.
CreateFile == /\ at = "create"
              /\ IF file = "absent" THEN file' = "empty" /\ at' = "schema"
                 ELSE at' = "verify" /\ UNCHANGED file
              /\ UNCHANGED <<state, rows, sealed, failed, op, writes, serial, broken, audhist>>
CreateSchema == /\ at = "schema" /\ file' = "ready" /\ state' = NoLog /\ rows' = {} /\ at' = "verify"
                /\ born' = serial
                /\ UNCHANGED <<sealed, failed, op, writes, serial, broken, effects, lostEnd, kept>>

\* _state and _verify_chain.
ChainOf(n) == CHOOSE w \in rows : w.id = n
Chained ==
  /\ state.last - state.anchor <= MaxRows
  /\ (state.last > 0 => state.last > state.anchor)
  /\ {w.id : w \in rows} = (state.anchor + 1)..state.last
  /\ Cardinality(rows) = state.last - state.anchor
  /\ \A w \in rows : w.prev = IF w.id = state.anchor + 1 THEN state.anchorDig ELSE ChainOf(w.id - 1).dig
  /\ state.lastDig = IF rows = {} THEN state.anchorDig ELSE ChainOf(state.last).dig
Verify == /\ at = "verify" /\ at' = IF file = "ready" /\ Chained THEN "seal" ELSE "refused"
          /\ UNCHANGED <<auddisk, failed, op, writes, serial, broken, audhist>>
\* The anchor only after the component itself was admitted.
Seal == /\ at = "seal" /\ at' = "up" /\ sealed' = TRUE
        /\ kept' = IF sealed THEN kept ELSE born
        /\ UNCHANGED <<file, state, rows, failed, op, writes, serial, broken, effects, lostEnd, born>>

Crash == /\ at \notin {"down"} /\ Fault /\ at' = "down" /\ failed' = FALSE /\ writes' = {}
         /\ op' = [o \in Ops |-> IF op[o] = "free" THEN "free" ELSE "gone"]
         /\ UNCHANGED <<auddisk, serial, audhist>>
\* The file disappears while nothing runs.
FileLost == /\ at = "down" /\ file # "absent" /\ Fault /\ file' = "absent"
            /\ UNCHANGED <<state, rows, sealed, at, failed, op, writes, serial, audhist>>

-----------------------------------------------------------------------------
(* record, in a thread, under the store's lock.                            *)

\* The new row and the new tail.
NewRow(w) ==
  [id |-> state.last + 1, prev |-> state.lastDig, dig |-> serial + 1, op |-> w.op, outcome |-> w.outcome]
Appended == [state EXCEPT !.last = @ + 1, !.lastDig = serial + 1]
\* Retention: the row that leaves becomes the anchor of those that stay.
Anchored(s, rs, cutoff) ==
  [s EXCEPT !.anchor = cutoff, !.anchorDig = (CHOOSE w \in rs : w.id = cutoff).dig]
\* Both in one transaction.
Commit(w) ==
  LET cutoff == state.last + 1 - MaxRows
      cut == cutoff > state.anchor
      rs == rows \cup {NewRow(w)}
  IN /\ rows' = {x \in rs : cut => x.id > cutoff}
     /\ state' = IF cut THEN Anchored(Appended, rs, cutoff) ELSE Appended
     /\ serial' = serial + 1

Regardless(ok) == "run"
\* What the middleware does with the attempt's result: only a durable attempt
\* lets the request run.
Proceeds(ok) == IF ok THEN "run" ELSE "free"
Returned(w, ok) ==
  op' = [op EXCEPT ![w.op] = IF @ = "attempt" /\ w.outcome = "started" THEN Proceeds(ok)
                             ELSE IF @ = "finish" /\ w.outcome # "started" THEN "gone" ELSE @]
\* except Exception in _execute: every later record is refused.
Fails == failed' = TRUE
RecordCommits(w) == /\ w \in writes /\ at = "up" /\ ~failed /\ Commit(w) /\ Returned(w, TRUE)
                    /\ writes' = writes \ {w} /\ UNCHANGED <<file, sealed, at, failed, broken, audhist>>
\* The check after COMMIT fails: the row is there, the caller is told otherwise.
RecordDoubted(w) == /\ w \in writes /\ at = "up" /\ ~failed /\ Fault /\ Commit(w) /\ Returned(w, FALSE)
                    /\ Fails /\ writes' = writes \ {w}
                    /\ lostEnd' = (lostEnd \/ w.outcome # "started")
                    /\ UNCHANGED <<file, sealed, at, effects, born, kept>>
RecordFails(w) == /\ w \in writes /\ at = "up" /\ (IF failed THEN UNCHANGED broken ELSE Fault)
                  /\ Fails /\ Returned(w, FALSE) /\ writes' = writes \ {w}
                  /\ lostEnd' = (lostEnd \/ w.outcome # "started")
                  /\ UNCHANGED <<auddisk, at, serial, effects, born, kept>>
\* events: a failed read latches too.
ReadFails == /\ at = "up" /\ ~failed /\ Fault /\ Fails
             /\ UNCHANGED <<auddisk, at, op, writes, serial, audhist>>

-----------------------------------------------------------------------------
(* OperatorAuditMiddleware.                                                *)

Begin(o) == /\ at = "up" /\ op[o] = "free" /\ op' = [op EXCEPT ![o] = "attempt"]
            /\ \A w \in writes : w.op # o
            /\ writes' = writes \cup {[op |-> o, outcome |-> "started"]}
            /\ UNCHANGED <<auddisk, at, failed, serial, broken, audhist>>
\* Cancelled while the attempt is written: the thread still writes it.
AttemptCancelled(o) == /\ op[o] = "attempt" /\ Fault /\ op' = [op EXCEPT ![o] = "gone"]
                       /\ UNCHANGED <<auddisk, at, failed, writes, serial, audhist>>
\* The application: its effect, or an interruption before it.
Effect(o) == /\ op[o] = "run" /\ op' = [op EXCEPT ![o] = "answered"]
             /\ effects' = effects \cup {[op |-> o, after |-> lostEnd]}
             /\ UNCHANGED <<auddisk, at, failed, writes, serial, broken, lostEnd, born, kept>>
Finished(o, outcome) == /\ op' = [op EXCEPT ![o] = "finish"]
                        /\ writes' = writes \cup {[op |-> o, outcome |-> outcome]}
Answered(o) == /\ op[o] = "answered" /\ Finished(o, "success")
               /\ UNCHANGED <<auddisk, at, failed, serial, broken, audhist>>
Interrupted(o) == /\ op[o] \in {"run", "answered"} /\ Fault /\ Finished(o, "interrupted")
                  /\ UNCHANGED <<auddisk, at, failed, serial, audhist>>
\* The shielded outcome is written although its request is cancelled.
FinishCancelled(o) == /\ op[o] = "finish" /\ Fault /\ op' = [op EXCEPT ![o] = "gone"]
                      /\ UNCHANGED <<auddisk, at, failed, writes, serial, audhist>>

AudNext == \/ StartUp \/ CreateFile \/ CreateSchema \/ Verify \/ Seal \/ Crash \/ FileLost \/ ReadFails
           \/ \E w \in writes : RecordCommits(w) \/ RecordDoubted(w) \/ RecordFails(w)
           \/ \E o \in Ops : \/ Begin(o) \/ AttemptCancelled(o) \/ Effect(o) \/ Answered(o)
                             \/ Interrupted(o) \/ FinishCancelled(o)
AudSpec == AudInit /\ [][AudNext]_audvars

-----------------------------------------------------------------------------
(* Properties.                                                             *)

\* An audited request has its effect only after its attempt is durable: it is
\* still in the log, or retention has removed it.
AttemptFirst ==
  file = "ready" => \A e \in effects : \/ \E w \in rows : w.op = e.op /\ w.outcome = "started"
                                       \/ state.anchor > 0

\* Once an outcome could not be written, no request whose attempt comes later
\* runs, until the process is started again.
NoneAfterLoss == \A o \in Ops : op[o] = "attempt" /\ op'[o] = "run" => ~lostEnd

\* Whenever the process dies, the log that is there is one the next start
\* accepts: the kept rows chain from the anchor to the tail.
LogAdmits == file = "ready" => Chained

\* Once the log was admitted, a lost file is never replaced by a new, empty one:
\* the process refuses to start.
NeverReplaced == at = "up" => born = kept
=============================================================================

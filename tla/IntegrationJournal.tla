------------------------- MODULE IntegrationJournal -------------------------
(***************************************************************************)
(* The handoff to provider services (operator_integrations.py): person     *)
(* events, committed by the analytics worker in their own store, are       *)
(* captured into a durable journal with one row per connection and event,  *)
(* pulled by a provider under leases, answered once, and retained.         *)
(* Analytics providers write into an inbox with one row per event.         *)
(*                                                                         *)
(* API calls run on the event loop, the capture of operator_product.py in  *)
(* a thread; both take the store's lock.  Capture commits each statement   *)
(* by itself, so a crash can fall between the row and the cursor.          *)
(* Handshakes and leases live in memory only.                              *)
(*                                                                         *)
(* A connection that is disabled, or presents a token that was replaced,   *)
(* is refused before any state changes: the machine actions below are      *)
(* those of a caller that authenticate admits.  The displayed last_status  *)
(* is left out.                                                            *)
(***************************************************************************)
EXTENDS Integers, Sequences, FiniteSets, SequencesExt

CONSTANTS Neural, Analytics, \* connections of the two kinds
          Camera,
          Answer,              \* bodies of responses
          Event,               \* event identities of analytics providers
          MaxEvents,           \* bound: person events committed
          MaxRows,             \* MAX_EVENT_ROWS of the person event store
          Batch,               \* LIMIT of one capture read
          MaxPending,          \* MAX_PENDING
          MaxRetained,         \* MAX_RETAINED
          MaxAttempts,         \* MAX_ATTEMPTS
          Window,              \* LIMIT of the rows a pull looks at
          PullLimit            \* largest limit of a pull

Conn == Neural \cup Analytics

ASSUME ConnAssumption == Neural \cap Analytics = {}
ASSUME LimitAssumption ==
    /\ MaxEvents \in Nat
    /\ \A n \in {MaxRows, Batch, MaxPending, MaxRetained, MaxAttempts, Window, PullLimit} :
         n \in Nat \ {0}

VARIABLES
    source, pruned,                    \* person events, their camera; the last one deleted
    known,                             \* registered cameras
    exists, enabled, grants, cursor,   \* table connections
    journal,                           \* table deliveries, in the order of its sequence
    inbox,                             \* table received_events, likewise
    handshakes, leases,                \* in memory
    phase, todo, turn, rows, wanted,   \* the capture that holds the lock: where it is, the
                                       \* connections to come, the one it is at, the events
                                       \* read for it, whether the first is in its scope
    owed, settled, delivered           \* history

sourceVars  == <<source, pruned, known>>
connVars    == <<exists, enabled, grants, cursor>>
memoryVars  == <<handshakes, leases>>
captureVars == <<phase, todo, turn, rows, wanted>>
history     == <<owed, settled, delivered>>
vars == <<sourceVars, connVars, journal, inbox, memoryVars, captureVars, history>>

\* The answer of a row is the set of the one accepted, or empty.
Row(c, i) == [conn |-> c, id |-> i, attempt |-> 0, sent |-> FALSE, answer |-> {}]

Key(r)     == <<r.conn, r.id>>
Keys       == {Key(r) : r \in Range(journal)}
Pending    == {r \in Range(journal) : r.answer = {}}
Idle       == phase = "idle"

Of(c, keys) == {k \in keys : k[1] = c}

\* DELETE: the rows of table s that stay are those in K, in their order.
Keeping(s, K) ==
    LET kept[n \in 0..Len(s)] ==
          IF n = 0 THEN <<>>
          ELSE IF s[n] \in K THEN Append(kept[n - 1], s[n]) ELSE kept[n - 1]
    IN  kept[Len(s)]

Init ==
    /\ source = <<>> /\ pruned = 0 /\ known = Camera
    /\ exists = [c \in Conn |-> FALSE] /\ enabled = [c \in Conn |-> FALSE]
    /\ grants = [c \in Conn |-> {}] /\ cursor = [c \in Conn |-> 0]
    /\ journal = <<>> /\ inbox = <<>> /\ handshakes = {} /\ leases = {}
    /\ phase = "idle" /\ todo = {} /\ turn = {} /\ rows = <<>> /\ wanted = FALSE
    /\ owed = {} /\ settled = {} /\ delivered = {}

-----------------------------------------------------------------------------
(* The person event store and the camera registry, each under its own lock.*)

\* OperatorEventStore.record of a new frame with people in it.
Record(cam) ==
    /\ Len(source) < MaxEvents
    /\ source' = Append(source, cam)
    /\ pruned' = IF Len(source') - pruned > MaxRows THEN pruned + 1 ELSE pruned
    /\ UNCHANGED <<known, connVars, journal, inbox, memoryVars, captureVars, history>>

\* A camera is removed; one that is enrolled again has a new identity.
Unregister(cam) ==
    /\ cam \in known /\ known' = known \ {cam}
    /\ UNCHANGED <<source, pruned, connVars, journal, inbox, memoryVars, captureVars,
                   history>>

-----------------------------------------------------------------------------
(* Administration.                                                         *)

Create(c, on, cams) ==
    /\ Idle /\ ~exists[c] /\ (on => cams # {}) /\ cams \subseteq known
    /\ exists' = [exists EXCEPT ![c] = TRUE] /\ enabled' = [enabled EXCEPT ![c] = on]
    /\ grants' = [grants EXCEPT ![c] = cams] /\ cursor' = [cursor EXCEPT ![c] = 0]
    /\ UNCHANGED <<sourceVars, journal, inbox, memoryVars, captureVars, history>>

\* Both leave nothing of the connection's memory.
Forget(c) ==
    /\ handshakes' = handshakes \ {c}
    /\ leases' = leases \ Of(c, leases)

\* An unanswered row stays as long as its camera is granted.
Kept(c, cams, r) == r.conn = c /\ r.answer = {} => source[r.id] \in cams

\* A token rotation is an update that keeps enabled and the grants.  The API admits
\* only registered cameras in a new list.
Update(c, on, cams) ==
    /\ Idle /\ exists[c] /\ (on => cams # {})
    /\ cams = grants[c] \/ cams \subseteq known
    /\ enabled' = [enabled EXCEPT ![c] = on] /\ grants' = [grants EXCEPT ![c] = cams]
    /\ journal' = Keeping(journal, {r \in Range(journal) : Kept(c, cams, r)})
    /\ Forget(c)
    /\ LET withdrawn == {k \in Of(c, Neural \X (1..Len(source))) : source[k[2]] \notin cams}
       IN  owed' = owed \ withdrawn /\ delivered' = delivered \ withdrawn
    /\ UNCHANGED <<sourceVars, exists, cursor, inbox, captureVars, settled>>

Delete(c) ==
    /\ Idle /\ exists[c]
    /\ exists' = [exists EXCEPT ![c] = FALSE] /\ enabled' = [enabled EXCEPT ![c] = FALSE]
    /\ grants' = [grants EXCEPT ![c] = {}] /\ cursor' = [cursor EXCEPT ![c] = 0]
    /\ journal' = Keeping(journal, {r \in Range(journal) : r.conn # c})
    /\ inbox' = Keeping(inbox, {r \in Range(inbox) : r.conn # c})
    /\ Forget(c)
    /\ owed' = owed \ Of(c, owed) /\ settled' = settled \ Of(c, settled)
    /\ delivered' = delivered \ Of(c, delivered)
    /\ UNCHANGED <<sourceVars, captureVars>>

\* The retried row forgets that it was sent.
RenewedUnsent(r) == [r EXCEPT !.attempt = 0, !.sent = FALSE]

Renewed(r) == [r EXCEPT !.attempt = 0]

Retry(c) ==
    /\ Idle /\ exists[c]
    /\ journal' = [k \in DOMAIN journal |->
                     IF journal[k].conn = c /\ journal[k].answer = {}
                     THEN Renewed(journal[k]) ELSE journal[k]]
    /\ Forget(c)
    /\ UNCHANGED <<sourceVars, connVars, inbox, captureVars, history>>

-----------------------------------------------------------------------------
(* capture_person_events, under the lock from CaptureStart to CaptureEnd.  *)

CaptureStart ==
    /\ Idle
    /\ todo' = {c \in Neural : exists[c] /\ enabled[c]}
    /\ phase' = "next"
    /\ UNCHANGED <<sourceVars, connVars, journal, inbox, memoryVars, turn, rows, wanted,
                   history>>

\* The first Batch events after the connection's cursor, from the other store.
CaptureRead(c) ==
    /\ phase = "next" /\ c \in todo
    /\ LET first == IF pruned > cursor[c] THEN pruned ELSE cursor[c]
           last  == IF first + Batch < Len(source) THEN first + Batch ELSE Len(source)
       IN  rows' = [k \in 1..(last - first) |-> first + k]
    /\ todo' = todo \ {c} /\ turn' = {c} /\ phase' = "row"
    /\ UNCHANGED <<sourceVars, connVars, journal, inbox, memoryVars, wanted, history>>

PendingOf(c) == {r \in Pending : r.conn = c}

\* The unique constraint that INSERT OR IGNORE runs into.
There(c, i) == <<c, i>> \in Keys

\* A full queue is noticed, and its event passed over.
CaptureRowPassing(c) ==
    /\ phase = "row" /\ c \in turn /\ rows # <<>>
    /\ wanted' = (source[Head(rows)] \in grants[c] \cap known)
    /\ journal' = IF wanted' /\ Cardinality(PendingOf(c)) < MaxPending
                     /\ ~There(c, Head(rows))
                  THEN Append(journal, Row(c, Head(rows))) ELSE journal
    /\ phase' = "cursor"
    /\ UNCHANGED <<sourceVars, connVars, inbox, memoryVars, todo, turn, rows, history>>

\* INSERT OR IGNORE of an event in scope; a full queue ends the connection's turn.
CaptureRow(c) ==
    /\ phase = "row" /\ c \in turn /\ rows # <<>>
    /\ wanted' = (source[Head(rows)] \in grants[c] \cap known)
    /\ \/ /\ wanted' /\ Cardinality(PendingOf(c)) >= MaxPending
          /\ rows' = <<>> /\ UNCHANGED <<journal, phase>>
       \/ /\ wanted' /\ Cardinality(PendingOf(c)) < MaxPending
          /\ journal' = IF There(c, Head(rows)) THEN journal
                        ELSE Append(journal, Row(c, Head(rows)))
          /\ phase' = "cursor" /\ UNCHANGED rows
       \/ ~wanted' /\ phase' = "cursor" /\ UNCHANGED <<journal, rows>>
    /\ UNCHANGED <<sourceVars, connVars, inbox, memoryVars, todo, turn, history>>

\* Passing an event in scope, or one that was never looked at, K5 owes it.
CaptureCursor(c) ==
    /\ phase = "cursor" /\ c \in turn
    /\ cursor' = [cursor EXCEPT ![c] = Head(rows)]
    /\ rows' = Tail(rows) /\ phase' = "row"
    /\ LET passed == {i \in (cursor[c] + 1)..Head(rows) :
                        i > pruned /\ (i = Head(rows) => wanted)}
       IN  owed' = owed \cup ({<<c, i>> : i \in passed} \ settled)
    /\ wanted' = FALSE
    /\ UNCHANGED <<sourceVars, exists, enabled, grants, journal, inbox, memoryVars, todo, turn,
                   settled, delivered>>

CaptureTurnEnd ==
    /\ phase = "row" /\ rows = <<>>
    /\ phase' = "next" /\ turn' = {} /\ wanted' = FALSE
    /\ UNCHANGED <<sourceVars, connVars, journal, inbox, memoryVars, todo, rows, history>>

CaptureEnd ==
    /\ phase = "next" /\ todo = {}
    /\ phase' = "idle"
    /\ UNCHANGED <<sourceVars, connVars, journal, inbox, memoryVars, todo, turn, rows,
                   wanted, history>>

-----------------------------------------------------------------------------
(* Machine calls; _machine admits an enabled connection with a live        *)
(* handshake.                                                              *)

Handshake(c) ==
    /\ Idle /\ exists[c] /\ enabled[c]
    /\ handshakes' \in {handshakes \cup {c}, handshakes \ {c}}
    /\ UNCHANGED <<sourceVars, connVars, journal, inbox, leases, captureVars, history>>

Machine(c) == Idle /\ exists[c] /\ enabled[c] /\ c \in handshakes

InScope(c, i) == source[i] \in grants[c] \cap known

Before(S, k) == Cardinality({m \in S : m < k})

AttemptsLeft(r) == r.attempt < MaxAttempts

\* The oldest Window rows with attempts left, of these the ones not leased and in scope.
Eligible(c) ==
    LET unanswered == {k \in DOMAIN journal : /\ journal[k].conn = c
                                              /\ journal[k].answer = {}
                                              /\ AttemptsLeft(journal[k])}
    IN  {k \in unanswered : /\ Before(unanswered, k) < Window
                            /\ Key(journal[k]) \notin leases
                            /\ InScope(c, journal[k].id)}

Handed(c, limit) == {k \in Eligible(c) : Before(Eligible(c), k) < limit}

Pull(c, limit) ==
    /\ Machine(c) /\ c \in Neural /\ Eligible(c) # {}
    /\ LET keys == {Key(journal[k]) : k \in Handed(c, limit)}
       IN  leases' = leases \cup keys /\ delivered' = delivered \cup keys
    /\ journal' = [k \in DOMAIN journal |->
                     IF k \in Handed(c, limit)
                     THEN [journal[k] EXCEPT !.attempt = @ + 1, !.sent = TRUE]
                     ELSE journal[k]]
    /\ UNCHANGED <<sourceVars, connVars, inbox, handshakes, captureVars, owed, settled>>

\* The first answer stays unless another overwrites it.
AdmitsAny(r, body) == r.attempt >= 1

\* A row that was handed out, with no other answer.
Admits(r, body) == r.attempt >= 1 /\ r.answer \in {{}, {body}}

\* Answered rows outside the newest MaxRetained rows of all connections go.
Retained(rs) ==
    Keeping(rs, {r \in Range(rs) :
                   r.answer = {} \/ \E k \in DOMAIN rs : k > Len(rs) - MaxRetained /\ rs[k] = r})

Respond(c, k, body) ==
    /\ Machine(c) /\ journal[k].conn = c
    /\ Admits(journal[k], body) /\ InScope(c, journal[k].id)
    /\ journal' = Retained([journal EXCEPT ![k].answer = {body}])
    /\ leases' = leases \ {Key(journal[k])}
    /\ owed' = owed \ {Key(journal[k])} /\ settled' = settled \cup {Key(journal[k])}
    /\ UNCHANGED <<sourceVars, connVars, inbox, handshakes, captureVars, delivered>>

New(c, e) == \A r \in Range(inbox) : r.conn # c \/ r.event # e

\* A repetition of a stored event changes nothing, whether it is accepted or conflicts.
Ingest(c, cam, e) ==
    /\ Machine(c) /\ c \in Analytics /\ cam \in grants[c] \cap known
    /\ New(c, e)
    /\ LET all == Append(inbox, [conn |-> c, event |-> e])
       IN  inbox' = IF Len(all) > MaxRetained THEN Tail(all) ELSE all
    /\ UNCHANGED <<sourceVars, connVars, journal, memoryVars, captureVars, history>>

-----------------------------------------------------------------------------
(* Elapsed leases, and a crash: committed tables survive.                  *)

HandshakeExpires(c) ==
    /\ c \in handshakes /\ handshakes' = handshakes \ {c}
    /\ UNCHANGED <<sourceVars, connVars, journal, inbox, leases, captureVars, history>>

LeaseExpires(k) ==
    /\ k \in leases /\ leases' = leases \ {k}
    /\ UNCHANGED <<sourceVars, connVars, journal, inbox, handshakes, captureVars, history>>

Crash ==
    /\ handshakes' = {} /\ leases' = {}
    /\ phase' = "idle" /\ todo' = {} /\ turn' = {} /\ rows' = <<>> /\ wanted' = FALSE
    /\ UNCHANGED <<sourceVars, connVars, journal, inbox, history>>

Capture == \/ CaptureStart \/ CaptureTurnEnd \/ CaptureEnd
           \/ \E c \in Neural : CaptureRead(c) \/ CaptureRow(c) \/ CaptureCursor(c)

Next ==
    \/ \E cam \in Camera : Record(cam) \/ Unregister(cam)
    \/ \E c \in Conn :
         \/ \E on \in BOOLEAN, cams \in SUBSET Camera : Create(c, on, cams) \/ Update(c, on, cams)
         \/ Delete(c) \/ Retry(c) \/ Handshake(c) \/ HandshakeExpires(c)
         \/ \E limit \in 1..PullLimit : Pull(c, limit)
         \/ \E k \in DOMAIN journal, body \in Answer : Respond(c, k, body)
         \/ \E cam \in Camera, e \in Event : Ingest(c, cam, e)
    \/ \E k \in leases : LeaseExpires(k)
    \/ Capture \/ Crash

Spec == Init /\ [][Next]_vars

\* A provider that keeps shaking hands and pulling, whatever else happens.
Fairness == \A c \in Neural : /\ SF_vars(Handshake(c) /\ c \in handshakes')
                              /\ SF_vars(Pull(c, PullLimit))

FairSpec == Spec /\ Fairness /\ WF_vars(Capture)

-----------------------------------------------------------------------------
\* Every variable has its type; the two tables have one row per identity.
TypeOK ==
    /\ source \in Seq(Camera) /\ pruned \in 0..Len(source) /\ known \subseteq Camera
    /\ exists \in [Conn -> BOOLEAN] /\ enabled \in [Conn -> BOOLEAN]
    /\ grants \in [Conn -> SUBSET Camera] /\ cursor \in [Conn -> 0..Len(source)]
    /\ journal \in Seq([conn : Neural, id : 1..Len(source), attempt : 0..MaxAttempts,
                        sent : BOOLEAN, answer : {{}} \cup {{b} : b \in Answer}])
    /\ inbox \in Seq([conn : Analytics, event : Event])
    /\ handshakes \subseteq Conn /\ leases \subseteq Neural \X (1..Len(source))
    /\ phase \in {"idle", "next", "row", "cursor"} /\ todo \subseteq Neural
    /\ turn \subseteq Neural /\ rows \in Seq(1..Len(source)) /\ wanted \in BOOLEAN
    /\ UNION {owed, settled, delivered} \subseteq Neural \X (1..Len(source))

\* An event in a connection's scope that its cursor has passed waits in the journal
\* until it is answered or its grant withdrawn: neither a full queue, nor a crash
\* between the row and the cursor, nor retention loses it (capture_person_events).
NothingLost == owed \subseteq {Key(r) : r \in Pending}

\* Rows and inbox entries are unique, also when a crash makes capture repeat an event or
\* a provider repeats its own.
OneRowEach ==
    /\ \A k, m \in DOMAIN journal : Key(journal[k]) = Key(journal[m]) => k = m
    /\ \A k, m \in DOMAIN inbox :
         inbox[k].conn = inbox[m].conn /\ inbox[k].event = inbox[m].event => k = m

\* A waiting row belongs to a camera the connection is granted now: withdrawing a grant
\* empties the queue of it, and no capture that began earlier fills it again (update).
ScopeKept == \A r \in Pending : exists[r.conn] /\ source[r.id] \in grants[r.conn]

\* The replay flag of a delivery tells the truth through restarts and retries: a waiting
\* row is marked sent exactly when it was handed out before (pull).  An event that was
\* answered can wait again: a crash left the cursor behind it, and retention has removed
\* its answered row since; nothing is left then of the first delivery.
ReplayHonest ==
    \A r \in Pending : Key(r) \notin settled => (r.sent <=> Key(r) \in delivered)

\* The queue of each connection and the answered rows of all stay bounded.
JournalBounded ==
    /\ \A c \in Neural : Cardinality(PendingOf(c)) <= MaxPending
    /\ Cardinality(Range(journal) \ Pending) <= MaxRetained

\* An accepted answer is final: no later answer, retry or update changes it, until
\* retention or the deletion of the connection removes the row (respond).
AnswerFinal ==
    \A r \in Range(journal) \ Pending, q \in Range(journal') :
        Key(q) = Key(r) /\ exists'[r.conn] => q.answer = r.answer

Waiting(c, i) == /\ \E r \in Pending : Key(r) = <<c, i>> /\ source[i] \in known
                 /\ enabled[c]

\* "Delivery is at least once" (docs/OPERATOR_INTEGRATIONS.md): a waiting observation of
\* a registered camera is handed to a provider that keeps pulling.
DeliveredAtLeastOnce ==
    \A c \in Neural, i \in 1..MaxEvents :
        Waiting(c, i) ~> (~Waiting(c, i) \/ <<c, i>> \in delivered)

-----------------------------------------------------------------------------
(* What makes them inductive.                                              *)

\* The capture that holds the lock is at one connection, which exists.
CaptureTurns ==
    /\ Idle => todo = {}
    /\ phase \in {"idle", "next"} => turn = {} /\ rows = <<>>
    /\ phase \in {"row", "cursor"} => \E c \in Neural : turn = {c}
    /\ phase = "cursor" => rows # <<>>
    /\ \A c \in todo \cup turn : exists[c]
\* The rows read for it follow one another, after its cursor or what was pruned.
CaptureFollows ==
    \A c \in turn : rows # <<>> =>
      /\ \A k \in DOMAIN rows : rows[k] = rows[1] + k - 1
      /\ rows[1] <= pruned + 1 \/ rows[1] <= cursor[c] + 1
      /\ phase = "cursor" /\ wanted => There(c, rows[1])
\* Every answered row was settled, and what was handed out is settled or still there.
Answered == {r \in Range(journal) : r.answer # {}}
HistoryKept == /\ \A r \in Answered : Key(r) \in settled
               /\ delivered \subseteq Keys \cup settled

JournalInv ==
    /\ TypeOK /\ OneRowEach /\ NothingLost /\ ScopeKept /\ ReplayHonest /\ JournalBounded
    /\ CaptureTurns /\ CaptureFollows /\ HistoryKept

=============================================================================

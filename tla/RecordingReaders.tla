--------------------------- MODULE RecordingReaders ---------------------------
(***************************************************************************)
(* The requests that read a finished recording: an export streams the      *)
(* verified file, a playback presents it and can be paused by its owner.   *)
(* Both are capacity-bound.  Any request can be cancelled at an await; the *)
(* thread that validates an export goes on.  Meanwhile retention or an     *)
(* administrator may delete or replace the file: `version` is its identity,*)
(* 0 when it is gone.                                                      *)
(***************************************************************************)
EXTENDS Naturals, FiniteSets, Sequences

CONSTANTS Exports, Plays,          \* requests of each kind
          Users, ControlIds,
          MaxExports, MaxPlays,    \* max_active_exports, max_active_playbacks
          Chunks,                  \* reads one export takes
          MaxVersion               \* bound: replacements of the file

VARIABLES
  version,  \* identity of the recording file
  xpc,      \* [Exports -> where the request awaits]
  lease,    \* _reservations
  checker,  \* [Exports -> validation thread: "none", "started", "read", "ok", "bad"]
  seen,     \* [Exports -> identity the thread saw before reading]
  handle,   \* [Exports -> file_identity of the handle, 0 for none]
  fd,       \* [Exports -> identity of the open file, 0 for none]
  sent,     \* [Exports -> identities the chunks came from]
  lpc,      \* [Plays -> where the request awaits]
  asked,    \* [Plays -> [user, id]]; id 0 for none
  playing,  \* _active_playbacks
  controls, \* _controls: set of [id, owner, play]
  held      \* [Plays -> its pause control is paused]

exvars == <<xpc, lease, checker, seen, handle, fd, sent>>
plvars == <<lpc, asked, playing, controls, held>>
rdvars == <<version, exvars, plvars>>

RdInit ==
  /\ version = 1
  /\ xpc = [r \in Exports |-> "idle"] /\ lease = {} /\ checker = [r \in Exports |-> "none"]
  /\ seen = [r \in Exports |-> 0] /\ handle = [r \in Exports |-> 0]
  /\ fd = [r \in Exports |-> 0] /\ sent = [r \in Exports |-> <<>>]
  /\ lpc = [r \in Plays |-> "idle"] /\ asked = [r \in Plays |-> [user |-> 0, id |-> 0]]
  /\ playing = 0 /\ controls = {} /\ held = [r \in Plays |-> FALSE]

ReplaceFile == /\ version # 0 /\ version < MaxVersion /\ version' = version + 1
               /\ UNCHANGED <<exvars, plvars>>
DeleteFile == /\ version # 0 /\ version' = 0 /\ UNCHANGED <<exvars, plvars>>

-----------------------------------------------------------------------------
(* Export.                                                                 *)

Go(r, at) == xpc' = [xpc EXCEPT ![r] = at]

\* begin_export: the pair is loaded in a thread, the device and the size checked.
LoadForExport(r) == /\ xpc[r] = "idle" /\ version # 0 /\ Go(r, "loaded")
                    /\ UNCHANGED <<version, lease, checker, seen, handle, fd, sent, plvars>>
ExportRefused(r) == /\ xpc[r] \in {"idle", "loaded"} /\ Go(r, "ended")
                    /\ UNCHANGED <<version, lease, checker, seen, handle, fd, sent, plvars>>

\* _reserve, then the validation thread is started; no await between.
ReserveExport(r) ==
  /\ xpc[r] = "loaded"
  /\ IF Cardinality(lease) >= MaxExports THEN Go(r, "ended") /\ UNCHANGED <<lease, checker>>
     ELSE Go(r, "validating") /\ lease' = lease \cup {r}
          /\ checker' = [checker EXCEPT ![r] = "started"]
  /\ UNCHANGED <<version, seen, handle, fd, sent, plvars>>

\* _verify_recording_for_export: lstat, read every record, lstat again.
CheckerStarts(r) ==
  /\ checker[r] = "started" /\ seen' = [seen EXCEPT ![r] = version]
  /\ checker' = [checker EXCEPT ![r] = IF version = 0 THEN "bad" ELSE "read"]
  /\ UNCHANGED <<version, xpc, lease, handle, fd, sent, plvars>>
CheckerEnds(r) ==
  /\ checker[r] = "read"
  /\ checker' = [checker EXCEPT ![r] = IF version = seen[r] THEN "ok" ELSE "bad"]
  /\ UNCHANGED <<version, xpc, lease, seen, handle, fd, sent, plvars>>
\* A record that does not verify.
CheckerRejects(r) ==
  /\ checker[r] = "read" /\ checker' = [checker EXCEPT ![r] = "bad"]
  /\ UNCHANGED <<version, xpc, lease, seen, handle, fd, sent, plvars>>

Validated(r) ==
  /\ xpc[r] = "validating" /\ checker[r] \in {"ok", "bad"}
  /\ checker' = [checker EXCEPT ![r] = "none"]
  /\ IF checker[r] = "ok"
     THEN Go(r, "streaming") /\ handle' = [handle EXCEPT ![r] = seen[r]] /\ UNCHANGED lease
     ELSE Go(r, "ended") /\ lease' = lease \ {r} /\ UNCHANGED handle
  /\ UNCHANGED <<version, seen, fd, sent, plvars>>

Settled(r) == checker[r] \notin {"started", "read"}
\* The exception handler: a finished worker gives its slot back at once.
CanDiscard(r) == Settled(r)
ExportCancelled(r) ==
  /\ xpc[r] = "validating" /\ Go(r, "ended")
  /\ lease' = IF CanDiscard(r) THEN lease \ {r} ELSE lease
  /\ checker' = IF Settled(r) THEN [checker EXCEPT ![r] = "none"] ELSE checker
  /\ UNCHANGED <<version, seen, handle, fd, sent, plvars>>
\* _validation_finished, the callback of an abandoned worker.
ValidationFinished(r) ==
  /\ xpc[r] = "ended" /\ checker[r] \in {"ok", "bad"}
  /\ checker' = [checker EXCEPT ![r] = "none"] /\ lease' = lease \ {r}
  /\ UNCHANGED <<version, xpc, seen, handle, fd, sent, plvars>>

\* stream: after the headers the file is looked up, then opened; another
\* process can change it in between.
StreamLooks(r) == /\ xpc[r] = "streaming" /\ version = handle[r] /\ Go(r, "open")
                  /\ UNCHANGED <<version, lease, checker, seen, handle, fd, sent, plvars>>
OpenedAny(r) == version # 0
\* fstat: the opened file is the verified one.
OpenedVerified(r) == version = handle[r]
StreamOpens(r) == /\ xpc[r] = "open" /\ OpenedVerified(r) /\ Go(r, "reading")
                  /\ fd' = [fd EXCEPT ![r] = version]
                  /\ UNCHANGED <<version, lease, checker, seen, handle, sent, plvars>>
StreamChunk(r) == /\ xpc[r] = "reading" /\ Len(sent[r]) < Chunks
                  /\ sent' = [sent EXCEPT ![r] = Append(@, fd[r])]
                  /\ UNCHANGED <<version, xpc, lease, checker, seen, handle, fd, plvars>>
\* The response unwinds: release, once, without an await.
Release(r) == lease' = lease \ {r} /\ fd' = [fd EXCEPT ![r] = 0]
StreamEnds(r) == /\ xpc[r] = "reading" /\ Len(sent[r]) = Chunks /\ Go(r, "sent") /\ Release(r)
                 /\ UNCHANGED <<version, checker, seen, handle, sent, plvars>>
\* The file changed or became unavailable, or the client went away.
StreamFails(r) == /\ xpc[r] \in {"streaming", "open", "reading"} /\ Go(r, "ended") /\ Release(r)
                  /\ UNCHANGED <<version, checker, seen, handle, sent, plvars>>

-----------------------------------------------------------------------------
(* Playback and its control.                                               *)

At(r, at) == lpc' = [lpc EXCEPT ![r] = at]

LoadForPlay(r) == /\ lpc[r] = "idle" /\ version # 0 /\ At(r, "loaded")
                  /\ \E u \in Users, i \in ControlIds \cup {0} :
                       asked' = [asked EXCEPT ![r] = [user |-> u, id |-> i]]
                  /\ UNCHANGED <<version, exvars, playing, controls, held>>
PlayRefused(r) == /\ lpc[r] \in {"idle", "loaded"} /\ At(r, "ended")
                  /\ UNCHANGED <<version, exvars, asked, playing, controls, held>>

ControlOf(r) == [id |-> asked[r].id, owner |-> asked[r].user, play |-> r]
\* An identifier in use is refused.
Conflicts(i) == \E c \in controls : c.id = i
ReservePlay(r) ==
  LET a == asked[r] IN
  /\ lpc[r] = "loaded"
  /\ IF playing >= MaxPlays \/ Conflicts(a.id) THEN At(r, "ended") /\ UNCHANGED <<playing, controls>>
     ELSE /\ At(r, "resolving") /\ playing' = playing + 1
          /\ controls' = IF a.id = 0 THEN controls
                         ELSE {c \in controls : c.id # a.id} \cup {ControlOf(r)}
  /\ UNCHANGED <<version, exvars, asked, held>>

\* play's finally: _release.
PlayOver(r) ==
  /\ At(r, "ended") /\ playing' = playing - 1
  /\ controls' = {c \in controls : c.id # asked[r].id}
  /\ UNCHANGED <<version, exvars, asked, held>>
\* The camera's current source, shown beside the recording.
SourceResolved(r) == /\ lpc[r] = "resolving" /\ At(r, "running")
                     /\ UNCHANGED <<version, exvars, asked, playing, controls, held>>
SourceUnavailable(r) == lpc[r] = "resolving" /\ PlayOver(r)
\* The launcher's session completes, is closed by its user, fails or is cancelled.
PlayReturns(r) == lpc[r] = "running" /\ PlayOver(r)

\* control: found, owned by the caller, and applied to the play it belongs to.
Control(u, i, pause) ==
  \E c \in controls :
    /\ c.id = i /\ c.owner = u
    /\ held' = [held EXCEPT ![c.play] = pause]
    /\ UNCHANGED <<version, exvars, lpc, asked, playing, controls>>

-----------------------------------------------------------------------------
RdNext ==
  \/ ReplaceFile \/ DeleteFile
  \/ \E r \in Exports :
       \/ LoadForExport(r) \/ ExportRefused(r) \/ ReserveExport(r)
       \/ CheckerStarts(r) \/ CheckerEnds(r) \/ CheckerRejects(r)
       \/ Validated(r) \/ ExportCancelled(r) \/ ValidationFinished(r)
       \/ StreamLooks(r) \/ StreamOpens(r) \/ StreamChunk(r) \/ StreamEnds(r) \/ StreamFails(r)
  \/ \E r \in Plays : LoadForPlay(r) \/ PlayRefused(r) \/ ReservePlay(r)
                            \/ SourceResolved(r) \/ SourceUnavailable(r) \/ PlayReturns(r)
  \/ \E u \in Users, i \in ControlIds, p \in BOOLEAN : Control(u, i, p)
RdSpec == RdInit /\ [][RdNext]_rdvars

-----------------------------------------------------------------------------
(* Properties.                                                             *)

\* The reservations are exactly the validation threads still running and the
\* export responses still open, abandoned requests included, and never more
\* than the limit: cancelled requests can neither overrun it nor leak a slot.
ExportSlotsExact ==
  /\ Cardinality(lease) <= MaxExports
  /\ lease = {r \in Exports : checker[r] # "none" \/ xpc[r] \in {"streaming", "open", "reading"}}

\* Every byte of a completed export came from the file that was verified.
SentWasVerified ==
  \A r \in Exports : \A i \in 1..Len(sent[r]) : sent[r][i] = handle[r] /\ handle[r] = seen[r]

Presenting == {r \in Plays : lpc[r] \in {"resolving", "running"}}
\* A running playback that asked for a control identifier can be reached by it,
\* its owner only: no other playback takes the identifier over or removes it.
ControlReachesPlay ==
  /\ playing = Cardinality(Presenting) /\ playing <= MaxPlays
  /\ controls = {ControlOf(r) : r \in {p \in Presenting : asked[p].id # 0}}

-----------------------------------------------------------------------------
(* What makes them inductive.                                              *)

ExportType ==
  /\ version \in Nat /\ lease \subseteq Exports /\ IsFiniteSet(lease)
  /\ xpc \in [Exports -> {"idle", "loaded", "validating", "streaming", "open", "reading", "sent", "ended"}]
  /\ checker \in [Exports -> {"none", "started", "read", "ok", "bad"}]
  /\ seen \in [Exports -> Nat] /\ handle \in [Exports -> Nat] /\ fd \in [Exports -> Nat]
  /\ sent \in [Exports -> Seq(Nat)]
\* A request awaits its own validation; nothing is sent before it; what is read is the
\* verified file.
ExportStages ==
  \A r \in Exports :
    /\ xpc[r] = "validating" => checker[r] # "none"
    /\ checker[r] # "none" => xpc[r] \in {"validating", "ended"} /\ sent[r] = <<>>
    /\ xpc[r] \notin {"reading", "sent", "ended"} => sent[r] = <<>>
    /\ xpc[r] \in {"streaming", "open", "reading"} => handle[r] = seen[r]
    /\ xpc[r] = "reading" => fd[r] = handle[r]
ExportInv == ExportType /\ ExportStages /\ ExportSlotsExact /\ SentWasVerified

PlayType ==
  /\ lpc \in [Plays -> {"idle", "loaded", "resolving", "running", "ended"}]
  /\ asked \in [Plays -> [user : Users \cup {0}, id : ControlIds \cup {0}]]
  /\ IsFiniteSet(Presenting)
\* No two playbacks present under one identifier.
IdsApart ==
  \A p, r \in Presenting : asked[p].id = asked[r].id /\ asked[p].id # 0 => p = r
PlayInv == PlayType /\ IdsApart /\ ControlReachesPlay
=============================================================================

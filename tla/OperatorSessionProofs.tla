----------------------- MODULE OperatorSessionProofs ------------------------
(***************************************************************************)
(* Theorems about OperatorSession, for any limits, any requests and any    *)
(* number of faults: the two tasks never leave anything open behind a run, *)
(* every generation is counted, and the layouts agree.                     *)
(***************************************************************************)
EXTENDS OperatorSession, SequenceTheorems, TLAPS

-----------------------------------------------------------------------------
(* The inductive invariant.                                                *)

Relaying == {"rl_app", "rl_host", "rl_rt", "rl_win"}
Closing == {"close_host", "close_rt", "close_wait"}
Over == {"failing", "ending", "done"}
Steps == {"idle", "starting", "loop", "pump", "check", "sleep", "stop", "replace", "limit"}
           \cup Relaying \cup Closing \cup Over

\* The layouts there can be.
Shown == (Plans \cup {"none"}) \X (0..MaxX)
Histories == [layout : Shown, undo : Seq(Shown), redo : Seq(Shown), ops : 0..MaxOps]

\* The layouts, the requests, and the limits of the queue and of the history: redo does
\* not trim, and need not, since it takes back what an undo left room for.
LayoutTypes ==
  /\ lay \in Shown /\ act \in Shown /\ hist \in Histories
  /\ Len(hist.undo) + Len(hist.redo) <= MaxHistory
  /\ queue \in Seq(Controls) /\ Len(queue) <= MaxPending
  /\ cur \in Controls \cup {[kind |-> "none"]}

\* The request in hand still fits the history it was checked against.
RequestFits ==
  /\ pc \in {"pump", "check", "sleep"} \cup Closing => cur.kind = "none"
  /\ pc = "replace" => cur.kind = "replace"
  /\ pc \in Relaying =>
       /\ cur.kind \in {"none", "relayout", "undo", "redo", "edit"}
       /\ cur.kind \in {"undo", "redo", "edit"} => hist.ops < MaxOps
       /\ cur.kind = "undo" => hist.undo # <<>>
       /\ cur.kind = "redo" => hist.redo # <<>>
       /\ cur.kind = "edit" => EditValid(act, cur)
  /\ pc = "rl_win" => Wanted[1] = lay[1]

\* Application, control and history have the same layout; what can be undone or redone
\* has its slots.
OneLayout ==
  /\ lay = act /\ hist.layout = act
  /\ \A i \in 1..Len(hist.undo) : hist.undo[i][1] = act[1]
  /\ \A i \in 1..Len(hist.redo) : hist.redo[i][1] = act[1]

LayoutsSound == LayoutTypes /\ RequestFits /\ OneLayout

\* The values of the other variables.
StateTypes ==
  /\ sess \in {"ready", "running", "complete", "user_closed", "cancelled", "failed", "closed"}
  /\ pc \in Steps /\ turn \in {"S", "W", "free"}
  /\ wpc \in {"none", "new", "media", "rt", "host", "app", "done", "error", "cancelled"}
  /\ wres \in {"none", "complete", "stopped", "error"}
  /\ app \in {"ready", "open", "running", "complete", "stopped", "closed", "failed"}
  /\ shell \in {"none", "open", "destroyed"}
  /\ host \in {"ready", "running", "complete", "stopped", "closed", "failed"}
  /\ rt \in {"none", "running", "complete", "stopped", "closed", "failed"}
  /\ media \in {"none", "running", "complete", "failed", "closed", "stuck"}
  /\ win \in {"none", "open", "closed", "stuck"}
  /\ term \in {"none", "complete", "user_closed", "cancelled", "failed"}
  /\ faults \in 0..MaxFaults

\* S holds exactly the locks of the call it is in, and has cycles left while it works.
LocksSound ==
  /\ held = (IF pc \in {"rl_host", "close_host"} THEN 1
             ELSE IF pc \in {"rl_rt", "close_rt"} THEN 2
             ELSE IF pc \in {"rl_win", "close_wait"} THEN 3 ELSE 0)
  /\ cycles \in 0..MaxCycles
  /\ pc \notin {"check", "sleep", "limit"} \cup Over => cycles < MaxCycles

\* The session, the application and the shell move together.
RunSound ==
  /\ pc = "idle" => app = "ready"
  /\ sess = "ready" => pc = "idle"
  /\ pc \notin {"idle", "done"} => sess = "running"
  /\ sess \in {"complete", "user_closed"} => pc = "done" /\ term = sess
  /\ pc \notin Over <=> term = "none"
  /\ pc = "starting" => shell = "open"
  /\ app \in {"ready", "open"} => pc \in {"idle", "starting"}
  /\ owned <=> app \in {"running", "complete", "stopped"}
  /\ owned => shell = "open"
  /\ pc = "done" => shell # "open" /\ ~owned /\ WOver /\ queue = <<>>
  /\ app = "closed" => shell # "open"
  /\ pc \in Closing => owned

\* A generation has a runtime exactly while the host is not over with it, W belongs to the
\* last one, and each is counted once.  Only W's error separates an application from its
\* runtime, and only until W has told the application.
GenerationsSound ==
  /\ gen \in 0..MaxGen /\ counted \in 0..gen
  /\ ended = (IF counted = gen THEN gen ELSE gen - 1)
  /\ pc \in {"idle", "starting"} => gen = 0 /\ WOver
  /\ hrun \in {0, gen} /\ (hrun # 0 <=> host \in {"running", "complete", "stopped"})
  /\ hrun # 0 => owned
  /\ owned => gen > 0
  /\ ~WOver => wgen = gen /\ gen > 0
  /\ wpc \in {"new", "media"} => wres = "none"
  /\ wpc \in {"rt", "host", "app"} => wres # "none"
  /\ owned /\ hrun = 0 => wpc = "app" /\ wres = "error"

\* What has no runtime any more was closed.
ChildrenSound ==
  /\ hrun = 0 => media \in Gone /\ win \in Gone
  /\ gen > 0 => media # "none" /\ win # "none"

\* What W and S say at the end is so.
OutcomeSound ==
  /\ wpc = "app" /\ wres # "error" => counted = gen
  /\ wpc = "done" /\ pc \notin Over => counted = gen /\ hrun # 0
  /\ term = "complete" => /\ pc \in {"ending", "done"} /\ counted = gen /\ WOver /\ gen > 0
                          /\ pc = "ending" => hrun # 0
  /\ term = "user_closed" => /\ pc \in {"ending", "done"} /\ ~owned
                             /\ WOver \/ wres = "error"
                             /\ (media = "closed" /\ win = "closed") \/ wres = "error"
  /\ sess = "complete" => media = "closed" /\ win = "closed"

TasksSound == StateTypes /\ LocksSound /\ RunSound /\ GenerationsSound /\ ChildrenSound
                /\ OutcomeSound

IInv == LayoutsSound /\ TasksSound

-----------------------------------------------------------------------------
(* Layouts, history and requests.                                          *)

\* What a request is made of.
LEMMA ControlForms ==
  ASSUME NEW c \in Controls
  PROVE  /\ c.kind \in {"stop", "undo", "redo", "edit", "relayout", "replace"}
         /\ c.kind = "edit" => c.plan \in Plans /\ c.d \in {-1, 1}
         /\ c.kind \in {"relayout", "replace"} => c.layout \in Asked
  BY DEF Controls, Edits

\* A layout that is asked for, and the one shown before the run.
LEMMA AskedShown == Asked \subseteq Shown /\ NoLayout \in Shown
  BY SessionAssumption DEF Asked, Shown, NoLayout

\* All but the last of a sequence, and its last.
LEMMA FrontSound ==
  ASSUME NEW s \in Seq(Shown), s # <<>>
  PROVE  /\ Front(s) \in Seq(Shown) /\ Len(Front(s)) = Len(s) - 1
         /\ \A i \in 1..Len(Front(s)) : i \in 1..Len(s) /\ Front(s)[i] = s[i]
         /\ Last(s) \in Shown /\ Len(s) \in 1..Len(s) /\ Len(s) \in Nat /\ Len(s) > 0
  <1>1. Len(s) \in Nat /\ Len(s) > 0 /\ Len(s) \in 1..Len(s)
    BY EmptySeq, LenProperties
  <1>2. Last(s) \in Shown
    BY <1>1, ElementOfSeq DEF Last
  <1>3. \A i \in 1..(Len(s) - 1) : s[i] \in Shown
    BY <1>1, ElementOfSeq
  <1>4. /\ Front(s) \in Seq(Shown)
        /\ Len(Front(s)) = IF 1 <= Len(s) - 1 THEN Len(s) - 1 - 1 + 1 ELSE 0
        /\ \A i \in 1..(Len(s) - 1 - 1 + 1) : Front(s)[i] = s[1 + i - 1]
    BY <1>1, <1>3, SubSeqProperties DEF Front
  <1>5. Len(Front(s)) = Len(s) - 1
    <2>1. CASE 1 <= Len(s) - 1
      BY <1>1, <1>4, <2>1
    <2>2. CASE ~(1 <= Len(s) - 1)
      <3>0. \A n \in Nat : n > 0 /\ ~(1 <= n - 1) => n = 1
        OBVIOUS
      <3>1. Len(s) = 1
        BY <1>1, <2>2, <3>0
      <3>2. QED
        BY <1>4, <2>2, <3>1
    <2>3. QED
      BY <2>1, <2>2
  <1>6. \A i \in 1..(Len(s) - 1) : i \in 1..Len(s) /\ Front(s)[i] = s[i]
    BY <1>1, <1>4
  <1>7. QED
    BY <1>1, <1>2, <1>4, <1>5, <1>6

\* One more at the end.
LEMMA AppendSound ==
  ASSUME NEW S, NEW s \in Seq(S), NEW x \in S
  PROVE  /\ Append(s, x) \in Seq(S) /\ Len(Append(s, x)) = Len(s) + 1 /\ Len(s) \in Nat
         /\ \A i \in 1..Len(Append(s, x)) :
              Append(s, x)[i] = x \/ (i \in 1..Len(s) /\ Append(s, x)[i] = s[i])
  <1>1. /\ Append(s, x) \in Seq(S) /\ Len(Append(s, x)) = Len(s) + 1 /\ Len(s) \in Nat
        /\ \A i \in 1..Len(s) : Append(s, x)[i] = s[i]
        /\ Append(s, x)[Len(s) + 1] = x
    BY AppendProperties, LenProperties
  <1>2. QED
    BY <1>1

\* The history is trimmed to its length.
LEMMA PushSound ==
  ASSUME NEW s \in Seq(Shown), NEW x \in Shown, Len(s) <= MaxHistory
  PROVE  /\ Push(s, x) \in Seq(Shown) /\ Len(Push(s, x)) <= MaxHistory
         /\ Len(Push(s, x)) \in Nat
         /\ \A i \in 1..Len(Push(s, x)) :
              Push(s, x)[i] = x \/ \E k \in 1..Len(s) : Push(s, x)[i] = s[k]
  <1> USE SessionAssumption
  <1>1. Len(s) \in Nat
    BY LenProperties
  <1>2. CASE Len(s) # MaxHistory
    <2>1. Push(s, x) = Append(s, x)
      BY <1>2 DEF Push
    <2>2. QED
      BY <1>1, <1>2, <2>1, AppendSound
  <1>3. CASE Len(s) = MaxHistory
    <2>1. Push(s, x) = Append(Tail(s), x)
      BY <1>3 DEF Push
    <2>2. s # <<>>
      BY <1>3, EmptySeq
    <2>3. /\ Tail(s) \in Seq(Shown) /\ Len(Tail(s)) = Len(s) - 1
          /\ \A i \in 1..(Len(s) - 1) : Tail(s)[i] = s[i + 1]
      BY <1>1, <2>2, HeadTailProperties
    <2>4. \A i \in 1..Len(Tail(s)) : i + 1 \in 1..Len(s) /\ Tail(s)[i] = s[i + 1]
      BY <1>1, <2>3
    <2>5. \A i \in 1..Len(Tail(s)) : \E k \in 1..Len(s) : Tail(s)[i] = s[k]
      BY <2>4
    <2> HIDE DEF Push
    <2>6. /\ Append(Tail(s), x) \in Seq(Shown)
          /\ Len(Append(Tail(s), x)) = Len(Tail(s)) + 1 /\ Len(Tail(s)) \in Nat
          /\ \A i \in 1..Len(Append(Tail(s), x)) :
               \/ Append(Tail(s), x)[i] = x
               \/ i \in 1..Len(Tail(s)) /\ Append(Tail(s), x)[i] = Tail(s)[i]
      <3> DEFINE t == Tail(s)
      <3>1. t \in Seq(Shown)
        BY <2>3
      <3> HIDE DEF t
      <3>2. /\ Append(t, x) \in Seq(Shown) /\ Len(Append(t, x)) = Len(t) + 1 /\ Len(t) \in Nat
            /\ \A i \in 1..Len(Append(t, x)) :
                 Append(t, x)[i] = x \/ (i \in 1..Len(t) /\ Append(t, x)[i] = t[i])
        BY <3>1, AppendSound
      <3>3. QED
        BY <3>2 DEF t
    <2>7. \A i \in 1..Len(Append(Tail(s), x)) :
            \/ Append(Tail(s), x)[i] = x
            \/ \E k \in 1..Len(s) : Append(Tail(s), x)[i] = s[k]
      BY <2>5, <2>6
    <2>8. Len(Append(Tail(s), x)) = MaxHistory
      BY <1>1, <1>3, <2>3, <2>6
    <2>9. QED
      BY <2>1, <2>6, <2>7, <2>8
  <1>4. QED
    BY <1>2, <1>3

\* A step that leaves the layouts and the requests alone.
Steers ==
  \/ pc' = pc
  \/ pc' \in {"loop", "stop", "limit", "starting", "idle"} \cup Over
  \/ pc \in Relaying /\ pc' \in Relaying \ {"rl_win"}
  \/ pc \in {"pump", "check", "sleep"} \cup Closing
       /\ pc' \in {"pump", "check", "sleep", "rl_host"} \cup Closing
  \/ pc = "rl_rt" /\ pc' = "rl_win" /\ Wanted[1] = lay[1]

LEMMA SteersKeepsLayouts ==
  ASSUME LayoutsSound, Steers, UNCHANGED <<lay, act, hist, cur>>,
         queue' \in Seq(Controls), Len(queue') <= MaxPending
  PROVE  LayoutsSound'
  <1>1. Wanted' = Wanted
    BY DEF Wanted, Candidate, apply_viewport_edit, Last
  <1>2. LayoutTypes' /\ OneLayout'
    BY DEF LayoutsSound, LayoutTypes, OneLayout
  <1>3. RequestFits'
    <2>1. CASE pc' = pc
      BY <1>1, <2>1 DEF LayoutsSound, RequestFits, EditValid, EditFits
    <2>2. CASE pc' \in {"loop", "stop", "limit", "starting", "idle"} \cup Over
      BY <2>2 DEF RequestFits, Relaying, Closing, Over
    <2>3. CASE pc \in Relaying /\ pc' \in Relaying \ {"rl_win"}
      BY <2>3 DEF LayoutsSound, RequestFits, Relaying, Closing, EditValid, EditFits
    <2>4. CASE /\ pc \in {"pump", "check", "sleep"} \cup Closing
               /\ pc' \in {"pump", "check", "sleep", "rl_host"} \cup Closing
      BY <2>4 DEF LayoutsSound, RequestFits, Relaying, Closing
    <2>5. CASE pc = "rl_rt" /\ pc' = "rl_win" /\ Wanted[1] = lay[1]
      BY <1>1, <2>5 DEF LayoutsSound, RequestFits, Relaying, Closing, EditValid, EditFits
    <2>6. QED
      BY <2>1, <2>2, <2>3, <2>4, <2>5 DEF Steers
  <1>4. QED
    BY <1>2, <1>3 DEF LayoutsSound

\* The next request is taken, and fits.
LEMMA TakeControlKeepsLayouts == ASSUME LayoutsSound, TakeControl PROVE LayoutsSound'
  <1> USE SessionAssumption DEF appvars
  <1> DEFINE c == Head(queue)
  <1>1. /\ queue # <<>> /\ queue \in Seq(Controls) /\ cur' = c /\ queue' = Tail(queue)
        /\ UNCHANGED <<lay, act, hist>>
    BY DEF TakeControl, TakeStop, TakeReplace, TakeRelayout, TakeHistory, TakeEdit, LayoutsSound,
       LayoutTypes
  <1>2. /\ c \in Controls /\ queue' \in Seq(Controls) /\ Len(queue') <= MaxPending
    <2>1. /\ Head(queue) \in Controls /\ Tail(queue) \in Seq(Controls)
          /\ Len(Tail(queue)) = Len(queue) - 1 /\ Len(queue) \in Nat
      BY <1>1, HeadTailProperties, LenProperties
    <2>2. QED
      BY <1>1, <2>1 DEF LayoutsSound, LayoutTypes
  <1>3. LayoutTypes' /\ OneLayout'
    BY <1>1, <1>2 DEF LayoutsSound, LayoutTypes, OneLayout
  <1>4. RequestFits'
    <2> HIDE DEF c
    <2>1. CASE TakeStop
      BY <2>1 DEF TakeStop, RequestFits, Relaying, Closing
    <2>2. CASE TakeReplace
      BY <1>1, <2>2 DEF TakeReplace, RequestFits, Relaying, Closing, c
    <2>3. CASE TakeRelayout
      BY <1>1, <2>3 DEF TakeRelayout, RequestFits, Relaying, Closing, c
    <2>4. CASE TakeHistory
      <3>1. CASE Refused(hist, c)
        BY <2>4, <3>1 DEF TakeHistory, Raise, RequestFits, Relaying, Closing, c
      <3>2. CASE ~Refused(hist, c)
        <4>1. /\ pc' = "rl_app" /\ c.kind \in {"undo", "redo"} /\ ~(hist.ops >= MaxOps)
              /\ c.kind = "undo" => hist.undo # <<>>
              /\ c.kind = "redo" => hist.redo # <<>>
          BY <2>4, <3>2 DEF TakeHistory, Refused, c
        <4>2. hist.ops < MaxOps
          BY <4>1 DEF LayoutsSound, LayoutTypes, Histories
        <4>3. QED
          BY <1>1, <4>1, <4>2 DEF RequestFits, Relaying, Closing
      <3>3. QED
        BY <3>1, <3>2
    <2>5. CASE TakeEdit
      <3>1. CASE pc' = "rl_app"
        <4>1. c.kind = "edit" /\ EditValid(act, c) /\ ~(hist.ops >= MaxOps)
          BY <2>5, <3>1 DEF TakeEdit, Raise, Refused, c
        <4>2. hist.ops < MaxOps
          BY <4>1 DEF LayoutsSound, LayoutTypes, Histories
        <4>3. QED
          BY <1>1, <3>1, <4>1, <4>2 DEF RequestFits, Relaying, Closing, EditValid, EditFits
      <3>2. CASE pc' \in {"loop", "failing"}
        BY <3>2 DEF RequestFits, Relaying, Closing
      <3>3. QED
        BY <2>5, <3>1, <3>2 DEF TakeEdit, Raise
    <2>6. QED
      BY <2>1, <2>2, <2>3, <2>4, <2>5 DEF TakeControl
  <1>5. QED
    BY <1>3, <1>4 DEF LayoutsSound

\* The windows accepted a geometry: everybody follows, and the history with it.
LEMMA RelayoutOkKeepsLayouts == ASSUME LayoutsSound, RelayoutOk PROVE LayoutsSound'
  <1> USE SessionAssumption DEF hostvars
  <1>1. /\ lay' = Wanted /\ hist' = Accepted /\ act' = (IF cur.kind = "none" THEN act ELSE Wanted)
        /\ pc' = (IF cur.kind = "none" THEN "check" ELSE "loop") /\ pc = "rl_win"
        /\ UNCHANGED <<queue, cur>>
    BY DEF RelayoutOk
  <1>2. /\ lay \in Shown /\ act = lay /\ hist \in Histories /\ hist.layout = lay
        /\ Len(hist.undo) \in Nat /\ Len(hist.redo) \in Nat
        /\ Len(hist.undo) + Len(hist.redo) <= MaxHistory
        /\ hist.undo \in Seq(Shown) /\ hist.redo \in Seq(Shown) /\ hist.ops \in Nat
    BY LenProperties DEF LayoutsSound, LayoutTypes, OneLayout, Histories
  <1>3. /\ cur.kind \in {"none", "relayout", "undo", "redo", "edit"}
        /\ cur.kind \in {"undo", "redo", "edit"} => hist.ops < MaxOps
        /\ cur.kind = "undo" => hist.undo # <<>>
        /\ cur.kind = "redo" => hist.redo # <<>>
        /\ cur.kind = "edit" => EditValid(act, cur)
        /\ Wanted[1] = lay[1]
    BY <1>1 DEF LayoutsSound, RequestFits, Relaying
  <1>4. /\ \A i \in 1..Len(hist.undo) : hist.undo[i][1] = lay[1]
        /\ \A i \in 1..Len(hist.redo) : hist.redo[i][1] = lay[1]
    BY <1>2 DEF LayoutsSound, OneLayout
  <1>5. /\ Wanted \in Shown
        /\ cur.kind = "none" => Wanted = lay
    <2>1. CASE cur.kind = "none"
      BY <1>2, <2>1 DEF Wanted
    <2>2. CASE cur.kind = "undo"
      BY <1>2, <1>3, <2>2, FrontSound DEF Wanted, Candidate
    <2>3. CASE cur.kind = "redo"
      BY <1>2, <1>3, <2>3, FrontSound DEF Wanted, Candidate
    <2>4. CASE cur.kind = "edit"
      <3>1. Wanted = <<act[1], act[2] + cur.d>> /\ act[2] + cur.d \in 0..MaxX
        BY <1>3, <2>4 DEF Wanted, Candidate, apply_viewport_edit, EditValid
      <3>2. act[1] \in Plans \cup {"none"}
        BY <1>2 DEF Shown
      <3>3. QED
        BY <2>4, <3>1, <3>2 DEF Shown
    <2>5. CASE cur.kind = "relayout"
      <3>1. Wanted = cur.layout
        BY <2>5 DEF Wanted, Candidate
      <3>2. cur \in Controls
        BY <2>5 DEF LayoutsSound, LayoutTypes
      <3>3. QED
        BY <2>5, <3>1, <3>2, ControlForms, AskedShown
    <2>6. QED
      BY <1>3, <2>1, <2>2, <2>3, <2>4, <2>5
  <1>6. act' = Wanted
    BY <1>1, <1>2, <1>5
  <1>7. /\ Accepted \in Histories /\ Len(Accepted.undo) + Len(Accepted.redo) <= MaxHistory
        /\ Accepted.layout = Wanted
        /\ \A i \in 1..Len(Accepted.undo) : Accepted.undo[i][1] = Wanted[1]
        /\ \A i \in 1..Len(Accepted.redo) : Accepted.redo[i][1] = Wanted[1]
    <2>1. CASE cur.kind = "none"
      BY <1>2, <1>3, <1>4, <1>5, <2>1 DEF Accepted
    <2>2. CASE cur.kind = "undo"
      <3>1. Accepted = [layout |-> Last(hist.undo), undo |-> Front(hist.undo),
                        redo |-> Append(hist.redo, hist.layout), ops |-> hist.ops + 1]
        BY <2>2 DEF Accepted, Undone
      <3>2. Wanted = Last(hist.undo)
        BY <2>2 DEF Wanted, Candidate
      <3>3. /\ Front(hist.undo) \in Seq(Shown) /\ Len(Front(hist.undo)) = Len(hist.undo) - 1
            /\ \A i \in 1..Len(Front(hist.undo)) : Front(hist.undo)[i][1] = lay[1]
        <4>1. /\ Front(hist.undo) \in Seq(Shown)
              /\ Len(Front(hist.undo)) = Len(hist.undo) - 1
              /\ \A i \in 1..Len(Front(hist.undo)) : /\ i \in 1..Len(hist.undo)
                                                     /\ Front(hist.undo)[i] = hist.undo[i]
          BY <1>2, <1>3, <2>2, FrontSound
        <4>2. QED
          BY <1>4, <4>1
      <3>4. /\ Append(hist.redo, hist.layout) \in Seq(Shown)
            /\ Len(Append(hist.redo, hist.layout)) = Len(hist.redo) + 1
            /\ \A i \in 1..Len(Append(hist.redo, hist.layout)) :
                 Append(hist.redo, hist.layout)[i][1] = lay[1]
        BY <1>2, <1>4, AppendSound
      <3>5. hist.ops + 1 \in 0..MaxOps
        BY <1>2, <1>3, <2>2
      <3>6. QED
        BY <1>2, <1>3, <1>5, <3>1, <3>2, <3>3, <3>4, <3>5 DEF Histories
    <2>3. CASE cur.kind = "redo"
      <3>1. Accepted = [layout |-> Last(hist.redo), undo |-> Append(hist.undo, hist.layout),
                        redo |-> Front(hist.redo), ops |-> hist.ops + 1]
        BY <2>3 DEF Accepted, Redone
      <3>2. Wanted = Last(hist.redo)
        BY <2>3 DEF Wanted, Candidate
      <3>3. /\ Front(hist.redo) \in Seq(Shown) /\ Len(Front(hist.redo)) = Len(hist.redo) - 1
            /\ \A i \in 1..Len(Front(hist.redo)) : Front(hist.redo)[i][1] = lay[1]
        <4>1. /\ Front(hist.redo) \in Seq(Shown)
              /\ Len(Front(hist.redo)) = Len(hist.redo) - 1
              /\ \A i \in 1..Len(Front(hist.redo)) : /\ i \in 1..Len(hist.redo)
                                                     /\ Front(hist.redo)[i] = hist.redo[i]
          BY <1>2, <1>3, <2>3, FrontSound
        <4>2. QED
          BY <1>4, <4>1
      <3>4. /\ Append(hist.undo, hist.layout) \in Seq(Shown)
            /\ Len(Append(hist.undo, hist.layout)) = Len(hist.undo) + 1
            /\ \A i \in 1..Len(Append(hist.undo, hist.layout)) :
                 Append(hist.undo, hist.layout)[i][1] = lay[1]
        BY <1>2, <1>4, AppendSound
      <3>5. hist.ops + 1 \in 0..MaxOps
        BY <1>2, <1>3, <2>3
      <3>6. QED
        BY <1>2, <1>3, <1>5, <3>1, <3>2, <3>3, <3>4, <3>5 DEF Histories
    <2>4. CASE cur.kind = "edit"
      <3>1. Accepted = [layout |-> Wanted, undo |-> Push(hist.undo, hist.layout),
                        redo |-> <<>>, ops |-> hist.ops + 1]
        BY <2>4 DEF Accepted, Applied
      <3>2. /\ Push(hist.undo, hist.layout) \in Seq(Shown)
            /\ Len(Push(hist.undo, hist.layout)) <= MaxHistory
            /\ Len(Push(hist.undo, hist.layout)) \in Nat
            /\ \A i \in 1..Len(Push(hist.undo, hist.layout)) :
                 Push(hist.undo, hist.layout)[i][1] = lay[1]
        <4>0. \A m, n \in Nat : m + n <= MaxHistory => m <= MaxHistory
          OBVIOUS
        <4>1. Len(hist.undo) <= MaxHistory
          BY <1>2, <4>0
        <4>2. /\ Push(hist.undo, hist.layout) \in Seq(Shown)
              /\ Len(Push(hist.undo, hist.layout)) <= MaxHistory
              /\ Len(Push(hist.undo, hist.layout)) \in Nat
              /\ \A i \in 1..Len(Push(hist.undo, hist.layout)) :
                   \/ Push(hist.undo, hist.layout)[i] = hist.layout
                   \/ \E k \in 1..Len(hist.undo) :
                        Push(hist.undo, hist.layout)[i] = hist.undo[k]
          BY <1>2, <4>1, PushSound
        <4>3. QED
          BY <1>2, <1>4, <4>2
      <3>3. hist.ops + 1 \in 0..MaxOps
        BY <1>2, <1>3, <2>4
      <3>4. <<>> \in Seq(Shown) /\ Len(<<>>) = 0
        OBVIOUS
      <3>5. QED
        BY <1>3, <1>5, <3>1, <3>2, <3>3, <3>4 DEF Histories
    <2>5. CASE cur.kind = "relayout"
      <3>1. Accepted = [hist EXCEPT !.layout = Wanted, !.undo = <<>>, !.redo = <<>>]
        BY <2>5 DEF Accepted, Rebase
      <3>2. Accepted = [layout |-> Wanted, undo |-> <<>>, redo |-> <<>>, ops |-> hist.ops]
        BY <1>2, <3>1 DEF Histories
      <3>3. hist.ops \in 0..MaxOps
        BY <1>2 DEF Histories
      <3>4. QED
        BY <1>5, <3>2, <3>3 DEF Histories
    <2>6. QED
      BY <1>3, <2>1, <2>2, <2>3, <2>4, <2>5
  <1> HIDE DEF Accepted, Wanted
  <1>8. LayoutTypes'
    BY <1>1, <1>5, <1>6, <1>7 DEF LayoutsSound, LayoutTypes
  <1>9. OneLayout'
    BY <1>1, <1>6, <1>7 DEF OneLayout
  <1>10. RequestFits'
    BY <1>1 DEF RequestFits, Relaying, Closing
  <1>11. QED
    BY <1>8, <1>9, <1>10 DEF LayoutsSound

\* A new generation starts with an empty history.
LEMMA StartKeepsLayouts ==
  ASSUME LayoutsSound, NEW l \in Asked, lay' = l, act' = l, pc' = "loop",
         hist' = NewHistory(l) \/ hist' = Rebase(hist, l), UNCHANGED <<queue, cur>>
  PROVE  LayoutsSound'
  <1> USE SessionAssumption
  <1>1. l \in Shown
    BY AskedShown
  <1>2. hist' \in Histories /\ hist'.layout = l /\ hist'.undo = <<>> /\ hist'.redo = <<>>
    <2>1. CASE hist' = NewHistory(l)
      BY <1>1, <2>1 DEF NewHistory, Histories
    <2>2. CASE hist' = Rebase(hist, l)
      <3>1. hist \in Histories /\ hist.ops \in 0..MaxOps
        BY DEF LayoutsSound, LayoutTypes, Histories
      <3>2. hist' = [layout |-> l, undo |-> <<>>, redo |-> <<>>, ops |-> hist.ops]
        BY <2>2, <3>1 DEF Rebase, Histories
      <3>3. QED
        BY <1>1, <3>1, <3>2 DEF Histories
    <2>3. QED
      BY <2>1, <2>2
  <1>3. LayoutTypes' /\ OneLayout'
    BY <1>1, <1>2 DEF LayoutsSound, LayoutTypes, OneLayout
  <1>4. RequestFits'
    BY DEF RequestFits, Relaying, Closing
  <1>5. QED
    BY <1>3, <1>4 DEF LayoutsSound

\* Before the run there is no layout.
LEMMA LayoutsInit == Init => LayoutsSound
  <1> SUFFICES ASSUME Init PROVE LayoutsSound
    OBVIOUS
  <1> USE SessionAssumption DEF Init
  <1>1. hist = [layout |-> NoLayout, undo |-> <<>>, redo |-> <<>>, ops |-> 0]
    BY DEF NewHistory
  <1>2. LayoutTypes /\ OneLayout
    BY <1>1, AskedShown DEF LayoutTypes, OneLayout, Histories
  <1>3. RequestFits
    BY DEF RequestFits, Relaying, Closing
  <1>4. QED
    BY <1>2, <1>3 DEF LayoutsSound

\* Every step of S and W keeps the layouts in agreement.
LEMMA NextKeepsLayouts == ASSUME LayoutsSound, [Next]_vars PROVE LayoutsSound'
  <1> USE SessionAssumption DEF control, hostvars, appvars, wvars, Raise
  <1>0. queue \in Seq(Controls) /\ Len(queue) <= MaxPending
    BY DEF LayoutsSound, LayoutTypes
  <1>1. ASSUME Steers, UNCHANGED <<lay, act, hist, queue, cur>> PROVE LayoutsSound'
    BY <1>0, <1>1, SteersKeepsLayouts
  <1>2. ASSUME NEW c \in Controls, Enqueue(c) \/ PointerUp(c) PROVE LayoutsSound'
    <2>1. /\ UNCHANGED <<lay, act, hist, cur>>
          /\ queue' = queue \/ (queue' = Append(queue, c) /\ Len(queue) < MaxPending)
          /\ pc' = pc \/ pc' = "failing"
      BY <1>2 DEF Enqueue, PointerUp
    <2>2. queue' \in Seq(Controls) /\ Len(queue') <= MaxPending
      <3>1. Len(queue) \in Nat /\ Append(queue, c) \in Seq(Controls)
            /\ Len(Append(queue, c)) = Len(queue) + 1
        BY <1>0, AppendSound
      <3>2. QED
        BY <1>0, <2>1, <3>1
    <2>3. QED
      BY <2>1, <2>2, SteersKeepsLayouts DEF Steers, Over
  <1>3. ASSUME NEW ok \in BOOLEAN, RunBegin(ok) \/ UserClosed(ok) PROVE LayoutsSound'
    BY <1>1, <1>3 DEF RunBegin, UserClosed, Steers, Over
  <1>4. ASSUME NEW ok \in BOOLEAN, CloseApplication(ok) PROVE LayoutsSound'
    <2>1. /\ UNCHANGED <<lay, act, hist, cur>> /\ queue' = <<>> /\ pc' = "done"
      BY <1>4 DEF CloseApplication
    <2>2. QED
      BY <2>1, SteersKeepsLayouts DEF Steers, Over
  <1>5. ASSUME NEW l \in Asked, StartOk(l) PROVE LayoutsSound'
    BY <1>5, StartKeepsLayouts DEF StartOk
  <1>6. ASSUME NEW r \in {"failed", "cancelled"}, StartFails(r) \/ RelayoutFails(r)
        PROVE  LayoutsSound'
    BY <1>1, <1>6 DEF StartFails, RelayoutFails, HostFailed, Steers, Over
  <1>7. CASE ControlsDone
    <2>1. /\ UNCHANGED <<lay, act, hist, queue>> /\ cur' = [kind |-> "none"] /\ pc' = "pump"
      BY <1>7 DEF ControlsDone
    <2>2. LayoutTypes' /\ OneLayout'
      BY <2>1 DEF LayoutsSound, LayoutTypes, OneLayout
    <2>3. RequestFits'
      BY <2>1 DEF RequestFits, Relaying, Closing
    <2>4. QED
      BY <2>2, <2>3 DEF LayoutsSound
  <1>8. CASE RelayoutApp
    BY <1>1, <1>8 DEF RelayoutApp, Steers, Over, Relaying
  <1>9. CASE RelayoutHost
    BY <1>1, <1>9 DEF RelayoutHost, FailClosed, Steers, Over, Relaying
  <1>10. CASE RelayoutRuntime
    BY <1>1, <1>10 DEF RelayoutRuntime, HostFailed, Steers, Over
  <1>11. CASE PumpQuiet \/ PumpResized \/ PumpClose \/ PumpRefused
    BY <1>1, <1>11 DEF PumpQuiet, PumpResized, PumpClose, PumpRefused, Steers, Over, Closing
  <1>12. CASE PumpFails
    BY <1>1, <1>12 DEF PumpFails, FailClosed, Steers, Over
  <1>13. CASE CloseHostBegin \/ CloseRuntimeBegin
    BY <1>1, <1>13 DEF CloseHostBegin, CloseRuntimeBegin, Steers, Closing
  <1>14. CASE CheckWait \/ Wake
    BY <1>1, <1>14 DEF CheckWait, Wake, Steers, Over
  <1>15. CASE StopControl \/ StopAtLimit
    <2>1. UNCHANGED lay
      BY <1>15 DEF StopControl, StopAtLimit, StopRuntime, HostFailed
    <2>2. UNCHANGED <<act, hist, queue, cur>> /\ pc' \in {"ending", "failing"}
      BY <1>15 DEF StopControl, StopAtLimit
    <2>3. QED
      BY <1>1, <2>1, <2>2 DEF Steers, Over
  <1>16. CASE ReplaceOk
    <2>1. /\ pc = "replace" /\ lay' = cur.layout /\ act' = cur.layout /\ pc' = "loop"
          /\ hist' = Rebase(hist, cur.layout) /\ UNCHANGED <<queue, cur>>
      BY <1>16 DEF ReplaceOk
    <2>2. cur \in Controls /\ cur.kind = "replace"
      BY <2>1 DEF LayoutsSound, LayoutTypes, RequestFits
    <2>3. cur.layout \in Asked
      BY <2>2, ControlForms
    <2>4. QED
      BY <2>1, <2>3, StartKeepsLayouts
  <1>17. CASE ReplaceFails
    <2>1. UNCHANGED lay
      BY <1>17 DEF ReplaceFails, FailClosed, HostFailed, SuccessorFails
    <2>2. UNCHANGED <<act, hist, queue, cur>> /\ pc' = "failing"
      BY <1>17 DEF ReplaceFails
    <2>3. QED
      BY <1>1, <2>1, <2>2 DEF Steers, Over
  <1>18. CASE Failing
    BY <1>1, <1>18 DEF Failing, Steers, Over
  <1>19. CASE Cancelled
    <2>1. UNCHANGED lay
      BY <1>19 DEF Cancelled, FailClosed, HostFailed
    <2>2. UNCHANGED <<act, hist, queue, cur>> /\ pc' = "failing"
      BY <1>19 DEF Cancelled
    <2>3. QED
      BY <1>1, <2>1, <2>2 DEF Steers, Over
  <1>20. CASE Wait
    <2>1. UNCHANGED <<lay, pc>>
      BY <1>20 DEF Wait, WaitBegin, WaitMedia, WaitRuntime, WaitHost, WaitApp, FailClosed
    <2>2. UNCHANGED <<act, hist, queue, cur>>
      BY <1>20 DEF Wait, WaitBegin, WaitMedia, WaitRuntime, WaitHost, WaitApp
    <2>3. QED
      BY <1>1, <2>1, <2>2 DEF Steers
  <1>21. CASE Close \/ UNCHANGED vars \/ (\E how \in {"complete", "failed"} : MediaEnds(how))
    BY <1>1, <1>21 DEF Close, vars, MediaEnds, Steers
  <1>22. Edits \subseteq Controls
    BY DEF Controls
  <1>23. CASE Session
    BY <1>2, <1>3, <1>4, <1>5, <1>6, <1>7, <1>8, <1>9, <1>10, <1>11, <1>12, <1>13, <1>14,
       <1>15, <1>16, <1>17, <1>18, <1>22, <1>23, TakeControlKeepsLayouts,
       RelayoutOkKeepsLayouts DEF Session
  <1>24. QED
    BY <1>2, <1>19, <1>20, <1>21, <1>23 DEF Next

-----------------------------------------------------------------------------
(* The two tasks.                                                          *)

\* A clean-up leaves nothing open, and does not touch what was closed before.
LEMMA CleanupSound ==
  ASSUME StateTypes, Cleanup
  PROVE  /\ media' \in Gone /\ win' \in Gone /\ faults' \in 0..MaxFaults
         /\ media # "none" => media' # "none"
         /\ win # "none" => win' # "none"
         /\ media \in Gone => media' = media
         /\ win \in Gone => win' = win
  BY SessionAssumption DEF StateTypes, Cleanup, Gone

\* A generation that is accounted for is counted, once.
LEMMA AccountSound ==
  ASSUME GenerationsSound, Account
  PROVE  counted' = gen /\ ended' = gen /\ gen \in Nat /\ gen <= MaxGen
  BY SessionAssumption DEF GenerationsSound, Account

\* What closing the host does, however it went.
Released ==
  /\ ~owned' /\ hrun' = 0 /\ host' \in {"ready", "closed", "failed"}
  /\ rt' \in {"none", "running", "complete", "stopped", "closed", "failed"}
  /\ media' \in Gone /\ win' \in Gone
  /\ gen > 0 => media' # "none" /\ win' # "none"
  /\ faults' \in 0..MaxFaults
  /\ counted' \in 0..gen /\ ended' = (IF counted' = gen THEN gen ELSE gen - 1)
  /\ counted = gen => counted' = gen
  /\ hrun = 0 => media' = media /\ win' = win

LEMMA CloseHostSound ==
  ASSUME TasksSound, NEW ok \in BOOLEAN, CloseHost(ok)
  PROVE  /\ Released
         /\ ok /\ hrun # 0 => media' = "closed" /\ win' = "closed"
  <1> USE SessionAssumption DEF TasksSound
  <1>1. CASE ~owned \/ host \in {"ready", "closed"}
    <2>1. hrun = 0 /\ UNCHANGED <<hrun, counted, ended, rt, media, win, faults>> /\ owned' = FALSE
      BY <1>1 DEF CloseHost, GenerationsSound
    <2>2. host' \in {"ready", "closed", "failed"}
      BY <1>1, <2>1 DEF CloseHost, GenerationsSound, StateTypes
    <2>3. QED
      BY <2>1, <2>2 DEF Released, StateTypes, GenerationsSound, ChildrenSound
  <1>2. CASE owned /\ host \notin {"ready", "closed"}
    <2>1. Release(ok) /\ host' \in {"closed", "failed"} /\ owned' = FALSE
      BY <1>2 DEF CloseHost
    <2>2. CASE hrun = 0
      <3>1. hrun' = 0 /\ UNCHANGED <<counted, ended, rt, media, win, faults>>
        BY <2>1, <2>2 DEF Release
      <3>2. QED
        BY <2>1, <2>2, <3>1 DEF Released, StateTypes, GenerationsSound, ChildrenSound
    <2>3. CASE hrun # 0
      <3>1. Cleanup /\ hrun' = 0 /\ rt' \in {"closed", "failed"} /\ (ok => Clean)
        BY <2>1, <2>3 DEF Release
      <3>2. UNCHANGED <<counted, ended>> \/ Account
        BY <2>1, <2>3 DEF Release
      <3>3. /\ media' \in Gone /\ win' \in Gone /\ faults' \in 0..MaxFaults
            /\ media # "none" => media' # "none"
            /\ win # "none" => win' # "none"
        BY <3>1, CleanupSound
      <3>4. gen > 0 /\ media # "none" /\ win # "none"
        BY <2>3 DEF GenerationsSound, ChildrenSound
      <3>5. /\ counted' \in 0..gen /\ ended' = (IF counted' = gen THEN gen ELSE gen - 1)
            /\ counted = gen => counted' = gen
        <4>1. CASE Account
          BY <4>1, AccountSound
        <4>2. CASE UNCHANGED <<counted, ended>>
          BY <4>2 DEF GenerationsSound
        <4>3. QED
          BY <3>2, <4>1, <4>2
      <3>6. Released
        BY <2>1, <2>3, <3>1, <3>3, <3>4, <3>5 DEF Released
      <3>7. ok => media' = "closed" /\ win' = "closed"
        BY <3>1, <3>3, <3>4 DEF Clean, Gone
      <3>8. QED
        BY <3>6, <3>7
    <2>4. QED
      BY <2>2, <2>3
  <1>3. QED
    BY <1>1, <1>2

\* The application is down: the host closed, the shell destroyed, no lock held.
Down == Released /\ app' = "failed" /\ shell' \in {"none", "destroyed"} /\ held' = 0 /\ gen' = gen

LEMMA ShellSound ==
  ASSUME StateTypes, DestroyShell
  PROVE  shell' \in {"none", "destroyed"}
  BY DEF StateTypes, DestroyShell

LEMMA FailClosedSound == ASSUME TasksSound, FailClosed PROVE Down
  <1>1. PICK ok \in BOOLEAN : CloseHost(ok)
    BY DEF FailClosed
  <1>2. Released
    BY <1>1, CloseHostSound
  <1>3. QED
    BY <1>2, ShellSound DEF FailClosed, Down, TasksSound

LEMMA HostFailedSound == ASSUME TasksSound, HostFailed PROVE Down
  <1> USE SessionAssumption DEF TasksSound
  <1>1. /\ hrun # 0 /\ Cleanup /\ rt' = "closed" /\ hrun' = 0 /\ host' = "closed"
        /\ owned' = FALSE /\ app' = "failed" /\ held' = 0
        /\ UNCHANGED <<gen, counted, ended>>
    BY DEF HostFailed
  <1>2. /\ media' \in Gone /\ win' \in Gone /\ faults' \in 0..MaxFaults
        /\ media # "none" => media' # "none"
        /\ win # "none" => win' # "none"
    BY <1>1, CleanupSound
  <1>3. gen > 0 => media # "none" /\ win # "none"
    BY DEF ChildrenSound
  <1>4. /\ counted \in 0..gen /\ ended = (IF counted = gen THEN gen ELSE gen - 1)
    BY DEF GenerationsSound
  <1>5. Released
    BY <1>1, <1>2, <1>3, <1>4 DEF Released
  <1>6. QED
    BY <1>1, <1>5, ShellSound DEF Down, HostFailed

\* Everything but the place of S, its locks, its turn, its outcome and its cycles.
Still == UNCHANGED <<sess, app, owned, shell, host, hrun, gen, counted, ended, rt, media, win, faults>>

\* Something failed and brought the application down: the run fails.
LEMMA DownKeepsTasks ==
  ASSUME TasksSound, Down, pc \notin {"idle", "done"}, pc' = "failing", turn' = "S",
         term' \in {"failed", "cancelled"}, UNCHANGED <<sess, wpc, wres, wgen, cycles>>
  PROVE  TasksSound'
  <1> USE SessionAssumption DEF TasksSound, Down, Released, Steps, Relaying, Closing, Over
  <1>1. StateTypes' /\ LocksSound'
    BY DEF StateTypes, LocksSound, Gone
  <1>2. RunSound'
    BY DEF RunSound
  <1>3. GenerationsSound'
    BY DEF GenerationsSound, WOver
  <1>4. ChildrenSound' /\ OutcomeSound'
    BY DEF ChildrenSound, OutcomeSound, RunSound
  <1>5. QED
    BY <1>1, <1>2, <1>3, <1>4

\* S goes on, or gives up.
Turns == IF pc' = "failing" THEN term' \in {"failed", "cancelled"} ELSE term' = "none"

LEMMA SteersKeepsTasks ==
  ASSUME TasksSound, Still, UNCHANGED <<wpc, wres, wgen>>, LocksSound',
         pc \notin {"idle", "starting"} \cup Over,
         pc' \in Steps \ {"idle", "starting", "ending", "done"}, turn' \in {"S", "W", "free"}, Turns,
         pc' \in Closing => owned
  PROVE  TasksSound'
  <1> USE SessionAssumption DEF TasksSound, Still, Turns, Steps, Relaying, Closing, Over
  <1>1. StateTypes'
    BY DEF StateTypes
  <1>2. RunSound'
    BY DEF RunSound
  <1>3. GenerationsSound'
    BY DEF GenerationsSound, WOver
  <1>4. ChildrenSound' /\ OutcomeSound'
    BY DEF ChildrenSound, OutcomeSound, RunSound
  <1>5. QED
    BY <1>1, <1>2, <1>3, <1>4

\* After S cancelled W, W is over, or it is cleaning up after its own error.
LEMMA CancelWaitSound ==
  ASSUME TasksSound, CancelWait
  PROVE  /\ wres' = wres /\ wgen' = wgen
         /\ wpc' = wpc \/ wpc' = "cancelled"
         /\ WOver' \/ wres = "error"
         /\ wpc' # wpc => ~WOver
         /\ wpc' # wpc /\ owned => wpc # "app" \/ wres # "error"
  BY DEF TasksSound, CancelWait, WOver, RunSound

LEMMA CancelKeepsTasks ==
  ASSUME TasksSound, Still, CancelWait, LocksSound',
         pc \notin {"idle", "starting", "ending", "done"},
         \/ pc # "failing" /\ pc' \in {"stop", "replace", "limit"}
         \/ pc = "failing" /\ pc' = "ending",
         turn' = "free", UNCHANGED term
  PROVE  TasksSound'
  <1> USE SessionAssumption DEF TasksSound, Still, Steps, Relaying, Closing, Over
  <1>0. /\ wres' = wres /\ wgen' = wgen
        /\ wpc' = wpc \/ wpc' = "cancelled"
        /\ WOver' \/ wres = "error"
        /\ wpc' # wpc => ~WOver
        /\ wpc' # wpc /\ owned => wpc # "app" \/ wres # "error"
    BY CancelWaitSound
  <1>1. StateTypes'
    BY <1>0 DEF StateTypes
  <1>2. RunSound'
    BY DEF RunSound
  <1>3. GenerationsSound'
    BY <1>0 DEF GenerationsSound, WOver
  <1>4. ChildrenSound'
    BY DEF ChildrenSound
  <1>5. OutcomeSound'
    BY <1>0 DEF OutcomeSound, RunSound, WOver
  <1>6. QED
    BY <1>1, <1>2, <1>3, <1>4, <1>5

LEMMA TasksInit == Init => TasksSound
  <1> SUFFICES ASSUME Init PROVE TasksSound
    OBVIOUS
  <1> USE SessionAssumption DEF Init, Steps, Relaying, Closing, Over
  <1>1. StateTypes /\ LocksSound
    BY DEF StateTypes, LocksSound
  <1>2. RunSound
    BY DEF RunSound, WOver
  <1>3. GenerationsSound
    BY DEF GenerationsSound, WOver
  <1>4. ChildrenSound /\ OutcomeSound
    BY DEF ChildrenSound, OutcomeSound, Gone
  <1>5. QED
    BY <1>1, <1>2, <1>3, <1>4 DEF TasksSound

\* Beginning, and a generation that starts or does not.
LEMMA BeginKeepsTasks ==
  ASSUME TasksSound, NEW ok \in BOOLEAN, RunBegin(ok) PROVE TasksSound'
  <1> USE SessionAssumption DEF TasksSound, hostvars, wvars, Steps, Relaying, Closing, Over
  <1>1. /\ sess = "ready" /\ sess' = "running" /\ pc = "idle" /\ app = "ready"
        /\ gen = 0 /\ WOver /\ hrun = 0 /\ held = 0 /\ term = "none" /\ cycles < MaxCycles
    BY DEF RunBegin, RunSound, GenerationsSound, LocksSound
  <1>2. /\ UNCHANGED <<held, wpc, wres, wgen, owned, host, hrun, gen, counted, ended, rt, media, win>>
        /\ UNCHANGED <<queue, cycles>>
    BY DEF RunBegin
  <1>3. /\ faults' \in 0..MaxFaults
        /\ \/ pc' = "starting" /\ turn' = "free" /\ term' = term /\ shell' = "open" /\ app' = "open"
           \/ pc' = "failing" /\ turn' = "S" /\ term' = "failed" /\ shell' = "none" /\ app' = "failed"
    BY DEF RunBegin, Open, Raise, StateTypes
  <1>4. StateTypes' /\ LocksSound'
    BY <1>1, <1>2, <1>3 DEF StateTypes, LocksSound
  <1>5. RunSound'
    BY <1>1, <1>2, <1>3 DEF RunSound
  <1>6. GenerationsSound'
    BY <1>1, <1>2, <1>3 DEF GenerationsSound, RunSound, WOver
  <1>7. ChildrenSound' /\ OutcomeSound'
    BY <1>1, <1>2, <1>3 DEF ChildrenSound, OutcomeSound, WOver
  <1>8. QED
    BY <1>4, <1>5, <1>6, <1>7

LEMMA StartKeepsTasks ==
  ASSUME TasksSound, NEW l \in Asked, StartOk(l) PROVE TasksSound'
  <1> USE SessionAssumption DEF TasksSound, Steps, Relaying, Closing, Over
  <1>1. /\ pc = "starting" /\ gen = 0 /\ shell = "open" /\ term = "none" /\ sess = "running"
        /\ counted = 0 /\ ended = 0 /\ held = 0 /\ cycles < MaxCycles /\ cycles \in Nat
    BY DEF StartOk, RunSound, GenerationsSound, LocksSound
  <1>2. /\ gen' = 1 /\ hrun' = 1 /\ rt' = "running" /\ media' = "running" /\ win' = "open"
        /\ wpc' = "new" /\ wres' = "none" /\ wgen' = 1
        /\ app' = "running" /\ owned' = TRUE /\ host' = "running" /\ pc' = "loop" /\ turn' = "S"
        /\ UNCHANGED <<sess, held, shell, counted, ended, cycles, term, faults>>
    BY <1>1 DEF StartOk, NewRuntime, NewWait
  <1>3. StateTypes' /\ LocksSound'
    BY <1>1, <1>2 DEF StateTypes, LocksSound
  <1>4. RunSound'
    BY <1>1, <1>2 DEF RunSound
  <1>5. GenerationsSound'
    BY <1>1, <1>2 DEF GenerationsSound, WOver
  <1>6. ChildrenSound' /\ OutcomeSound'
    BY <1>1, <1>2 DEF ChildrenSound, OutcomeSound
  <1>7. QED
    BY <1>3, <1>4, <1>5, <1>6

LEMMA StartFailsKeepsTasks ==
  ASSUME TasksSound, NEW r \in {"failed", "cancelled"}, StartFails(r) PROVE TasksSound'
  <1> USE SessionAssumption DEF TasksSound, hostvars, wvars, Steps, Relaying, Closing, Over
  <1>1. /\ pc = "starting" /\ gen = 0 /\ hrun = 0 /\ WOver /\ sess = "running"
        /\ held = 0 /\ cycles \in 0..MaxCycles
    BY DEF StartFails, RunSound, GenerationsSound, LocksSound
  <1>2. /\ owned' = FALSE /\ app' = "failed" /\ faults' \in 0..MaxFaults
        /\ pc' = "failing" /\ turn' = "S" /\ term' = r
        /\ UNCHANGED <<sess, held, wpc, wres, wgen, host, hrun, gen, counted, ended, rt, media, win>>
        /\ UNCHANGED cycles
    BY DEF StartFails, Raise, StateTypes
  <1>3. shell' \in {"none", "destroyed"}
    BY ShellSound DEF StartFails
  <1>4. StateTypes' /\ LocksSound'
    BY <1>1, <1>2, <1>3 DEF StateTypes, LocksSound
  <1>5. RunSound'
    BY <1>1, <1>2, <1>3 DEF RunSound
  <1>6. GenerationsSound'
    BY <1>1, <1>2 DEF GenerationsSound, WOver
  <1>7. ChildrenSound' /\ OutcomeSound'
    BY <1>1, <1>2 DEF ChildrenSound, OutcomeSound, WOver
  <1>8. QED
    BY <1>4, <1>5, <1>6, <1>7

\* A successor, or none.
LEMMA ReplaceKeepsTasks ==
  ASSUME TasksSound, ReplaceOk PROVE TasksSound'
  <1> USE SessionAssumption DEF TasksSound, Steps, Relaying, Closing, Over
  <1>1. /\ pc = "replace" /\ gen \in Nat /\ gen < MaxGen /\ owned /\ shell = "open"
        /\ term = "none" /\ sess = "running" /\ held = 0 /\ cycles < MaxCycles /\ cycles \in Nat
    BY DEF ReplaceOk, Replaceable, RunSound, GenerationsSound, LocksSound
  <1>2. counted' = gen /\ ended' = gen
    BY AccountSound DEF ReplaceOk
  <1>3. /\ gen' = gen + 1 /\ hrun' = gen + 1 /\ rt' = "running" /\ media' = "running"
        /\ win' = "open" /\ wpc' = "new" /\ wres' = "none" /\ wgen' = gen'
        /\ app' = "running" /\ host' = "running" /\ pc' = "loop" /\ turn' = "S"
        /\ UNCHANGED <<sess, held, owned, shell, cycles, term, faults>>
    BY DEF ReplaceOk, NewRuntime, NewWait
  <1>4. StateTypes' /\ LocksSound'
    BY <1>1, <1>3 DEF StateTypes, LocksSound
  <1>5. RunSound'
    BY <1>1, <1>3 DEF RunSound
  <1>6. GenerationsSound'
    BY <1>1, <1>2, <1>3 DEF GenerationsSound, WOver
  <1>7. ChildrenSound' /\ OutcomeSound'
    BY <1>1, <1>3 DEF ChildrenSound, OutcomeSound
  <1>8. QED
    BY <1>4, <1>5, <1>6, <1>7

LEMMA SuccessorKeepsTasks ==
  ASSUME TasksSound, SuccessorFails, Replaceable, gen < MaxGen, WOver, pc = "replace",
         pc' = "failing", turn' = "S", term' = "failed", UNCHANGED <<sess, wpc, wres, wgen, cycles>>
  PROVE  TasksSound'
  <1> USE SessionAssumption DEF TasksSound, Steps, Relaying, Closing, Over
  <1>1. /\ gen \in Nat /\ gen > 0 /\ sess = "running" /\ held = 0 /\ cycles \in 0..MaxCycles
        /\ media # "none" /\ win # "none"
    BY DEF Replaceable, RunSound, GenerationsSound, LocksSound, ChildrenSound
  <1>2. counted' = gen /\ ended' = gen
    BY AccountSound DEF SuccessorFails
  <1>3. /\ media' \in Gone /\ win' \in Gone /\ faults' \in 0..MaxFaults
        /\ media' # "none" /\ win' # "none"
    BY <1>1, CleanupSound DEF SuccessorFails
  <1>4. /\ rt' = "closed" /\ hrun' = 0 /\ host' = "closed" /\ gen' = gen + 1 /\ owned' = FALSE
        /\ app' = "failed" /\ UNCHANGED held
    BY DEF SuccessorFails
  <1>5. shell' \in {"none", "destroyed"}
    BY ShellSound DEF SuccessorFails
  <1>6. StateTypes' /\ LocksSound'
    BY <1>1, <1>3, <1>4, <1>5 DEF StateTypes, LocksSound, Gone
  <1>7. RunSound'
    BY <1>1, <1>4, <1>5 DEF RunSound
  <1>8. GenerationsSound'
    BY <1>1, <1>2, <1>4 DEF GenerationsSound, WOver
  <1>9. ChildrenSound' /\ OutcomeSound'
    BY <1>1, <1>3, <1>4 DEF ChildrenSound, OutcomeSound, WOver
  <1>10. QED
    BY <1>6, <1>7, <1>8, <1>9

\* A generation is stopped and its application with it.
LEMMA StopKeepsTasks ==
  ASSUME TasksSound, Stoppable, StopRuntime, WOver, pc \in {"stop", "limit"},
         \/ pc' = "ending" /\ term' = "complete" /\ turn' = "free"
         \/ pc' = "failing" /\ term' = "failed" /\ turn' = "S",
         UNCHANGED <<sess, wpc, wres, wgen, cycles>>
  PROVE  TasksSound'
  <1> USE SessionAssumption DEF TasksSound, Steps, Relaying, Closing, Over
  <1>1. /\ gen \in Nat /\ gen > 0 /\ sess = "running" /\ held = 0 /\ cycles \in 0..MaxCycles
        /\ media # "none" /\ win # "none" /\ owned /\ hrun # 0 /\ hrun = gen
    BY DEF Stoppable, RunSound, GenerationsSound, LocksSound, ChildrenSound
  <1>2. counted' = gen /\ ended' = gen
    BY AccountSound DEF StopRuntime
  <1>3. /\ media' \in Gone /\ win' \in Gone /\ faults' \in 0..MaxFaults
        /\ media' # "none" /\ win' # "none"
    BY <1>1, CleanupSound DEF StopRuntime
  <1>4. /\ rt' = "stopped" /\ host' = "stopped" /\ app' = "stopped"
        /\ UNCHANGED <<hrun, gen, owned, shell, held>>
    BY DEF StopRuntime
  <1>5. StateTypes' /\ LocksSound'
    BY <1>1, <1>3, <1>4 DEF StateTypes, LocksSound, Gone
  <1>6. RunSound'
    BY <1>1, <1>4 DEF RunSound
  <1>7. GenerationsSound'
    BY <1>1, <1>2, <1>4 DEF GenerationsSound, WOver
  <1>8. ChildrenSound' /\ OutcomeSound'
    BY <1>1, <1>2, <1>3, <1>4 DEF ChildrenSound, OutcomeSound, WOver
  <1>9. QED
    BY <1>5, <1>6, <1>7, <1>8

\* The user closes the window.
LEMMA UserClosedKeepsTasks ==
  ASSUME TasksSound, NEW ok \in BOOLEAN, UserClosed(ok) PROVE TasksSound'
  <1> USE SessionAssumption DEF TasksSound, Steps, Relaying, Closing, Over
  <1>1. /\ pc = "close_wait" /\ sess = "running" /\ owned /\ sess' = sess /\ held' = 0 /\ gen' = gen
        /\ cycles \in Nat /\ cycles < MaxCycles
    BY DEF UserClosed, RunSound, LocksSound
  <1>2. Released /\ (ok /\ hrun # 0 => media' = "closed" /\ win' = "closed")
    BY CloseHostSound DEF UserClosed
  <1>3. shell' \in {"none", "destroyed"}
    BY ShellSound DEF UserClosed
  <1>4. CASE ~ok
    <2>1. /\ app' = "failed" /\ pc' = "failing" /\ turn' = "S" /\ term' = "failed"
          /\ UNCHANGED <<wpc, wres, wgen, cycles>>
      BY <1>4 DEF UserClosed, Raise, wvars
    <2>2. QED
      BY <1>1, <1>2, <1>3, <2>1, DownKeepsTasks DEF Down
  <1>5. CASE ok
    <2>1. /\ app' = "closed" /\ term' = "user_closed" /\ cycles' = cycles + 1
          /\ CancelWait /\ pc' = "ending" /\ turn' = "free"
      BY <1>5 DEF UserClosed
    <2>2. /\ wres' = wres /\ wgen' = wgen
          /\ wpc' = wpc \/ wpc' = "cancelled"
          /\ WOver' \/ wres = "error"
          /\ wpc' # wpc => ~WOver
      BY <2>1, CancelWaitSound
    <2>3. (media' = "closed" /\ win' = "closed") \/ wres' = "error"
      BY <1>1, <1>2, <1>5, <2>2 DEF GenerationsSound
    <2> USE DEF Released
    <2>4. StateTypes' /\ LocksSound'
      BY <1>1, <1>2, <1>3, <2>1, <2>2 DEF StateTypes, LocksSound, Gone
    <2>5. RunSound'
      BY <1>1, <1>2, <1>3, <2>1 DEF RunSound
    <2>6. GenerationsSound'
      BY <1>1, <1>2, <2>1, <2>2 DEF GenerationsSound, WOver
    <2>7. ChildrenSound'
      BY <1>1, <1>2 DEF ChildrenSound
    <2>8. OutcomeSound'
      BY <1>1, <1>2, <2>1, <2>2, <2>3 DEF OutcomeSound, WOver
    <2>9. QED
      BY <2>4, <2>5, <2>6, <2>7, <2>8
  <1>6. QED
    BY <1>4, <1>5

\* The end of the run: what is left is released, and what the result says is so.
LEMMA EndKeepsTasks ==
  ASSUME TasksSound, NEW ok \in BOOLEAN, CloseApplication(ok) PROVE TasksSound'
  <1> USE SessionAssumption DEF TasksSound, Steps, Relaying, Closing, Over
  <1>1. /\ pc = "ending" /\ WOver /\ queue' = <<>> /\ pc' = "done" /\ turn' = "free"
        /\ sess = "running" /\ held = 0
        /\ UNCHANGED <<held, wpc, wres, wgen, gen, cycles, term>>
        /\ sess' = (IF ok THEN term ELSE "failed")
    BY DEF CloseApplication, RunSound, LocksSound, wvars
  <1>2. /\ Released /\ shell' \in {"none", "destroyed"} /\ app' \in {"closed", "failed"}
        /\ ok /\ hrun # 0 => media' = "closed" /\ win' = "closed"
    <2>1. CASE app = "closed"
      <3>1. UNCHANGED <<app, owned, shell, host, hrun, counted, ended, rt, media, win, faults>>
        BY <2>1 DEF CloseApplication
      <3>2. ~owned /\ hrun = 0 /\ shell # "open"
        BY <2>1 DEF RunSound, GenerationsSound
      <3>3. QED
        BY <2>1, <3>1, <3>2 DEF Released, StateTypes, GenerationsSound, ChildrenSound
    <2>2. CASE app # "closed"
      BY <2>2, CloseHostSound, ShellSound DEF CloseApplication
    <2>3. QED
      BY <2>1, <2>2
  <1>3. term \in {"complete", "user_closed", "cancelled", "failed"}
    BY <1>1 DEF RunSound, StateTypes
  <1>4. /\ term = "complete" => counted = gen /\ gen > 0 /\ hrun # 0
        /\ term = "user_closed" => /\ hrun = 0
                                   /\ (media = "closed" /\ win = "closed") \/ wres = "error"
    BY <1>1 DEF OutcomeSound, GenerationsSound
  <1>5. sess' = "complete" => media' = "closed" /\ win' = "closed"
    BY <1>1, <1>2, <1>4
  <1> USE DEF Released
  <1>6. StateTypes'
    BY <1>1, <1>2, <1>3 DEF StateTypes, Gone
  <1>7. LocksSound'
    BY <1>1 DEF LocksSound
  <1>8. RunSound'
    BY <1>1, <1>2, <1>3 DEF RunSound, WOver
  <1>9. GenerationsSound'
    BY <1>1, <1>2 DEF GenerationsSound, WOver
  <1>10. ChildrenSound'
    BY <1>1, <1>2 DEF ChildrenSound
  <1>11. OutcomeSound'
    BY <1>1, <1>2, <1>4, <1>5 DEF OutcomeSound, WOver
  <1>12. QED
    BY <1>6, <1>7, <1>8, <1>9, <1>10, <1>11

\* W: it begins to wait, and its presentation ends.
LEMMA WaitingKeepsTasks ==
  ASSUME TasksSound, Still, UNCHANGED <<pc, held, wgen, cycles, term, queue>>, turn' \in {"W", "free"},
         \/ wpc = "new" /\ wpc' \in {"media", "error"} /\ wres' = wres
         \/ wpc = "media" /\ wpc' = "rt" /\ wres' \in {"complete", "stopped", "error"}
  PROVE  TasksSound'
  <1> USE SessionAssumption DEF TasksSound, Still, Steps, Relaying, Closing, Over
  <1>1. ~WOver /\ wres = "none"
    BY DEF WOver, GenerationsSound
  <1>2. StateTypes' /\ LocksSound'
    BY DEF StateTypes, LocksSound
  <1>3. RunSound'
    BY <1>1 DEF RunSound
  <1>4. GenerationsSound'
    BY <1>1 DEF GenerationsSound, WOver
  <1>5. ChildrenSound' /\ OutcomeSound'
    BY <1>1 DEF ChildrenSound, OutcomeSound
  <1>6. QED
    BY <1>2, <1>3, <1>4, <1>5

LEMMA WaitRuntimeKeepsTasks == ASSUME TasksSound, WaitRuntime PROVE TasksSound'
  <1> USE SessionAssumption DEF TasksSound, appvars, control, Steps, Relaying, Closing, Over
  <1>1. /\ wpc = "rt" /\ wpc' = "host" /\ wgen' = wgen /\ turn' \in {"W", "free"}
        /\ wres' \in {wres, "error"} /\ wres # "none"
        /\ rt' \in {rt, wres, "failed"}
        /\ UNCHANGED <<sess, pc, held, app, owned, shell, host, hrun, gen, counted, ended>>
        /\ UNCHANGED <<cycles, term, queue>>
    BY DEF WaitRuntime, WTurn, GenerationsSound
  <1>2. (Cleanup /\ wres = "error" /\ rt' = "failed") \/ UNCHANGED <<media, win, faults>>
    BY DEF WaitRuntime
  <1>3. /\ media' = media \/ media' \in Gone
        /\ win' = win \/ win' \in Gone
        /\ faults' \in 0..MaxFaults
        /\ media # "none" => media' # "none"
        /\ win # "none" => win' # "none"
        /\ media \in Gone => media' = media
        /\ win \in Gone => win' = win
    BY <1>2, CleanupSound DEF StateTypes
  <1>4. rt' \in {"none", "running", "complete", "stopped", "closed", "failed"}
    BY DEF WaitRuntime, StateTypes, GenerationsSound
  <1>5. ~WOver
    BY <1>1 DEF WOver
  <1>6. StateTypes'
    BY <1>1, <1>3, <1>4 DEF StateTypes, Gone
  <1>7. LocksSound' /\ RunSound'
    BY <1>1, <1>5 DEF LocksSound, RunSound
  <1>8. GenerationsSound'
    BY <1>1, <1>5 DEF GenerationsSound, WOver
  <1>9. ChildrenSound'
    BY <1>1, <1>3 DEF ChildrenSound
  <1>10. OutcomeSound'
    BY <1>1, <1>3, <1>5 DEF OutcomeSound, RunSound
  <1>11. QED
    BY <1>6, <1>7, <1>8, <1>9, <1>10

LEMMA WaitHostKeepsTasks == ASSUME TasksSound, WaitHost PROVE TasksSound'
  <1> USE SessionAssumption DEF TasksSound, appvars, control, SameRuntime, Steps, Relaying, Closing,
      Over
  <1>1. /\ wpc = "host" /\ wpc' = "app" /\ wgen' = wgen /\ turn' \in {"W", "free"}
        /\ UNCHANGED <<sess, pc, held, app, owned, shell, gen, cycles, term, queue>>
    BY DEF WaitHost, WTurn
  <1>2. ~WOver /\ wgen = gen /\ gen > 0 /\ wres # "none" /\ (owned => hrun = gen)
    BY <1>1 DEF WOver, GenerationsSound
  <1>3. CASE wres = "error" /\ SameRuntime
    <2>1. /\ Cleanup /\ rt' = "closed" /\ hrun' = 0 /\ host' = "failed" /\ wres' = wres
          /\ UNCHANGED <<counted, ended>>
      BY <1>3 DEF WaitHost
    <2>2. /\ media' \in Gone /\ win' \in Gone /\ faults' \in 0..MaxFaults
          /\ media # "none" => media' # "none"
          /\ win # "none" => win' # "none"
      BY <2>1, CleanupSound
    <2>3. StateTypes'
      BY <1>1, <2>1, <2>2 DEF StateTypes, Gone
    <2>4. LocksSound' /\ RunSound'
      BY <1>1, <1>2 DEF LocksSound, RunSound
    <2>5. GenerationsSound'
      BY <1>1, <1>2, <1>3, <2>1 DEF GenerationsSound, WOver
    <2>6. ChildrenSound'
      BY <1>1, <2>1, <2>2 DEF ChildrenSound
    <2>7. OutcomeSound'
      BY <1>1, <1>2, <1>3, <2>1 DEF OutcomeSound, RunSound
    <2>8. QED
      BY <2>3, <2>4, <2>5, <2>6, <2>7
  <1>4. CASE ~(wres = "error" /\ SameRuntime)
    <2>1. UNCHANGED <<rt, media, win, faults, hrun>>
      BY <1>4 DEF WaitHost
    <2>2. /\ counted' \in 0..gen /\ ended' = (IF counted' = gen THEN gen ELSE gen - 1)
          /\ wres' = "error" \/ (wres # "error" /\ counted' = gen)
          /\ wres' \in {"complete", "stopped", "error"}
          /\ host' = host \/ (hrun = gen /\ host' \in {"complete", "stopped"})
      <3>1. CASE wres # "error" /\ SameRuntime
        <4>1. host' = wres /\ Account /\ wres' = wres
          BY <3>1 DEF WaitHost
        <4>2. counted' = gen /\ ended' = gen /\ gen \in Nat
          BY <4>1, AccountSound
        <4>3. QED
          BY <1>2, <3>1, <4>1, <4>2 DEF StateTypes
      <3>2. CASE ~SameRuntime
        <4>1. wres' = "error" /\ UNCHANGED <<host, counted, ended>>
          BY <3>2 DEF WaitHost
        <4>2. QED
          BY <4>1 DEF GenerationsSound
      <3>3. QED
        BY <1>4, <3>1, <3>2
    <2>3. StateTypes'
      BY <1>1, <2>1, <2>2 DEF StateTypes
    <2>4. LocksSound' /\ RunSound'
      BY <1>1, <1>2 DEF LocksSound, RunSound
    <2>5. GenerationsSound'
      BY <1>1, <1>2, <2>1, <2>2 DEF GenerationsSound, WOver
    <2>6. ChildrenSound'
      BY <1>1, <2>1 DEF ChildrenSound
    <2>7. OutcomeSound'
      BY <1>1, <1>2, <2>1, <2>2 DEF OutcomeSound, RunSound, WOver
    <2>8. QED
      BY <2>3, <2>4, <2>5, <2>6, <2>7
  <1>5. QED
    BY <1>3, <1>4

LEMMA WaitAppKeepsTasks == ASSUME TasksSound, WaitApp PROVE TasksSound'
  <1> USE SessionAssumption DEF TasksSound, control, Steps, Relaying, Closing, Over
  <1>1. /\ wpc = "app" /\ wgen' = wgen /\ wres' = wres /\ turn' = "free" /\ held < 1
        /\ UNCHANGED <<sess, pc, cycles, term, queue>>
    BY DEF WaitApp, WFree
  <1>2. /\ ~WOver /\ wgen = gen /\ gen > 0 /\ held = 0 /\ pc \notin {"idle", "starting", "done"}
        /\ pc \notin Closing
    BY <1>1 DEF WOver, GenerationsSound, RunSound, LocksSound
  <1>3. CASE wres = "error"
    <2>1. wpc' = "error" /\ FailClosed
      BY <1>3 DEF WaitApp
    <2>2. Down
      BY <2>1, FailClosedSound
    <2> USE DEF Down, Released
    <2>3. StateTypes' /\ LocksSound'
      BY <1>1, <1>2, <2>1, <2>2 DEF StateTypes, LocksSound, Gone
    <2>4. RunSound'
      BY <1>1, <1>2, <2>2 DEF RunSound
    <2>5. GenerationsSound'
      BY <1>1, <1>2, <2>1, <2>2 DEF GenerationsSound, WOver
    <2>6. ChildrenSound'
      BY <2>2 DEF ChildrenSound
    <2>7. OutcomeSound'
      BY <1>1, <1>2, <1>3, <2>1, <2>2 DEF OutcomeSound, RunSound, WOver
    <2>8. QED
      BY <2>3, <2>4, <2>5, <2>6, <2>7
  <1>4. CASE wres # "error"
    <2>1. /\ \/ owned /\ app' = wres /\ wpc' = "done"
             \/ ~owned /\ app' = app /\ wpc' = "error"
          /\ UNCHANGED <<owned, shell, held, faults, host, hrun, gen, counted, ended, rt, media, win>>
      BY <1>4 DEF WaitApp, hostvars
    <2>2. wres \in {"complete", "stopped"} /\ counted = gen /\ (owned => hrun # 0)
      BY <1>1, <1>4 DEF StateTypes, GenerationsSound, OutcomeSound
    <2>3. StateTypes' /\ LocksSound'
      BY <1>1, <1>2, <2>1, <2>2 DEF StateTypes, LocksSound
    <2>4. RunSound'
      BY <1>1, <1>2, <2>1, <2>2 DEF RunSound
    <2>5. GenerationsSound'
      BY <1>1, <1>2, <2>1, <2>2 DEF GenerationsSound, WOver
    <2>6. ChildrenSound'
      BY <2>1 DEF ChildrenSound
    <2>7. OutcomeSound'
      BY <1>1, <1>2, <1>4, <2>1, <2>2 DEF OutcomeSound, RunSound, WOver
    <2>8. QED
      BY <2>3, <2>4, <2>5, <2>6, <2>7
  <1>5. QED
    BY <1>3, <1>4

\* A request is queued, the session closed, or a presentation ends.
LEMMA OutsideKeepsTasks ==
  ASSUME TasksSound,
         (\E c \in Controls : Enqueue(c)) \/ Close \/ (\E how \in {"complete", "failed"} : MediaEnds(how))
  PROVE  TasksSound'
  <1> USE SessionAssumption DEF TasksSound, control, hostvars, appvars, wvars, Steps, Relaying,
      Closing, Over
  <1>1. CASE \E c \in Controls : Enqueue(c)
    <2>1. /\ pc # "done" /\ Still
          /\ UNCHANGED <<pc, turn, held, wpc, wres, wgen, cycles, term>>
      BY <1>1 DEF Enqueue, Still
    <2>2. StateTypes' /\ LocksSound' /\ RunSound'
      BY <2>1 DEF StateTypes, LocksSound, RunSound, Still
    <2>3. GenerationsSound' /\ ChildrenSound' /\ OutcomeSound'
      BY <2>1 DEF GenerationsSound, ChildrenSound, OutcomeSound, WOver, Still
    <2>4. QED
      BY <2>2, <2>3
  <1>2. CASE Close
    <2>1. /\ sess' = "closed" /\ sess # "running"
          /\ UNCHANGED <<pc, turn, held, wpc, wres, wgen, cycles, term, queue>>
          /\ UNCHANGED <<app, owned, shell, host, hrun, gen, counted, ended, rt, media, win, faults>>
      BY <1>2 DEF Close
    <2>2. StateTypes' /\ LocksSound'
      BY <2>1 DEF StateTypes, LocksSound
    <2>3. RunSound'
      BY <2>1 DEF RunSound, WOver
    <2>4. GenerationsSound' /\ ChildrenSound' /\ OutcomeSound'
      BY <2>1 DEF GenerationsSound, ChildrenSound, OutcomeSound, WOver
    <2>5. QED
      BY <2>2, <2>3, <2>4
  <1>3. CASE \E how \in {"complete", "failed"} : MediaEnds(how)
    <2>1. /\ media = "running" /\ media' \in {"complete", "failed"} /\ faults' \in 0..MaxFaults
          /\ UNCHANGED <<sess, pc, turn, held, wpc, wres, wgen, cycles, term, queue>>
          /\ UNCHANGED <<app, owned, shell, host, hrun, gen, counted, ended, rt, win>>
      BY <1>3 DEF MediaEnds, StateTypes
    <2>2. StateTypes' /\ LocksSound'
      BY <2>1 DEF StateTypes, LocksSound
    <2>3. RunSound'
      BY <2>1 DEF RunSound, WOver
    <2>4. GenerationsSound' /\ ChildrenSound' /\ OutcomeSound'
      BY <2>1 DEF GenerationsSound, ChildrenSound, OutcomeSound, WOver, Gone
    <2>5. QED
      BY <2>2, <2>3, <2>4
  <1>4. QED
    BY <1>1, <1>2, <1>3

\* S takes a request.
LEMMA TakeKeepsTasks == ASSUME TasksSound, TakeControl PROVE TasksSound'
  <1> USE DEF hostvars, appvars, wvars, Steps, Relaying, Closing, Over
  <1>1. /\ pc = "loop" /\ held = 0 /\ term = "none" /\ Still /\ UNCHANGED <<held, cycles>>
        /\ cycles \in 0..MaxCycles /\ cycles < MaxCycles
    BY DEF TakeControl, TasksSound, LocksSound, RunSound, Still
  <1>2. CASE TakeStop \/ TakeReplace
    <2>1. CancelWait /\ pc' \in {"stop", "replace"} /\ turn' = "free" /\ UNCHANGED term
      BY <1>2 DEF TakeStop, TakeReplace
    <2>2. LocksSound'
      BY <1>1, <2>1 DEF LocksSound
    <2>3. QED
      BY <1>1, <2>1, <2>2, CancelKeepsTasks
  <1>3. CASE TakeRelayout \/ TakeHistory \/ TakeEdit
    <2>1. /\ pc' \in {"rl_app", "loop", "failing"} /\ UNCHANGED <<wpc, wres, wgen>>
          /\ turn' \in {"S", "free"}
          /\ IF pc' = "failing" THEN term' = "failed" ELSE term' = term
      BY <1>3 DEF TakeRelayout, TakeHistory, TakeEdit, TurnAt, Raise
    <2>2. LocksSound'
      BY <1>1, <2>1 DEF LocksSound
    <2>3. QED
      BY <1>1, <2>1, <2>2, SteersKeepsTasks DEF Turns
  <1>4. QED
    BY <1>2, <1>3 DEF TakeControl

\* Steps of S that only go on, or give up.
LEMMA GoingKeepsTasks ==
  ASSUME TasksSound,
         \/ ControlsDone \/ RelayoutApp \/ RelayoutOk \/ PumpQuiet \/ PumpResized \/ PumpClose
         \/ PumpRefused \/ CloseHostBegin \/ CloseRuntimeBegin \/ (\E c \in Edits : PointerUp(c))
  PROVE  TasksSound'
  <1> USE SessionAssumption DEF control, hostvars, appvars, wvars, Steps, Relaying, Closing, Over
  <1>1. Still /\ UNCHANGED <<wpc, wres, wgen>>
    BY DEF ControlsDone, RelayoutApp, RelayoutOk, PumpQuiet, PumpResized, PumpClose, PumpRefused,
       CloseHostBegin, CloseRuntimeBegin, PointerUp, Still
  <1>2. pc \in {"loop", "rl_app", "rl_win", "pump", "close_host", "close_rt", "check"}
    BY DEF ControlsDone, RelayoutApp, RelayoutOk, PumpQuiet, PumpResized, PumpClose, PumpRefused,
       CloseHostBegin, CloseRuntimeBegin, PointerUp
  <1>3. pc' \in {"pump", "rl_host", "check", "loop", "failing"} \cup Closing /\ turn' \in {"S", "free"}
    BY <1>2 DEF ControlsDone, RelayoutApp, RelayoutOk, PumpQuiet, PumpResized, PumpClose, PumpRefused,
       CloseHostBegin, CloseRuntimeBegin, PointerUp, TurnAt, Raise
  <1>4. Turns
    <2>1. term = "none"
      BY <1>2 DEF TasksSound, RunSound
    <2>2. IF pc' = "failing" THEN term' = "failed" ELSE term' = term
      BY <1>2 DEF ControlsDone, RelayoutApp, RelayoutOk, PumpQuiet, PumpResized, PumpClose,
         PumpRefused, CloseHostBegin, CloseRuntimeBegin, PointerUp, Raise
    <2>3. QED
      BY <2>1, <2>2 DEF Turns
  <1>5. pc' \in Closing => owned
    BY <1>2 DEF ControlsDone, RelayoutApp, RelayoutOk, PumpQuiet, PumpResized, PumpClose, PumpRefused,
       CloseHostBegin, CloseRuntimeBegin, PointerUp, Raise, Pumpable, TasksSound, RunSound
  <1>6. LocksSound'
    BY <1>2 DEF ControlsDone, RelayoutApp, RelayoutOk, PumpQuiet, PumpResized, PumpClose, PumpRefused,
       CloseHostBegin, CloseRuntimeBegin, PointerUp, Raise, TasksSound, LocksSound
  <1>7. QED
    BY <1>1, <1>2, <1>3, <1>4, <1>5, <1>6, SteersKeepsTasks

\* After the pump: the result of W, and the poll.
LEMMA PollKeepsTasks == ASSUME TasksSound, CheckWait \/ Wake \/ Failing PROVE TasksSound'
  <1> USE SessionAssumption DEF control, hostvars, appvars, wvars, Steps, Relaying, Closing, Over
  <1>1. Still /\ UNCHANGED <<held, cycles>>
    BY DEF CheckWait, Wake, Failing, Still
  <1>2. CASE CheckWait /\ wpc # "done"
    <2>1. /\ pc = "check" /\ pc' \in {"sleep", "failing"} /\ turn' \in {"S", "free"}
          /\ UNCHANGED <<wpc, wres, wgen>>
          /\ IF pc' = "failing" THEN term' = "failed" ELSE term' = term
      BY <1>2 DEF CheckWait, Raise
    <2>2. term = "none" /\ LocksSound'
      BY <1>1, <2>1 DEF TasksSound, LocksSound, RunSound
    <2>3. QED
      BY <1>1, <2>1, <2>2, SteersKeepsTasks DEF Turns
  <1>3. CASE CheckWait /\ wpc = "done"
    <2>1. /\ pc = "check" /\ pc' = "ending" /\ turn' = "free" /\ term' = "complete"
          /\ UNCHANGED <<wpc, wres, wgen>>
      BY <1>3 DEF CheckWait, Raise
    <2>2. counted = gen /\ hrun # 0 /\ WOver /\ gen > 0 /\ sess = "running"
      BY <1>3, <2>1 DEF TasksSound, OutcomeSound, WOver, GenerationsSound, RunSound
    <2> USE DEF TasksSound, Still
    <2>3. StateTypes' /\ LocksSound'
      BY <1>1, <2>1 DEF StateTypes, LocksSound
    <2>4. RunSound'
      BY <1>1, <2>1, <2>2 DEF RunSound
    <2>5. GenerationsSound' /\ ChildrenSound'
      BY <1>1, <2>1, <2>2 DEF GenerationsSound, ChildrenSound, WOver
    <2>6. OutcomeSound'
      BY <1>1, <1>3, <2>1, <2>2 DEF OutcomeSound, WOver
    <2>7. QED
      BY <2>3, <2>4, <2>5, <2>6
  <1>4. CASE Wake /\ cycles < MaxCycles
    <2>1. /\ pc = "sleep" /\ pc' = "loop" /\ turn' = "S"
          /\ UNCHANGED <<wpc, wres, wgen, term>>
      BY <1>4 DEF Wake
    <2>2. term = "none" /\ LocksSound'
      BY <1>1, <1>4, <2>1 DEF TasksSound, LocksSound, RunSound
    <2>3. QED
      BY <1>1, <2>1, <2>2, SteersKeepsTasks DEF Turns
  <1>5. CASE (Wake /\ ~(cycles < MaxCycles)) \/ Failing
    <2>1. /\ CancelWait /\ turn' = "free" /\ UNCHANGED term
          /\ (pc = "sleep" /\ pc' = "limit") \/ (pc = "failing" /\ pc' = "ending")
      BY <1>5 DEF Wake, Failing
    <2>2. LocksSound'
      BY <1>1, <2>1 DEF TasksSound, LocksSound
    <2>3. QED
      BY <1>1, <2>1, <2>2, CancelKeepsTasks
  <1>6. QED
    BY <1>2, <1>3, <1>4, <1>5

\* Steps of S in which a call below may fail.
LEMMA FallingKeepsTasks ==
  ASSUME TasksSound,
         \/ RelayoutHost \/ RelayoutRuntime \/ (\E r \in {"failed", "cancelled"} : RelayoutFails(r))
         \/ PumpFails \/ Cancelled \/ StopControl \/ StopAtLimit \/ ReplaceFails
  PROVE  TasksSound'
  <1> USE SessionAssumption DEF hostvars, appvars, wvars, Raise, Relaying, Closing, Over
  <1>1. UNCHANGED <<sess, wpc, wres, wgen, cycles>>
    BY DEF RelayoutHost, RelayoutRuntime, RelayoutFails, PumpFails, Cancelled, StopControl,
       StopAtLimit, ReplaceFails
  <1>2. pc \in {"rl_app", "rl_host", "rl_rt", "rl_win", "pump", "sleep", "stop", "replace", "limit"}
    BY DEF RelayoutHost, RelayoutRuntime, RelayoutFails, PumpFails, Cancelled, StopControl,
       StopAtLimit, ReplaceFails
  <1>3. term = "none"
    BY <1>2 DEF TasksSound, RunSound
  <1>4. ASSUME FailClosed \/ HostFailed, pc' = "failing", turn' = "S", term' \in {"failed", "cancelled"}
        PROVE  TasksSound'
    <2>1. Down
      BY <1>4, FailClosedSound, HostFailedSound
    <2>2. QED
      BY <1>1, <1>2, <1>4, <2>1, DownKeepsTasks
  <1>5. ASSUME Still, turn' \in {"S", "free"},
               \/ /\ pc' = "failing" /\ term' \in {"failed", "cancelled"} /\ held' = held
                  /\ pc \in {"sleep", "rl_app", "pump", "stop", "limit", "replace"}
               \/ pc' = "rl_rt" /\ held' = 2 /\ pc = "rl_host" /\ term' = term
               \/ pc' = "rl_win" /\ held' = 3 /\ pc = "rl_rt" /\ term' = term
        PROVE  TasksSound'
    <2>1. LocksSound'
      BY <1>1, <1>2, <1>5 DEF TasksSound, LocksSound
    <2>2. QED
      BY <1>1, <1>2, <1>3, <1>5, <2>1, SteersKeepsTasks DEF Turns, Steps
  <1>6. CASE RelayoutHost
    BY <1>4, <1>5, <1>6 DEF RelayoutHost, TurnAt, Still
  <1>7. CASE RelayoutRuntime
    BY <1>4, <1>5, <1>7 DEF RelayoutRuntime, Still
  <1>8. CASE (\E r \in {"failed", "cancelled"} : RelayoutFails(r)) \/ PumpFails
    BY <1>4, <1>8 DEF RelayoutFails, PumpFails
  <1>9. CASE Cancelled
    BY <1>4, <1>5, <1>9 DEF Cancelled, Still
  <1>10. CASE StopControl
    <2>1. CASE Stoppable /\ StopRuntime /\ pc' = "ending" /\ term' = "complete" /\ turn' = "free"
      BY <1>1, <1>10, <2>1, StopKeepsTasks DEF StopControl
    <2>2. CASE HostFailed /\ pc' = "failing" /\ term' = "failed" /\ turn' = "S"
      BY <1>4, <2>2
    <2>3. CASE /\ UNCHANGED <<app, owned, shell, lay, host, hrun, gen, counted, ended, rt, media, win>>
               /\ UNCHANGED <<held, faults>> /\ pc' = "failing" /\ term' = "failed" /\ turn' = "S"
      BY <1>1, <1>5, <1>10, <2>3 DEF StopControl, Still
    <2>4. QED
      BY <1>10, <2>1, <2>2, <2>3 DEF StopControl
  <1>11. CASE StopAtLimit
    <2>0. pc = "limit" /\ WOver /\ pc' = "failing" /\ term' = "failed" /\ turn' = "S"
      BY <1>11 DEF StopAtLimit
    <2>1. CASE Stoppable /\ StopRuntime
      BY <1>1, <2>0, <2>1, StopKeepsTasks
    <2>2. CASE HostFailed
      BY <1>4, <2>0, <2>2
    <2>3. CASE /\ UNCHANGED <<app, owned, shell, lay, host, hrun, gen, counted, ended, rt, media, win>>
               /\ UNCHANGED <<held, faults>>
      BY <1>1, <1>5, <2>0, <2>3 DEF Still
    <2>4. QED
      BY <1>11, <2>1, <2>2, <2>3 DEF StopAtLimit
  <1>12. CASE ReplaceFails
    <2>0. pc = "replace" /\ WOver /\ pc' = "failing" /\ term' = "failed" /\ turn' = "S"
      BY <1>12 DEF ReplaceFails
    <2>1. CASE Replaceable /\ gen < MaxGen /\ SuccessorFails
      BY <1>1, <2>0, <2>1, SuccessorKeepsTasks
    <2>2. CASE HostFailed \/ FailClosed
      BY <1>4, <2>0, <2>2
    <2>3. CASE /\ UNCHANGED <<app, owned, shell, lay, host, hrun, gen, counted, ended, rt, media, win>>
               /\ UNCHANGED <<held, faults>>
      BY <1>1, <1>5, <2>0, <2>3 DEF Still
    <2>4. QED
      BY <1>12, <2>1, <2>2, <2>3 DEF ReplaceFails
  <1>13. QED
    BY <1>6, <1>7, <1>8, <1>9, <1>10, <1>11, <1>12

\* Every step of S and W keeps the tasks and what they own in order.
LEMMA NextKeepsTasks == ASSUME TasksSound, [Next]_vars PROVE TasksSound'
  <1> USE DEF control, hostvars, appvars, wvars
  <1>1. CASE Session
    BY <1>1, BeginKeepsTasks, UserClosedKeepsTasks, EndKeepsTasks, StartKeepsTasks,
       StartFailsKeepsTasks, TakeKeepsTasks, GoingKeepsTasks, PollKeepsTasks, FallingKeepsTasks,
       ReplaceKeepsTasks DEF Session
  <1>2. CASE Wait
    <2>1. CASE WaitBegin \/ (\E r \in {"complete", "stopped", "error"} : WaitMedia(r))
      BY <2>1, WaitingKeepsTasks DEF WaitBegin, WaitMedia, Still, WTurn
    <2>2. QED
      BY <1>2, <2>1, WaitRuntimeKeepsTasks, WaitHostKeepsTasks, WaitAppKeepsTasks DEF Wait
  <1>3. CASE UNCHANGED vars
    <2>1. /\ UNCHANGED <<sess, pc, turn, held, wpc, wres, wgen, app, owned, shell, cycles, term, queue>>
          /\ UNCHANGED <<host, hrun, gen, counted, ended, rt, media, win, faults>>
      BY <1>3 DEF vars
    <2>2. StateTypes' /\ LocksSound' /\ RunSound'
      BY <2>1 DEF TasksSound, StateTypes, LocksSound, RunSound, WOver
    <2>3. GenerationsSound' /\ ChildrenSound' /\ OutcomeSound'
      BY <2>1 DEF TasksSound, GenerationsSound, ChildrenSound, OutcomeSound, WOver
    <2>4. QED
      BY <2>2, <2>3 DEF TasksSound
  <1>4. QED
    BY <1>1, <1>2, <1>3, OutsideKeepsTasks, FallingKeepsTasks DEF Next

-----------------------------------------------------------------------------
(* The theorems.                                                           *)

\* Whatever is asked, whoever comes first to a lock and whatever fails, the layouts agree
\* and the tasks, the generations and what they own are in order.
THEOREM SessionInvariant == Spec => []IInv
  <1>1. Init => IInv
    BY LayoutsInit, TasksInit DEF IInv
  <1>2. IInv /\ [Next]_vars => IInv'
    BY NextKeepsLayouts, NextKeepsTasks DEF IInv
  <1>3. QED
    BY <1>1, <1>2, PTL DEF Spec

\* A run that returned left nothing behind that it does not report, W always belongs to the
\* current generation, and a completed run has counted every generation
\* (WindowsOperatorSession.run, application.wait, host.wait).
THEOREM RunsLeaveNothing == Spec => []SessionSound
  <1> USE SessionAssumption DEF IInv, LayoutsSound, TasksSound
  <1>1. IInv => TypeOK
    <2> SUFFICES ASSUME IInv PROVE TypeOK
      OBVIOUS
    <2>1. (held > 0) = (pc \in {"rl_host", "rl_rt", "rl_win", "close_host", "close_rt", "close_wait"})
          /\ held \in 0..3
      BY DEF LocksSound
    <2>2. Len(hist.undo) <= MaxHistory /\ hist.ops <= MaxOps
      <3>1. /\ hist.undo \in Seq(Shown) /\ hist.redo \in Seq(Shown) /\ hist.ops \in 0..MaxOps
            /\ Len(hist.undo) + Len(hist.redo) <= MaxHistory
        BY DEF LayoutTypes, Histories
      <3>2. Len(hist.undo) \in Nat /\ Len(hist.redo) \in Nat
        BY <3>1, LenProperties
      <3>3. \A m, n \in Nat : m + n <= MaxHistory => m <= MaxHistory
        OBVIOUS
      <3>4. Len(hist.undo) <= MaxHistory
        BY <3>1, <3>2, <3>3
      <3>5. \A n \in 0..MaxOps : n <= MaxOps
        OBVIOUS
      <3>6. QED
        BY <3>1, <3>4, <3>5
    <2>3. QED
      BY <2>1, <2>2 DEF TypeOK, StateTypes, LocksSound, GenerationsSound, LayoutTypes
  <1>2. IInv => NothingLeftBehind
    <2> SUFFICES ASSUME IInv PROVE NothingLeftBehind
      OBVIOUS
    <2>1. pc = "done" => /\ shell # "open" /\ media \in Gone /\ win \in Gone /\ hrun = 0
                         /\ WOver /\ queue = <<>> /\ held = 0
      BY DEF RunSound, LocksSound, GenerationsSound, ChildrenSound
    <2>2. sess = "complete" => media = "closed" /\ win = "closed"
      BY DEF OutcomeSound
    <2>3. sess = "user_closed" => (media = "closed" /\ win = "closed") \/ wres = "error"
      BY DEF OutcomeSound, RunSound
    <2>4. win = "open" => shell = "open"
      BY DEF ChildrenSound, GenerationsSound, RunSound, Gone
    <2>5. QED
      BY <2>1, <2>2, <2>3, <2>4 DEF NothingLeftBehind
  <1>3. IInv => GenerationsCounted
    BY DEF GenerationsCounted, GenerationsSound, RunSound, OutcomeSound
  <1>4. IInv => SessionSound
    BY <1>1, <1>2, <1>3 DEF SessionSound
  <1>5. QED
    BY <1>4, SessionInvariant, PTL

\* The layout shown, the one the next edit starts from and the history's are one, and undo
\* and redo only bring back layouts of the running generation's slots (_process_controls,
\* WindowsOperatorViewportHistory).
THEOREM OneLayoutShown == Spec => []LayoutsAgree
  <1>1. IInv => LayoutsAgree
    <2> SUFFICES ASSUME IInv PROVE LayoutsAgree
      OBVIOUS
    <2>1. hist.undo \in Seq(Shown) /\ hist.redo \in Seq(Shown)
      BY DEF IInv, LayoutsSound, LayoutTypes, Histories
    <2>2. DOMAIN hist.undo = 1..Len(hist.undo) /\ DOMAIN hist.redo = 1..Len(hist.redo)
      BY <2>1, LenProperties
    <2>3. QED
      BY <2>2 DEF LayoutsAgree, IInv, LayoutsSound, OneLayout
  <1>2. QED
    BY <1>1, SessionInvariant, PTL

=============================================================================

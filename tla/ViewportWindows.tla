--------------------------- MODULE ViewportWindows ---------------------------
(***************************************************************************)
(* What one generation puts on the screen: the viewport runtime with one   *)
(* off-screen surface per slot, the target layout with one positioned      *)
(* native window per slot, and the native objects behind them.  The        *)
(* runtime's lock admits one call at a time; open and relayout create      *)
(* their native windows one after the other and any creation may fail.     *)
(***************************************************************************)
EXTENDS Naturals, FiniteSets

CONSTANTS Slots,      \* logical slots of the layout
          Extents,    \* widths and heights of frames and client areas, 0 when minimised
          MaxReplace, \* surface: _max_surface_replacements
          MaxPresent, \* runtime and layout: _max_presentations
          MaxHandles, \* bound: native windows and bitmaps created
          MaxFaults   \* bound: native calls that fail

VARIABLES
  wstate,    \* BoundedWindowsViewportRuntime._state
  lstate,    \* BoundedWindowsViewportLayout._state, "none" without a layout
  step,      \* "idle", or the call that is creating windows: "open", "relayout"
  targets,   \* [slots with a target -> native window], the layout's _targets
  fresh,     \* the map _open_target_map is filling
  bitmap,    \* [slots with a surface -> its bitmap, 0 for none]
  size,      \* [slots with a surface -> size of the bitmap]
  swaps,     \* [slots with a surface -> _surface_replacements]
  frames,    \* frames the surfaces took
  blits,     \* surfaces copied to a target
  lshown,    \* layout: _presentations
  wshown,    \* runtime: _presentations
  painted,   \* what the last paint put where
  alive,     \* native objects in existence
  lost,      \* native objects whose destruction failed
  used,      \* native objects created so far
  wfaults

winvars == <<wstate, lstate, step, targets, fresh, bitmap, size, swaps, frames, blits, lshown,
             wshown, painted, alive, lost, used, wfaults>>

Sizes == (Extents \ {0}) \X (Extents \ {0})
NoSize == <<0, 0>>
NoPaint == [client |-> NoSize, fit |-> [x |-> 0, y |-> 0, w |-> 0, h |-> 0]]

Values(f) == {f[x] : x \in DOMAIN f}

-----------------------------------------------------------------------------
(* Fitting an image into a client area.                                    *)

AtLeastOne(n) == IF n = 0 THEN 1 ELSE n
\* _aspect_fit: the complete image, centred, rounded down.
AspectFit(img, client) ==
  LET wide == client[1] * img[2] <= client[2] * img[1]
      w == IF wide THEN client[1] ELSE AtLeastOne((img[1] * client[2]) \div img[2])
      h == IF wide THEN AtLeastOne((img[2] * client[1]) \div img[1]) ELSE client[2]
  IN [x |-> (client[1] - w) \div 2, y |-> (client[2] - h) \div 2, w |-> w, h |-> h]

\* The four regions _copy_to_target blackens around the image.
Bars(fit, client) ==
  {[x |-> 0, y |-> 0, w |-> client[1], h |-> fit.y],
   [x |-> 0, y |-> fit.y + fit.h, w |-> client[1], h |-> client[2] - fit.y - fit.h],
   [x |-> 0, y |-> fit.y, w |-> fit.x, h |-> fit.h],
   [x |-> fit.x + fit.w, y |-> fit.y, w |-> client[1] - fit.x - fit.w, h |-> fit.h]}

-----------------------------------------------------------------------------
(* Native objects.                                                         *)

Init == /\ wstate = "ready" /\ lstate = "none" /\ step = "idle"
        /\ targets = [s \in {} |-> 0] /\ fresh = [s \in {} |-> 0]
        /\ bitmap = [s \in {} |-> 0] /\ size = [s \in {} |-> NoSize] /\ swaps = [s \in {} |-> 0]
        /\ frames = 0 /\ blits = 0 /\ lshown = 0 /\ wshown = 0
        /\ painted = NoPaint
        /\ alive = {} /\ lost = {} /\ used = 0 /\ wfaults = 0

\* Destroying a set of native objects: each is tried, whatever the others did.
Destroy(S, failed) == /\ failed \subseteq S /\ wfaults + Cardinality(failed) <= MaxFaults
                      /\ alive' = alive \ (S \ failed) /\ lost' = lost \cup failed
                      /\ wfaults' = wfaults + Cardinality(failed)
Fault == wfaults < MaxFaults

Bitmaps == Values(bitmap) \ {0}

ReleasedOpened == Values(targets) \cup Bitmaps
\* The layout's windows, those a failed open or relayout has created so far,
\* and the surfaces.
Released == Values(targets) \cup Values(fresh) \cup Bitmaps

\* _close_resources: the layout's targets first, then the surfaces; a layout
\* that failed to close and a surface that failed to close are given up.
CloseResources(failed) ==
  /\ Destroy(Released, failed)
  /\ targets' = [s \in {} |-> 0] /\ fresh' = [s \in {} |-> 0]
  /\ bitmap' = [s \in {} |-> 0] /\ size' = [s \in {} |-> NoSize] /\ swaps' = [s \in {} |-> 0]
  /\ painted' = NoPaint /\ step' = "idle"

FailClosed(failed) ==
  /\ CloseResources(failed) /\ wstate' = "failed"
  /\ lstate' = (IF lstate = "none" THEN "none" ELSE "failed")
  /\ UNCHANGED <<frames, blits, lshown, wshown>>

-----------------------------------------------------------------------------
(* open and relayout.                                                      *)

\* open: every slot gets its surface, none of them has a bitmap yet.
OpenSurfaces ==
  /\ wstate = "ready" /\ step = "idle"
  /\ bitmap' = [s \in Slots |-> 0] /\ size' = [s \in Slots |-> NoSize]
  /\ swaps' = [s \in Slots |-> 0]
  /\ lstate' = "ready" /\ step' = "open"
  /\ UNCHANGED <<wstate, targets, fresh, frames, blits, lshown, wshown, painted, alive, lost,
                 used, wfaults>>

\* A surface or the layout cannot be opened.
OpenFails(failed) ==
  /\ step = "open" /\ Fault
  /\ FailClosed(failed) /\ UNCHANGED used

\* _open_target_map: one more window.
CreateTarget(s) ==
  /\ step # "idle" /\ s \in Slots \ DOMAIN fresh /\ used < MaxHandles
  /\ used' = used + 1 /\ alive' = alive \cup {used + 1}
  /\ fresh' = [x \in DOMAIN fresh \cup {s} |-> IF x = s THEN used + 1 ELSE fresh[x]]
  /\ UNCHANGED <<wstate, lstate, step, targets, bitmap, size, swaps, frames, blits, lshown,
                 wshown, painted, lost, wfaults>>

\* The window of a slot cannot be created, or the call is cancelled: the new
\* windows are closed, then the layout's own, then the runtime's surfaces.
CreateTargetFails(failed) ==
  /\ step # "idle" /\ DOMAIN fresh # Slots
  /\ FailClosed(failed) /\ UNCHANGED used

OpenDone ==
  /\ step = "open" /\ DOMAIN fresh = Slots
  /\ targets' = fresh /\ fresh' = [s \in {} |-> 0]
  /\ wstate' = "open" /\ lstate' = "open" /\ step' = "idle"
  /\ UNCHANGED <<bitmap, size, swaps, frames, blits, lshown, wshown, painted, alive, lost, used,
                 wfaults>>

\* relayout: refused unless open and for the same slots.
RelayoutBegin(slots) ==
  /\ wstate = "open" /\ step = "idle" /\ slots = DOMAIN bitmap /\ lstate = "open"
  /\ step' = "relayout"
  /\ UNCHANGED <<wstate, lstate, targets, fresh, bitmap, size, swaps, frames, blits, lshown,
                 wshown, painted, alive, lost, used, wfaults>>

\* The new windows replace the old ones, which are then closed; a close that
\* fails closes the new ones too.
RelayoutDone(failed) ==
  /\ step = "relayout" /\ DOMAIN fresh = Slots
  /\ failed \subseteq Values(targets)
  /\ IF failed # {} THEN FailClosed(failed)
     ELSE /\ Destroy(Values(targets), {})
          /\ targets' = fresh /\ fresh' = [s \in {} |-> 0]
          /\ painted' = NoPaint /\ step' = "idle"
          /\ UNCHANGED <<wstate, lstate, bitmap, size, swaps, frames, blits, lshown, wshown>>
  /\ UNCHANGED used

-----------------------------------------------------------------------------
(* Presenting a frame.                                                     *)

Presentable(s) == /\ wstate = "open" /\ step = "idle" /\ s \in DOMAIN bitmap
                  /\ wshown < MaxPresent

Replacing(s, img) == bitmap[s] # 0 /\ size[s] # img
CanReplace(s, img) == Replacing(s, img) => swaps[s] < MaxReplace

\* _ensure_geometry: a bitmap of the frame's size; the old one goes first.
EnsureGeometry(s, img) ==
  IF bitmap[s] # 0 /\ size[s] = img THEN UNCHANGED <<bitmap, size, swaps, alive, used>>
  ELSE /\ used < MaxHandles /\ used' = used + 1
       /\ alive' = (alive \ {bitmap[s]}) \cup {used + 1}
       /\ bitmap' = [bitmap EXCEPT ![s] = used + 1] /\ size' = [size EXCEPT ![s] = img]
       /\ swaps' = [swaps EXCEPT ![s] = IF Replacing(s, img) THEN @ + 1 ELSE @]

\* target.present reads the client area as it is now: an empty one defers the
\* paint, the frame is consumed.
CountPaint(deferred) == IF deferred THEN UNCHANGED <<blits, lshown, wshown>>
                        ELSE blits' = blits + 1 /\ lshown' = lshown + 1 /\ wshown' = wshown + 1

Present(s, img, client) ==
  LET deferred == 0 \in {client[1], client[2]} IN
  /\ Presentable(s) /\ CanReplace(s, img) /\ EnsureGeometry(s, img)
  /\ frames' = frames + 1 /\ frames' <= 2 * MaxPresent
  /\ CountPaint(deferred)
  /\ painted' = IF deferred THEN painted
                ELSE [client |-> client, fit |-> AspectFit(img, client)]
  /\ UNCHANGED <<wstate, lstate, step, targets, fresh, lost, wfaults>>

\* A limit, or a native call that fails: everything is released.
PresentFails(s, img, failed) ==
  /\ wstate = "open" /\ step = "idle" /\ s \in DOMAIN bitmap
  /\ wshown >= MaxPresent \/ ~CanReplace(s, img) \/ Fault
  /\ FailClosed(failed) /\ UNCHANGED used

Close(failed) ==
  /\ wstate # "closed" /\ step = "idle"
  /\ CloseResources(failed)
  /\ wstate' = (IF failed # {} THEN "failed" ELSE "closed")
  /\ lstate' = (IF lstate = "none" THEN "none" ELSE IF failed # {} THEN "failed" ELSE "closed")
  /\ UNCHANGED <<frames, blits, lshown, wshown, used>>

-----------------------------------------------------------------------------
Undestroyed == {S \in SUBSET alive : Cardinality(S) <= MaxFaults}
Next == \/ OpenSurfaces \/ OpenDone
        \/ \E s \in Slots : CreateTarget(s)
        \/ \E slots \in SUBSET Slots : RelayoutBegin(slots)
        \/ \E failed \in Undestroyed : \/ OpenFails(failed) \/ CreateTargetFails(failed)
                                       \/ RelayoutDone(failed) \/ Close(failed)
        \/ \E s \in Slots, img \in Sizes, client \in Extents \X Extents : Present(s, img, client)
        \/ \E s \in Slots, img \in Sizes, failed \in Undestroyed : PresentFails(s, img, failed)

Spec == Init /\ [][Next]_winvars

-----------------------------------------------------------------------------
(* Properties.                                                             *)

\* Every native window and bitmap that exists is held by the runtime, the
\* layout or the map being filled, unless the system refused to destroy it; so
\* a failed open or relayout leaves nothing on the screen, and a closed runtime
\* has released everything.
NoOrphanWindows ==
  /\ alive \ lost = Values(targets) \cup Values(fresh) \cup Bitmaps
  /\ wstate \in {"closed", "failed"} => alive = lost
  /\ wstate = "closed" => targets = [s \in {} |-> 0]

\* "keeps enclosing paint counters truthful" (windows_presentation_target.py):
\* runtime and layout count exactly the frames that reached a window; a frame
\* deferred by a minimised window is taken but not counted.
CountersTruthful == wshown = blits /\ lshown = blits /\ blits <= frames

\* "Never leave pixels from the previous image": the image and the blackened
\* regions cover the client area exactly, inside it, whatever the two sizes.
PaintCoversClient ==
  LET fit == painted.fit
      client == painted.client
  IN painted # NoPaint =>
       /\ fit.w >= 1 /\ fit.h >= 1
       /\ fit.x + fit.w <= client[1] /\ fit.y + fit.h <= client[2]
       /\ \A px \in 0..(client[1] - 1), py \in 0..(client[2] - 1) :
            \E r \in Bars(fit, client) \cup {fit} :
               r.x <= px /\ px < r.x + r.w /\ r.y <= py /\ py < r.y + r.h

-----------------------------------------------------------------------------
(* What makes them inductive.                                              *)

Held == Values(targets) \cup Values(fresh) \cup Bitmaps
OneToOne(f) == \A x, y \in DOMAIN f : f[x] = f[y] => x = y
\* The objects held exist and were handed out once; nothing is held of a runtime
\* that has failed or closed, and before it opens it has no target.
HandlesSound ==
  /\ wstate \in {"ready", "open", "closed", "failed"} /\ step \in {"idle", "open", "relayout"}
  /\ used \in Nat /\ alive \subseteq 1..used /\ lost \subseteq alive /\ lost \cap Held = {}
  /\ targets \in [DOMAIN targets -> 1..used] /\ fresh \in [DOMAIN fresh -> 1..used]
  /\ bitmap \in [DOMAIN bitmap -> 0..used]
  /\ wstate \in {"closed", "failed"} \/ (wstate = "ready" /\ step = "idle") =>
       Held = {} /\ DOMAIN targets = {} /\ DOMAIN fresh = {} /\ DOMAIN bitmap = {}
  /\ wstate \in {"closed", "failed"} => step = "idle"
  /\ step = "idle" => DOMAIN fresh = {}
  /\ step = "open" => DOMAIN targets = {}
  /\ step = "relayout" => wstate = "open"
\* No two of them are one object.
HandlesApart ==
  /\ OneToOne(targets) /\ OneToOne(fresh)
  /\ \A s, t \in DOMAIN bitmap : bitmap[s] = bitmap[t] /\ bitmap[s] # 0 => s = t
  /\ Values(targets) \cap Values(fresh) = {}
  /\ (Values(targets) \cup Values(fresh)) \cap Values(bitmap) = {}
WinInv ==
  /\ HandlesSound /\ HandlesApart /\ frames \in Nat /\ blits \in Nat
  /\ NoOrphanWindows /\ CountersTruthful /\ PaintCoversClient
=============================================================================

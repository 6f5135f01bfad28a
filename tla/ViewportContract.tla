-------------------------- MODULE ViewportContract --------------------------
(***************************************************************************)
(* What one presentation promises to the viewports it was assembled with,  *)
(* whatever the pipeline behind it does: a viewport is handed frames one   *)
(* at a time, only until the presentation releases it, at most MaxFrames   *)
(* of them, and the presentation is reported over only once every viewport *)
(* has been released.  PresentationPipeline implements this contract.      *)
(***************************************************************************)
EXTENDS Naturals

CONSTANTS Slots,      \* the viewport slots of the presentation
          MaxFrames   \* max_total_frames of the runtime

VARIABLES gate,       \* "open" until the viewports are released, then "shut"
          showing,    \* the slots whose consumer is handling a frame
          shown,      \* frames handled so far
          over        \* the presentation has been reported complete, stopped or closed

vars == <<gate, showing, shown, over>>

Init == gate = "open" /\ showing = {} /\ shown = 0 /\ over = FALSE

\* A consumer is called with a frame: never two at once, never after release.
Hand(s) == /\ gate = "open" /\ showing = {} /\ shown < MaxFrames /\ ~over
           /\ showing' = {s}
           /\ UNCHANGED <<gate, shown, over>>

\* The consumer has taken the frame.
Take == /\ showing # {}
        /\ showing' = {} /\ shown' = shown + 1
        /\ UNCHANGED <<gate, over>>

\* The call is abandoned by a cancellation, or fails and releases the viewports.
Abandon == /\ showing # {}
           /\ showing' = {} /\ gate' \in {gate, "shut"}
           /\ UNCHANGED <<shown, over>>

\* The viewports are released while no consumer is running.
Release == /\ showing = {} /\ gate' = "shut"
           /\ over' \in {over, TRUE}
           /\ UNCHANGED <<showing, shown>>

\* The presentation's reported state changes; "over" is said only after release.
Report == /\ gate = "shut" /\ showing = {}
          /\ over' \in BOOLEAN
          /\ UNCHANGED <<gate, showing, shown>>

Next == (\E s \in Slots : Hand(s)) \/ Take \/ Abandon \/ Release \/ Report

Spec == Init /\ [][Next]_vars
=============================================================================

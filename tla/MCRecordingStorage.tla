------------------------- MODULE MCRecordingStorage -------------------------
(***************************************************************************)
(* Two instances of RecordingStorage over the same segments and variables: *)
(* `part' says which one a behaviour belongs to.  The configuration gives  *)
(* the first one camera whose segments compete for space, and the second   *)
(* more cameras than progress slots.                                       *)
(***************************************************************************)
EXTENDS RecordingStorage

CONSTANTS  \* of the second instance
    Cameras, CameraOf,   \* NumDirs and DirOf
    Readings, LastTick,  \* Stamps and MaxTime
    MinAge, Places,      \* MinClosed and MaxProgress
    Volume, Rules,       \* Capacity and Policies
    Polled,              \* Asked
    Starts, Scans        \* MaxRestarts and MaxGen

Progress == INSTANCE RecordingStorage WITH
    NumDirs <- Cameras, DirOf <- CameraOf, Stamps <- Readings, MaxTime <- LastTick,
    MinClosed <- MinAge, MaxProgress <- Places, Capacity <- Volume, Policies <- Rules,
    Asked <- Polled, MaxRestarts <- Starts, MaxGen <- Scans

\* SizesAssumption of the second instance, as far as its theorems need it.
ASSUME CamerasAssumption ==
    /\ Cameras \in Nat \ {0} /\ CameraOf \in [Seg -> 1..Cameras]
    /\ Readings \subseteq Nat /\ Readings # {}
    /\ Places \in Nat /\ Volume \in Int
    /\ Polled \subseteq 1..Cameras /\ (Polled # {} => Places > 0)

VARIABLE part

\* Retention: one camera whose three segments compete for space.
OneCamera == [s \in Seg |-> 1]

\* Tight bytes and no retention; a retention period and a free-space floor.
RetentionPolicies ==
    {[max |-> 2, minFree |-> 0, retention |-> 0],
     [max |-> 9, minFree |-> 1, retention |-> 2]}

\* Progress: one segment per camera.
OneEach == [s \in Seg |-> s]
OneRule == {[max |-> 9, minFree |-> 0, retention |-> 0]}

PartInit == \/ part = "retention" /\ Init
            \/ part = "progress" /\ Progress!Init
PartNext == \/ part = "retention" /\ Next /\ UNCHANGED part
            \/ part = "progress" /\ Progress!Next /\ UNCHANGED part
PartSpec == PartInit /\ [][PartNext]_<<part, vars>>

-----------------------------------------------------------------------------
\* What the maintenance worker deletes, it deletes for a configured reason, and never
\* the latest footage or the last segment of a camera (lines 304-318, 470-482).
DeletionsJustified ==
    [][part = "retention" /\ state' # state =>
         RetentionHonoured /\ LatestFootageKept /\ DirectoryKeepsOne']_vars

\* Reported progress is recording that happened, and a camera asked for during a scan
\* keeps its place in the bounded cache (lines 219-223, 336-365).
ProgressHonest ==
    [][part = "progress" =>
         /\ Progress!ProgressIsReal
         /\ Progress!NominationsSurviveScan
         /\ Len(slots') <= Places]_vars
=============================================================================

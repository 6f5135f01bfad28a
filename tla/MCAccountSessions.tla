------------------------- MODULE MCAccountSessions --------------------------
(***************************************************************************)
(* AccountSessions and AccountAdministration side by side: the sign-ins    *)
(* and sessions of one account, and the administration of several.  They   *)
(* share no variable, so a behaviour is about one of the two and the other *)
(* stays where it begins: `part' names the one that goes on.               *)
(***************************************************************************)
EXTENDS AccountSessions, TLC

CONSTANTS Users, Profiles, Requests, MaxCalls  \* of AccountAdministration

\* 0 stands for no profile and for no request.
ASSUME AdministrationAssumption == 0 \notin Profiles /\ 0 \notin Requests

VARIABLES
  part,  \* the component this behaviour is about
  acct, profiles, bindings, lease, call, calls, excess  \* of AccountAdministration

Admin == INSTANCE AccountAdministration

administration == <<acct, profiles, bindings, lease, call, calls, excess>>
sumvars == <<part, administration, vars>>

\* Sign-ins are alike, and so are roles: nothing in these modules depends on which
\* role an account has.
Symmetry == Permutations(Login) \cup Permutations(Role)

-----------------------------------------------------------------------------
\* The account before anybody signs in, while the administration is checked.
Resting == Init /\ factor = NoFactor

PartInit ==
  /\ \/ part = "sessions" /\ Init
     \/ part = "administration" /\ Resting
  /\ Admin!AdmInit
PartNext ==
  \/ part = "sessions" /\ Next /\ UNCHANGED <<part, administration>>
  \/ part = "administration" /\ Admin!AdmNext /\ UNCHANGED <<part, vars>>
PartSpec == PartInit /\ [][PartNext]_sumvars

-----------------------------------------------------------------------------
(* Properties.                                                             *)

\* However requests overlap, an administrator remains and nobody hands out a permission
\* they do not have (operator_role_policy, operator_admin_api).
AdministrationSound == Admin!SomebodyAdministers /\ Admin!DelegationBounded
=============================================================================

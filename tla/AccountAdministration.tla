------------------------- MODULE AccountAdministration ------------------------
(***************************************************************************)
(* Administration of accounts: the user registry, the role profiles that   *)
(* narrow a role, and the administrators' routes.  A route holds the lease *)
(* `mutations' while a thread checks and writes; a cancelled update or     *)
(* reset keeps it until the thread is done, a cancelled creation or camera *)
(* selection lets it go.  Assigning a profile writes the binding, then the *)
(* account: the program may die in between.  A refused call (a stale       *)
(* revision, a taken name, full capacity, a storage error before the       *)
(* write) changes nothing and is not a step.                               *)
(***************************************************************************)
EXTENDS Integers, FiniteSets

CONSTANTS Users, Profiles, Requests,
          MaxCalls     \* bound: calls ever made

Admin == "administrator"
Viewer == "viewer"
PERMISSIONS == {"manage", "watch"}
BASE_PERMISSIONS == [r \in {Admin, Viewer} |-> IF r = Admin THEN PERMISSIONS ELSE {"watch"}]

VARIABLES
  acct,      \* user -> role ("none" before it exists), enabled, credential, camera access
  profiles,  \* profile -> base role ("none" if there is none) and permissions
  bindings,  \* user -> profile, 0 for none
  lease,     \* mutations: the request that holds it, 0 for none
  call,      \* request -> stage, and what its route was called for
  calls,
  excess     \* history: an account gained what the acting administrator did not hold

admvars == <<acct, profiles, bindings, lease, call, calls, excess>>
NoUser == [role |-> "none", enabled |-> FALSE, cred |-> "none", access |-> "selected"]
NoProfile == [base |-> "none", permissions |-> {}]
Idle == [at |-> "idle", op |-> "none", actor |-> 0, user |-> 0, role |-> "none", enabled |-> FALSE,
         access |-> "none", profile |-> 0]
Ops == {"create", "update", "camera", "reset", "upsert", "delete", "assign"}

AdmInit == /\ acct = [u \in Users |-> NoUser] /\ profiles = [p \in Profiles |-> NoProfile]
           /\ bindings = [u \in Users |-> 0] /\ lease = 0 /\ call = [r \in Requests |-> Idle]
           /\ calls = 0 /\ excess = FALSE

-----------------------------------------------------------------------------
(* Permissions and who is left to administer.                              *)

\* _permissions, of an account row under a set of profiles and a binding.
Permissions(row, prof, b) ==
  IF row.role = "none" THEN {}
  ELSE BASE_PERMISSIONS[row.role] \cap (IF b = 0 THEN PERMISSIONS ELSE prof[b].permissions)
Effective(u) == Permissions(acct[u], profiles, bindings[u])
FullAdministrator(row, prof, b) ==
  row.enabled /\ row.role = Admin /\ row.cred = "active" /\ PERMISSIONS \subseteq Permissions(row, prof, b)
\* _guard: somebody with all permissions and a password remains.
Guard(rows, prof, binds) == \E u \in Users : FullAdministrator(rows[u], prof, binds[u])
\* The registry's own rule, which knows nothing of profiles.
OtherAdministrator(u) == \E v \in Users \ {u} : acct[v].role = Admin /\ acct[v].enabled /\ acct[v].cred = "active"
\* _camera_access_value: an administrator sees every camera.
AccessAllowed(role, access) == role = Admin => access = "all"

-----------------------------------------------------------------------------
(* A call: the lease, and the current authority of its administrator.      *)

Exists(u) == acct[u].role # "none"
Call(r) ==
  /\ call[r].at = "idle" /\ lease = 0 /\ calls < MaxCalls
  /\ \E u \in Users, op \in Ops :
       /\ acct[u].role = Admin /\ acct[u].enabled /\ acct[u].cred = "active" /\ "manage" \in Effective(u)
       /\ call' = [call EXCEPT ![r] = [Idle EXCEPT !.at = "leased", !.op = op, !.actor = u, !.role = acct[u].role]]
  /\ lease' = r /\ calls' = calls + 1
  /\ UNCHANGED <<acct, profiles, bindings, excess>>

\* require_grant: the actor's role as it was authenticated, its profile as it is now.
Holds(r) == Permissions([role |-> Admin], profiles, bindings[call[r].actor])
Granted(r, permissions) == permissions \subseteq Holds(r)
Checked(r, u, role, enabled, access) ==
  call' = [call EXCEPT ![r] = [@ EXCEPT !.at = "checked", !.user = u, !.role = role, !.enabled = enabled,
                                        !.access = access]]
At(r, op, stage) == call[r].at = stage /\ call[r].op = op
Done(r) == /\ call' = [call EXCEPT ![r] = Idle]
           /\ lease' = IF lease = r THEN 0 ELSE lease
\* Whether somebody gained more than the acting administrator held.
Gains(r) == excess' = (excess \/ \E u \in Users : ~(Permissions(acct'[u], profiles', bindings'[u])
                                                   \subseteq (Effective(u) \cup Holds(r))))

-----------------------------------------------------------------------------
(* create_user, and the local set-up of the first administrator.           *)

BootstrapAdministrator ==
  /\ \A u \in Users : ~Exists(u)
  /\ \E u \in Users : acct' = [acct EXCEPT ![u] = [role |-> Admin, enabled |-> TRUE, cred |-> "active",
                                                   access |-> "all"]]
  /\ UNCHANGED <<profiles, bindings, lease, call, calls, excess>>
CreateChecks(r) ==
  /\ At(r, "create", "leased")
  /\ \E u \in Users, role \in {Admin, Viewer}, enabled \in BOOLEAN, access \in {"all", "selected"} :
       /\ Granted(r, BASE_PERMISSIONS[role]) /\ AccessAllowed(role, access)
       /\ Checked(r, u, role, enabled, access)
  /\ UNCHANGED <<acct, profiles, bindings, lease, calls, excess>>
\* create_with_bootstrap, one transaction.
Create(r) ==
  /\ At(r, "create", "checked")
  /\ LET c == call[r]
     IN acct' = IF Exists(c.user) THEN acct
                ELSE [acct EXCEPT ![c.user] = [role |-> c.role, enabled |-> c.enabled, cred |-> "pending",
                                               access |-> c.access]]
  /\ Done(r) /\ UNCHANGED <<profiles, bindings, calls>> /\ excess' = excess
\* set_initial_password: the user, with the temporary credential.
Activate(u) == /\ acct[u].cred = "pending" /\ acct[u].enabled /\ acct' = [acct EXCEPT ![u].cred = "active"]
               /\ UNCHANGED <<profiles, bindings, lease, call, calls, excess>>

-----------------------------------------------------------------------------
(* update_user.                                                            *)

Changed(u, role, enabled) == [acct[u] EXCEPT !.role = role, !.enabled = enabled]
\* The grants, the binding, and guard_account_change.
UpdateChecks(r) ==
  /\ At(r, "update", "leased")
  /\ \E u \in Users, role \in {Admin, Viewer}, enabled \in BOOLEAN, access \in {"none", "all", "selected"} :
       /\ Exists(u) /\ Granted(r, Effective(u))
       /\ role # acct[u].role => Granted(r, BASE_PERMISSIONS[role]) /\ bindings[u] = 0
       /\ access # "none" => AccessAllowed(role, access)
       /\ Guard([acct EXCEPT ![u] = Changed(u, role, enabled)], profiles, bindings)
       /\ Checked(r, u, role, enabled, access)
  /\ UNCHANGED <<acct, profiles, bindings, lease, calls, excess>>
\* UserRegistry.update: the last administrator stays, a new one sees every camera.
Update(r) ==
  /\ At(r, "update", "checked")
  /\ LET c == call[r]
         old == acct[c.user]
         new == [Changed(c.user, c.role, c.enabled) EXCEPT
                   !.access = IF c.access # "none" THEN c.access
                              ELSE IF c.role = Admin /\ old.role # Admin THEN "all" ELSE @]
         removed == old.enabled /\ old.role = Admin /\ ~(new.enabled /\ new.role = Admin)
     IN acct' = IF removed /\ ~OtherAdministrator(c.user) THEN acct ELSE [acct EXCEPT ![c.user] = new]
  /\ Done(r) /\ UNCHANGED <<profiles, bindings, calls>> /\ Gains(r)

-----------------------------------------------------------------------------
(* set_camera_access and reset_password.                                   *)

CameraChecks(r) ==
  /\ At(r, "camera", "leased")
  /\ \E u \in Users, access \in {"all", "selected"} :
       /\ Exists(u) /\ Granted(r, Effective(u)) /\ AccessAllowed(acct[u].role, access)
       /\ Checked(r, u, acct[u].role, acct[u].enabled, access)
  /\ UNCHANGED <<acct, profiles, bindings, lease, calls, excess>>
\* The transaction reads the account again.
RoleNow(r) == acct[call[r].user].role
Camera(r) ==
  /\ At(r, "camera", "checked")
  /\ acct' = IF AccessAllowed(RoleNow(r), call[r].access) THEN [acct EXCEPT ![call[r].user].access = call[r].access]
             ELSE acct
  /\ Done(r) /\ UNCHANGED <<profiles, bindings, calls, excess>>
ResetChecks(r) ==
  /\ At(r, "reset", "leased")
  /\ \E u \in Users :
       /\ Exists(u) /\ Granted(r, Effective(u))
       /\ Guard([acct EXCEPT ![u].enabled = FALSE], profiles, bindings)
       /\ Checked(r, u, acct[u].role, acct[u].enabled, "none")
  /\ UNCHANGED <<acct, profiles, bindings, lease, calls, excess>>
Reset(r) ==
  /\ At(r, "reset", "checked")
  /\ LET u == call[r].user
     IN acct' = IF acct[u].enabled /\ acct[u].role = Admin /\ acct[u].cred = "active" /\ ~OtherAdministrator(u)
                THEN acct ELSE [acct EXCEPT ![u].cred = "pending"]
  /\ Done(r) /\ UNCHANGED <<profiles, bindings, calls, excess>>

-----------------------------------------------------------------------------
(* The role routes run on the event loop.                                  *)

Upsert(r) ==
  /\ At(r, "upsert", "leased")
  /\ \E p \in Profiles, base \in {Admin, Viewer}, permissions \in SUBSET PERMISSIONS :
       LET prof == [profiles EXCEPT ![p] = [base |-> base, permissions |-> permissions]]
       IN /\ permissions \subseteq BASE_PERMISSIONS[base]
          /\ profiles[p].base \in {"none", base}
          /\ Granted(r, profiles[p].permissions) /\ Granted(r, permissions)
          /\ Guard(acct, prof, bindings) /\ profiles' = prof
  /\ UNCHANGED <<acct, bindings, calls>> /\ Gains(r) /\ Done(r)
Delete(r) ==
  /\ At(r, "delete", "leased")
  /\ \E p \in Profiles : /\ profiles[p] # NoProfile /\ Granted(r, profiles[p].permissions)
                         /\ \A u \in Users : bindings[u] # p
                         /\ profiles' = [profiles EXCEPT ![p] = NoProfile]
                         /\ Guard(acct, profiles', bindings)
  /\ UNCHANGED <<acct, bindings, calls, excess>> /\ Done(r)
\* What is asked of an administrator who gives a profile, or takes it away.
ProfileOnly(u, p) == IF p = 0 THEN {} ELSE profiles[p].permissions
Gives(u, p) == IF p = 0 THEN BASE_PERMISSIONS[acct[u].role] ELSE profiles[p].permissions
RoleUnder(u, p) == IF p = 0 THEN acct[u].role ELSE profiles[p].base
\* assign: the binding first.
AssignBinding(r) ==
  /\ At(r, "assign", "leased")
  /\ \E u \in Users, p \in {0} \cup {q \in Profiles : profiles[q] # NoProfile} :
       LET binds == [bindings EXCEPT ![u] = p]
       IN /\ Exists(u) /\ Granted(r, Effective(u)) /\ Granted(r, Gives(u, p))
          /\ Guard([acct EXCEPT ![u].role = RoleUnder(u, p)], profiles, binds)
          /\ bindings' = binds
          /\ call' = [call EXCEPT ![r] = [@ EXCEPT !.at = "checked", !.user = u, !.role = RoleUnder(u, p)]]
  /\ UNCHANGED <<acct, profiles, lease, calls>> /\ Gains(r)
\* users.update with the profile's role, in the same turn of the loop.
AssignAccount(r) ==
  /\ At(r, "assign", "checked")
  /\ LET u == call[r].user
         removed == acct[u].enabled /\ acct[u].role = Admin /\ call[r].role # Admin
     IN acct' = IF acct[u].role = call[r].role \/ (removed /\ ~OtherAdministrator(u)) THEN acct
                ELSE [acct EXCEPT ![u].role = call[r].role,
                                  ![u].access = IF call[r].role = Admin THEN "all" ELSE @]
  /\ UNCHANGED <<profiles, bindings, calls>> /\ Gains(r) /\ Done(r)

-----------------------------------------------------------------------------
\* A check fails: the route answers with the error and writes nothing.
Refused(r) == /\ call[r].at = "leased" /\ Done(r) /\ UNCHANGED <<acct, profiles, bindings, calls, excess>>
\* The route's client is gone: the thread goes on, with the lease or without.
Abandon(r) == /\ call[r].op \in {"create", "camera"} /\ call[r].at \in {"leased", "checked"} /\ lease = r
              /\ lease' = 0 /\ UNCHANGED <<acct, profiles, bindings, call, calls, excess>>
\* The program ends and starts again; what was written stays.
Crash == /\ \E r \in Requests : call[r].at # "idle"
         /\ lease' = 0 /\ call' = [r \in Requests |-> Idle]
         /\ UNCHANGED <<acct, profiles, bindings, calls, excess>>

AdmNext ==
  \/ BootstrapAdministrator \/ Crash
  \/ \E u \in Users : Activate(u)
  \/ \E r \in Requests : \/ Call(r) \/ CreateChecks(r) \/ Create(r) \/ UpdateChecks(r) \/ Update(r)
                         \/ CameraChecks(r) \/ Camera(r) \/ ResetChecks(r) \/ Reset(r)
                         \/ Upsert(r) \/ Delete(r) \/ AssignBinding(r) \/ AssignAccount(r)
                         \/ Refused(r) \/ Abandon(r)
AdmSpec == AdmInit /\ [][AdmNext]_admvars

-----------------------------------------------------------------------------
(* Properties.                                                             *)

\* Once the product is set up somebody can administer it: an enabled account
\* with a password and every permission, whatever profile is bound or changed,
\* whoever is demoted or reset, and wherever the program dies.
SomebodyAdministers == (\E u \in Users : Exists(u)) =>
                         \E u \in Users : FullAdministrator(acct[u], profiles, bindings[u])

\* Delegation gives no account a permission its administrator does not hold,
\* also half-way through an assignment, and an administrator's stored camera
\* selection is every camera, also when an abandoned selection is written late.
DelegationBounded == ~excess /\ \A u \in Users : Exists(u) => AccessAllowed(acct[u].role, acct[u].access)
=============================================================================

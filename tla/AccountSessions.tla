--------------------------- MODULE AccountSessions --------------------------
(***************************************************************************)
(* Signing in and staying signed in (auth_sessions.py,                     *)
(* operator_identity_security.py, operator_oidc.py, the account rows of    *)
(* services/user_registry.py, and the routes that call them): password and *)
(* federated sign-in, the second factor, one session per account, and the  *)
(* changes that must end all of it.                                        *)
(*                                                                         *)
(* The model follows one account and one subject of one issuer.  Accounts  *)
(* share nothing but the revision counter, which a revocation of another   *)
(* account advances.                                                       *)
(*                                                                         *)
(* A route runs on the event loop without interruption until it awaits a   *)
(* thread; `loop' is where the loop is inside a turn that threads can       *)
(* observe.  Threads run at any time, but wait for the lock of the         *)
(* AccountSecurityService, which a sign-in can hold over two reads.        *)
(* The lock of the session manager is never held across an await.          *)
(*                                                                         *)
(* A login's number stands for every secret made for it: the challenge     *)
(* token, the OIDC state and code, the session token.  Limits on rates and *)
(* on pending entries only refuse calls and are left out, as are wrong     *)
(* passwords and codes: they change nothing here.  A sign-in its client    *)
(* abandons takes no further step; its token reaches nobody.               *)
(***************************************************************************)
EXTENDS Integers, FiniteSets

CONSTANTS Login,       \* bound: sign-ins
          Role,
          None,        \* no login, no role
          MaxChanges,  \* bound: changes of account, factor, provider and link, revocations
                       \* of other accounts and moves of the wall clock, together
          MaxStep,     \* bound: 30-second steps of the wall clock
          NumRecovery  \* recovery codes of a set

ASSUME BoundsAssumption ==
    {MaxChanges, MaxStep, NumRecovery} \subseteq Nat
ASSUME NoneAssumption == Role # {} /\ None \notin Role /\ None \notin Login

VARIABLES
    \* durable: the row of the registry, of table mfa, of the provider and of the link
    account, factor, provider, link,
    \* UserSessionManager: _sessions and the sessions past their deadline; _user_tokens
    sessions, lapsed, current,
    \* AccountSecurityService: _epochs of the account, _revision, _challenges, _enrollments
    epoch, revision, challenges, enrollment,
    \* sign-ins: where each is, and what it has proved so far
    pc, proof,
    \* one request of a signed-in client
    request,
    \* the administrator who holds `mutations' across a thread; the event loop
    mutating, loop,
    step, changes,
    \* history: codes accepted, how often one was
    spent, uses

durable  == <<account, factor, provider, link>>
manager  == <<sessions, lapsed, current>>
security == <<epoch, revision, challenges, enrollment>>
bounds   == <<step, changes>>
history  == <<spent, uses>>
vars == <<durable, manager, security, pc, proof, request, mutating, loop, bounds, history>>

NoFactor  == [gen |-> 0, last |-> 0, recovery |-> {}]
NoRequest == [pc |-> "none", login |-> None, locks |-> FALSE, current |-> FALSE]
NoProof   == [role |-> None, version |-> 0, started |-> 0, epoch |-> 0,
              gen |-> 0, provider |-> 0, link |-> 0, current |-> FALSE]

RecoverySet(batch) == {batch} \X (1..NumRecovery)

\* A linked account that was set up earlier, with or without a second factor.
Init ==
    /\ \E r \in Role :
         account = [enabled |-> TRUE, role |-> r, kind |-> "password", version |-> 0]
    /\ factor \in {NoFactor, [gen |-> 1, last |-> 0, recovery |-> RecoverySet(1)]}
    /\ provider = [enabled |-> TRUE, revision |-> 1] /\ link = 1
    /\ sessions = {} /\ lapsed = {} /\ current = None
    /\ epoch = 0 /\ revision = 0 /\ challenges = {} /\ enrollment = {}
    /\ pc = [l \in Login |-> "idle"] /\ proof = [l \in Login |-> NoProof]
    /\ request = NoRequest /\ mutating = FALSE /\ loop = "free"
    /\ step = 0 /\ changes = 1
    /\ spent = {} /\ uses = 0

-----------------------------------------------------------------------------
(* Locks.                                                                  *)

LoopFree == loop = "free"

\* The lock of the AccountSecurityService.
SecurityFree == \A l \in Login : pc[l] \notin {"status", "completing"}

\* The lock `mutations' of the product's routes.
MutationsFree == /\ ~mutating /\ ~request.locks
                 /\ \A l \in Login : pc[l] \notin {"sso_read", "sso_answer"}

\* The lock `challenge_mutations'.
ChallengesFree == \A l \in Login : pc[l] \notin {"completing", "mfa_read", "mfa_answer"}

Fresh  == changes + 1
Change == changes <= MaxChanges /\ changes' = Fresh

-----------------------------------------------------------------------------
(* What is checked against the durable state.                              *)

Active == account.enabled /\ account.kind = "password"

\* resolve_session
Resolves(p) == Active /\ account.role = p.role /\ account.version = p.version

\* primary_current
PrimaryCurrent(p) == epoch <= p.started /\ Resolves(p)

\* _primary_authorized: the authority_check of a federated sign-in
PrimaryAuthorized(p) ==
    p.provider # 0 => /\ provider.enabled /\ provider.revision = p.provider
                      /\ link = p.link /\ PrimaryCurrent(p)

\* AccountSecurityService._current
Current(p) == p.epoch = epoch /\ PrimaryAuthorized(p) /\ Resolves(p)

-----------------------------------------------------------------------------
(* The session manager.                                                    *)

Goto(l, where)     == pc' = [pc EXCEPT ![l] = where]
Prove(l, where, p) == Goto(l, where) /\ proof' = [proof EXCEPT ![l] = p]
Fail(l)            == Prove(l, "failed", NoProof)

\* The client holds the token.
Delivered(l) == pc[l] = "done"

IssueTo(l) == /\ sessions' = (sessions \ {current}) \cup {l} /\ current' = l
              /\ lapsed' = lapsed \ {current}

Forget(l) == /\ sessions' = sessions \ {l} /\ lapsed' = lapsed \ {l}
             /\ current' = IF current = l THEN None ELSE current

\* A mutant: resolve trusts what the thread has read.
ResolvedByRead(l, authority) == l \notin lapsed /\ authority

\* What the second part of resolve finds for a token whose account was read.
Resolved(l, authority) == l \in sessions /\ l \notin lapsed /\ authority

\* It forgets a session it refuses.
ResolveEnds(l, authority) ==
    IF l \in sessions /\ ~Resolved(l, authority) THEN Forget(l) ELSE UNCHANGED manager

\* revoke: listeners hear of a session that was there.
Revoke(l) ==
    /\ Forget(l) /\ loop' = IF l \in sessions THEN "notify" ELSE "free"

\* A mutant: only what is pending is ended.
RevokePending ==
    /\ loop = "pop" /\ loop' = "notify"
    /\ UNCHANGED <<durable, manager, security, pc, proof, request, mutating, bounds, history>>

\* revoke_user, called in the same turn as the change: the session goes, ...
RevokeUser ==
    /\ loop = "pop" /\ loop' = "notify"
    /\ Forget(current)
    /\ UNCHANGED <<durable, security, pc, proof, request, mutating, bounds, history>>

\* ... then invalidate_user, the listener, ends what is pending.
InvalidateUser ==
    /\ loop = "notify" /\ SecurityFree /\ loop' = "free"
    /\ revision' = revision + 1 /\ epoch' = revision + 1
    /\ challenges' = {} /\ enrollment' = {}
    /\ UNCHANGED <<durable, manager, pc, proof, request, mutating, bounds, history>>

\* The elapsed lifetime of a session, a challenge or an enrolment ends.
Lapse ==
    /\ \/ \E l \in sessions \ lapsed : /\ lapsed' = lapsed \cup {l}
                                       /\ UNCHANGED <<challenges, enrollment>>
       \/ challenges # {} /\ challenges' = {} /\ UNCHANGED <<lapsed, enrollment>>
       \/ enrollment # {} /\ enrollment' = {} /\ UNCHANGED <<lapsed, challenges>>
    /\ UNCHANGED <<durable, sessions, current, epoch, revision, pc, proof, request, mutating,
                   loop, bounds, history>>

-----------------------------------------------------------------------------
(* Signing in with a password: POST /api/v1/auth/login.                    *)

\* primary_started, in a thread, for a password or for a federated sign-in.
PrimaryStarted(l) ==
    /\ pc[l] = "idle" /\ SecurityFree
    /\ \E where \in {"verify", "configuration"} :
         Prove(l, where, [NoProof EXCEPT !.started = revision])
    /\ UNCHANGED <<durable, manager, security, request, mutating, loop, bounds, history>>

\* verify_password_snapshot
VerifyPassword(l) ==
    /\ pc[l] = "verify"
    /\ IF Active
       THEN Prove(l, "gate", [proof[l] EXCEPT !.role = account.role,
                                              !.version = account.version])
       ELSE Fail(l)
    /\ UNCHANGED <<durable, manager, security, request, mutating, loop, bounds, history>>

\* password_authenticated: the epoch and the account, then the factor.
PasswordAuthenticated(l) ==
    /\ pc[l] = "gate" /\ SecurityFree
    /\ IF PrimaryCurrent(proof[l])
       THEN Prove(l, "status", [proof[l] EXCEPT !.epoch = epoch])
       ELSE Fail(l)
    /\ UNCHANGED <<durable, manager, security, request, mutating, loop, bounds, history>>

\* The new challenge replaces an earlier one.
Challenged(l, p) == /\ Prove(l, "challenged", [p EXCEPT !.gen = factor.gen])
                    /\ challenges' = {l}

FactorStatus(l) ==
    /\ pc[l] = "status"
    /\ IF factor.gen = 0 THEN Goto(l, "issue") /\ UNCHANGED <<proof, challenges>>
                         ELSE Challenged(l, proof[l])
    /\ UNCHANGED <<durable, manager, epoch, revision, enrollment, request, mutating, loop,
                   bounds, history>>

Issue(l) ==
    /\ pc[l] = "issue" /\ LoopFree /\ IssueTo(l) /\ Goto(l, "read")
    /\ UNCHANGED <<durable, security, proof, request, mutating, loop, bounds, history>>

\* The thread of resolve, after any of the three ways to issue.
ResolveRead(l) ==
    /\ \E where \in {<<"read", "recheck">>, <<"mfa_read", "mfa_answer">>,
                     <<"sso_read", "sso_answer">>} :
         /\ pc[l] = where[1]
         /\ Prove(l, where[2], [proof[l] EXCEPT !.current = Resolves(proof[l])])
    /\ UNCHANGED <<durable, manager, security, request, mutating, loop, bounds, history>>

ResolveRecheck(l) ==
    /\ pc[l] = "recheck" /\ LoopFree
    /\ ResolveEnds(l, proof[l].current)
    /\ Prove(l, "validate", [proof[l] EXCEPT !.current = Resolved(l, proof[l].current)])
    /\ UNCHANGED <<durable, security, request, mutating, loop, bounds, history>>

\* verify_issued_session: validate_primary_proof, then the factor's status.
ValidatePrimaryProof(l) ==
    /\ pc[l] = "validate" /\ SecurityFree
    /\ Goto(l, IF Current(proof[l]) THEN "factor" ELSE "reject")
    /\ UNCHANGED <<durable, manager, security, proof, request, mutating, loop, bounds, history>>

ValidateFactor(l) ==
    /\ pc[l] = "factor"
    /\ Goto(l, IF factor.gen = 0 THEN "accept" ELSE "reject")
    /\ UNCHANGED <<durable, manager, security, proof, request, mutating, loop, bounds, history>>

LoginAnswer(l) ==
    /\ pc[l] \in {"accept", "reject"} /\ LoopFree
    /\ \/ /\ pc[l] = "accept" /\ proof[l].current
          /\ Goto(l, "done") /\ UNCHANGED <<proof, manager, loop>>
       \/ pc[l] = "accept" /\ ~proof[l].current /\ Fail(l) /\ UNCHANGED <<manager, loop>>
       \/ pc[l] = "reject" /\ Fail(l) /\ Revoke(l)
    /\ UNCHANGED <<durable, security, request, mutating, bounds, history>>

-----------------------------------------------------------------------------
(* The second factor: AccountSecurityStore.consume, POST /api/v1/auth/mfa. *)

\* Authenticator codes that the clock admits, one step of tolerance.
Window == {v \in (step - 1)..(step + 1) : v >= 0}

Unused(v) == v > factor.last

Acceptable == {[kind |-> "totp", id |-> <<factor.gen, v>>] : v \in {w \in Window : Unused(w)}}
              \cup {[kind |-> "recovery", id |-> code] : code \in factor.recovery}

\* consume: the factor after a code it accepts.
Consumed(code) == IF code.kind = "totp" THEN [factor EXCEPT !.last = code.id[2]]
                                        ELSE [factor EXCEPT !.recovery = @ \ {code.id}]

Spend(code) == spent' = spent \cup {code} /\ uses' = uses + 1

\* complete_challenge, up to its second look at the account: a thread may write the
\* registry in between.
CompleteChallenge(l) ==
    /\ l \in challenges /\ LoopFree /\ SecurityFree /\ ChallengesFree
    /\ Current(proof[l]) /\ factor.gen # 0 /\ factor.gen = proof[l].gen
    /\ \E code \in Acceptable : factor' = Consumed(code) /\ Spend(code)
    /\ challenges' = challenges \ {l} /\ Goto(l, "completing") /\ loop' = "completing"
    /\ UNCHANGED <<account, provider, link, manager, epoch, revision, enrollment, proof,
                   request, mutating, bounds>>

ChallengeIssue(l) ==
    /\ pc[l] = "completing" /\ loop' = "free"
    /\ IF Current(proof[l]) THEN IssueTo(l) /\ Goto(l, "mfa_read") /\ UNCHANGED proof
                            ELSE Fail(l) /\ UNCHANGED manager
    /\ UNCHANGED <<durable, security, request, mutating, bounds, history>>

\* validate_issued_factor, or the checks of a federated sign-in without a factor.
ValidateIssued(l) ==
    Current(proof[l]) /\ factor.gen = proof[l].gen

\* The last turn of POST /auth/mfa and POST /auth/oidc/complete: the rest of resolve, the
\* validation, the answer.
IssuedAnswer(l) ==
    /\ pc[l] \in {"mfa_answer", "sso_answer"} /\ LoopFree /\ SecurityFree
    /\ \/ /\ Resolved(l, proof[l].current) /\ ValidateIssued(l)
          /\ Goto(l, "done") /\ UNCHANGED <<proof, manager, loop>>
       \/ /\ Resolved(l, proof[l].current) /\ ~ValidateIssued(l)
          /\ Fail(l) /\ Revoke(l)
       \/ /\ ~Resolved(l, proof[l].current)
          /\ ResolveEnds(l, proof[l].current) /\ Fail(l) /\ UNCHANGED loop
    /\ UNCHANGED <<durable, security, request, mutating, bounds, history>>

-----------------------------------------------------------------------------
(* Federated sign-in: OIDCService.start, callback and complete.            *)

Federated(l, from, ok, where, p) ==
    /\ pc[l] = from
    /\ IF ok THEN Prove(l, where, p) ELSE Fail(l)
    /\ UNCHANGED <<durable, manager, security, request, mutating, loop, bounds, history>>

StartFlow(l) == Federated(l, "configuration", provider.enabled, "flow",
                          [proof[l] EXCEPT !.provider = provider.revision])

CallbackProvider(l) ==
    Federated(l, "flow", provider.enabled /\ provider.revision = proof[l].provider, "link",
              proof[l])

CallbackLink(l) == Federated(l, "link", link # 0, "snapshot",
                             [proof[l] EXCEPT !.link = link])

\* active_session_snapshot
CallbackSnapshot(l) ==
    Federated(l, "snapshot", Active, "primary",
              [proof[l] EXCEPT !.role = account.role, !.version = account.version])

CallbackPrimary(l) ==
    SecurityFree /\ Federated(l, "primary", PrimaryCurrent(proof[l]), "completion", proof[l])

\* POST /auth/oidc/complete up to the thread of resolve.
CompleteFlow(l) ==
    /\ pc[l] = "completion" /\ LoopFree /\ SecurityFree /\ MutationsFree
    /\ LET p == [proof[l] EXCEPT !.epoch = epoch] IN
         \/ /\ PrimaryAuthorized(p) /\ factor.gen = 0
            /\ Prove(l, "sso_read", p) /\ IssueTo(l) /\ UNCHANGED challenges
         \/ /\ PrimaryAuthorized(p) /\ factor.gen # 0
            /\ Challenged(l, p) /\ UNCHANGED manager
         \/ ~PrimaryAuthorized(p) /\ Fail(l) /\ UNCHANGED <<manager, challenges>>
    /\ UNCHANGED <<durable, epoch, revision, enrollment, request, mutating, loop, bounds,
                   history>>

SignIn(l) ==
    \/ PrimaryStarted(l) \/ VerifyPassword(l) \/ PasswordAuthenticated(l) \/ FactorStatus(l)
    \/ Issue(l) \/ ResolveRead(l) \/ ResolveRecheck(l) \/ ValidatePrimaryProof(l)
    \/ ValidateFactor(l) \/ LoginAnswer(l)
    \/ CompleteChallenge(l) \/ ChallengeIssue(l) \/ IssuedAnswer(l)
    \/ StartFlow(l) \/ CallbackProvider(l) \/ CallbackLink(l) \/ CallbackSnapshot(l)
    \/ CallbackPrimary(l) \/ CompleteFlow(l)

-----------------------------------------------------------------------------
(* A request of the signed-in client: resolve, then authenticate's own     *)
(* reads.  Routes that change the second factor hold `mutations'.          *)

RequestBegin(l) ==
    /\ request.pc = "none" /\ Delivered(l) /\ l \in sessions /\ LoopFree
    /\ IF l \in lapsed
       THEN Forget(l) /\ UNCHANGED request
       ELSE /\ UNCHANGED manager
            /\ \E locks \in {FALSE, MutationsFree} :
                 request' = [pc |-> "read", login |-> l, locks |-> locks, current |-> FALSE]
    /\ UNCHANGED <<durable, security, pc, proof, mutating, loop, bounds, history>>

RequestRead ==
    /\ request.pc = "read"
    /\ request' = [request EXCEPT !.pc = "recheck", !.current = Resolves(proof[request.login])]
    /\ UNCHANGED <<durable, manager, security, pc, proof, mutating, loop, bounds, history>>

RequestRecheck ==
    /\ request.pc = "recheck" /\ LoopFree
    /\ ResolveEnds(request.login, request.current)
    /\ request' = IF Resolved(request.login, request.current)
                  THEN [request EXCEPT !.pc = "authority"] ELSE NoRequest
    /\ UNCHANGED <<durable, security, pc, proof, mutating, loop, bounds, history>>

\* current_authority: the row of the account, then the state of its credential.
RequestAuthority ==
    /\ \/ /\ request.pc = "authority"
          /\ request' = IF account.enabled /\ account.role = proof[request.login].role
                        THEN [request EXCEPT !.pc = "credential"] ELSE NoRequest
       \/ /\ request.pc = "credential"
          /\ request' = IF account.kind = "password"
                        THEN [request EXCEPT !.pc = "admitted"] ELSE NoRequest
    /\ UNCHANGED <<durable, manager, security, pc, proof, mutating, loop, bounds, history>>

\* POST /auth/logout, which only resolves.
Logout ==
    /\ request.pc = "authority" /\ ~request.locks /\ LoopFree
    /\ Revoke(request.login) /\ request' = NoRequest
    /\ UNCHANGED <<durable, security, pc, proof, mutating, bounds, history>>

Answered == request' = NoRequest /\ UNCHANGED <<manager, pc, proof, mutating>>

RequestEnds ==
    /\ request.pc = "admitted" /\ LoopFree /\ Answered
    /\ UNCHANGED <<durable, security, loop, bounds, spent, uses>>

\* The routes below run with the right password, checked in the same turn.
FactorRoute == request.pc = "admitted" /\ request.locks /\ LoopFree /\ SecurityFree /\ Active

\* begin_enrollment
Enroll ==
    /\ FactorRoute /\ factor.gen = 0 /\ Answered
    /\ enrollment' = {[role |-> account.role, version |-> account.version, epoch |-> epoch]}
    /\ UNCHANGED <<durable, epoch, revision, challenges, loop, bounds, spent, uses>>

\* confirm_enrollment; the code is used up
Confirm ==
    /\ FactorRoute /\ factor.gen = 0 /\ Change /\ Answered
    /\ \E p \in enrollment : p.epoch = epoch /\ Resolves(p)
    /\ \E v \in Window :
         /\ factor' = [gen |-> Fresh, last |-> v, recovery |-> RecoverySet(Fresh)]
         /\ Spend([kind |-> "totp", id |-> <<Fresh, v>>])
    /\ enrollment' = {} /\ loop' = "pop"
    /\ UNCHANGED <<account, provider, link, epoch, revision, challenges, step>>

\* reauthenticate_factor, then the removal of the factor or new recovery codes
Disable ==
    /\ FactorRoute /\ factor.gen # 0 /\ Change /\ Answered
    /\ \E code \in Acceptable : Spend(code)
    /\ factor' = NoFactor /\ loop' = "pop"
    /\ UNCHANGED <<account, provider, link, security, step>>

ReplaceRecovery ==
    /\ FactorRoute /\ factor.gen # 0 /\ Change /\ Answered
    /\ \E code \in Acceptable :
         factor' = [Consumed(code) EXCEPT !.recovery = RecoverySet(Fresh)] /\ Spend(code)
    /\ UNCHANGED <<account, provider, link, security, loop, step>>

-----------------------------------------------------------------------------
(* Administration.                                                         *)

Reset == [account EXCEPT !.kind = "bootstrap", !.version = Fresh]

Updated == \E on \in BOOLEAN, r \in Role : account' = [account EXCEPT !.enabled = on, !.role = r]

\* update_user, reset_password and set_camera_access of the operator's routes: a thread
\* writes (the same row, if only the cameras change), ...
AdminWrite ==
    /\ MutationsFree /\ Change /\ mutating' = TRUE
    /\ account' = Reset \/ Updated
    /\ UNCHANGED <<factor, provider, link, manager, security, pc, proof, request, loop, step,
                   history>>

\* ... and the loop revokes, even when the request is gone (_complete_critical).
AdminRevoke ==
    /\ mutating /\ LoopFree /\ mutating' = FALSE /\ loop' = "notify"
    /\ Forget(current)
    /\ UNCHANGED <<durable, security, pc, proof, request, bounds, history>>

\* Changes written in the turn that revokes.
Turn == /\ LoopFree /\ Change
        /\ UNCHANGED <<factor, manager, security, pc, proof, request, mutating, step, history>>

\* PATCH /api/v1/users, which does not take `mutations'
UpdateUser == /\ Turn /\ Updated /\ loop' = "pop"
              /\ UNCHANGED <<provider, link>>

\* assign_role, and update_role of a bound profile, which changes no row of the account
AssignRole == /\ Turn /\ MutationsFree /\ loop' = "pop"
              /\ \E r \in Role : account' = [account EXCEPT !.role = r]
              /\ UNCHANGED <<provider, link>>

\* activate_bootstrap_password
ActivateBootstrap ==
    /\ Turn /\ account.enabled /\ account.kind = "bootstrap" /\ loop' = "pop"
    /\ account' = [account EXCEPT !.kind = "password", !.version = Fresh]
    /\ UNCHANGED <<provider, link>>

\* Provider changes revoke the linked accounts.
ConfigureProvider ==
    /\ Turn /\ MutationsFree /\ loop' = IF link = 0 THEN "free" ELSE "pop"
    /\ \E on \in BOOLEAN : provider' = [enabled |-> on, revision |-> Fresh]
    /\ UNCHANGED <<account, link>>

LinkUser == /\ Turn /\ MutationsFree /\ Active /\ link = 0 /\ link' = Fresh
            /\ UNCHANGED <<account, provider, loop>>

UnlinkUser == /\ Turn /\ MutationsFree /\ link # 0 /\ link' = 0 /\ loop' = "pop"
              /\ UNCHANGED <<account, provider>>

-----------------------------------------------------------------------------
(* The rest of the world.                                                  *)

\* Another account is revoked.
OtherRevoked ==
    /\ Change /\ SecurityFree /\ revision' = revision + 1
    /\ UNCHANGED <<durable, manager, epoch, challenges, enrollment, pc, proof, request,
                   mutating, loop, step, history>>

\* The wall clock moves, in either direction.
ClockMoves ==
    /\ Change /\ step' \in (0..MaxStep) \ {step}
    /\ UNCHANGED <<durable, manager, security, pc, proof, request, mutating, loop, history>>

\* The process ends and starts again: only the durable state is left.
Restart ==
    /\ sessions' = {} /\ lapsed' = {} /\ current' = None
    /\ epoch' = 0 /\ revision' = 0 /\ challenges' = {} /\ enrollment' = {}
    /\ pc' = [l \in Login |-> IF pc[l] = "idle" THEN "idle" ELSE "failed"]
    /\ proof' = [l \in Login |-> NoProof]
    /\ request' = NoRequest /\ mutating' = FALSE /\ loop' = "free"
    /\ UNCHANGED <<durable, bounds, history>>

Client == \/ \E l \in Login : RequestBegin(l)
          \/ RequestRead \/ RequestRecheck \/ RequestAuthority \/ Logout \/ RequestEnds
          \/ Enroll \/ Confirm \/ Disable \/ ReplaceRecovery

Administration == \/ AdminWrite \/ AdminRevoke \/ UpdateUser \/ AssignRole
                  \/ ActivateBootstrap \/ ConfigureProvider \/ LinkUser \/ UnlinkUser

Next == \/ \E l \in Login : SignIn(l)
        \/ RevokeUser \/ InvalidateUser \/ Lapse
        \/ Client \/ Administration
        \/ OtherRevoked \/ ClockMoves \/ Restart

Spec == Init /\ [][Next]_vars

-----------------------------------------------------------------------------
\* Every variable has its type; the account has at most one session, and _user_tokens
\* always names it (issue, resolve and revoke keep the two tables together).
TypeOK ==
    /\ account \in [enabled : BOOLEAN, role : Role, kind : {"password", "bootstrap"},
                    version : Nat]
    /\ factor.gen \in Nat /\ factor.last \in Nat
    /\ provider \in [enabled : BOOLEAN, revision : Nat] /\ link \in Nat
    /\ current \in {None} \cup Login /\ sessions = {current} \ {None}
    /\ lapsed \subseteq sessions
    /\ challenges \subseteq Login /\ Cardinality(challenges) <= 1
    /\ Cardinality(enrollment) <= 1 /\ epoch \in 0..revision
    /\ request.login \in {None} \cup Login
    /\ loop \in {"free", "pop", "notify", "completing"}

\* No change is between its write and the end of its revocation.
Settled == loop = "free" /\ ~mutating

Held == {l \in sessions : Delivered(l)}

\* While no change is in hand, a session the client holds was proved with the password,
\* role and federation that are in force now: no interleaving of a sign-in with a change
\* leaves a session of the old authority behind.
SessionCurrent ==
    Settled => \A l \in Held : Resolves(proof[l]) /\ PrimaryAuthorized(proof[l])

\* While no change is in hand, a session the client holds began after the last revocation
\* of its account, even one that was undone again (disabled and enabled).
RevokedStaysOut == Settled => \A l \in Held : epoch <= proof[l].started

\* While no change is in hand, a session the client holds was obtained with the second
\* factor that is in force, and without one only if there is none.
FactorEnforced == Settled => \A l \in Held : proof[l].gen = factor.gen

\* No authenticator or recovery code is accepted twice, also when the wall clock is set
\* back, the process restarts, or the code was the one that confirmed the enrolment.
CodeOnce == Cardinality(spent) = uses

\* However sign-ins, requests and changes of the account interleave, no session outlives
\* the authority, the revocations or the second factor it was granted with, and no code
\* is accepted twice (auth_sessions, operator_identity_security).
SessionsSound == TypeOK /\ SessionCurrent /\ RevokedStaysOut /\ FactorEnforced /\ CodeOnce

\* A request that resolves while no change is in hand has the authority in force: the
\* account read in the thread is not used after a revocation.
AdmittedCurrent ==
    [][request.pc = "recheck" /\ request'.pc = "authority" /\ Settled
       => Resolves(proof[request.login])]_vars
====

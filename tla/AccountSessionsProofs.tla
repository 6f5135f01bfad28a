----------------------- MODULE AccountSessionsProofs ------------------------
(***************************************************************************)
(* Theorems about AccountSessions, for any sign-ins, roles, clock and any  *)
(* number of changes: no session outlives the authority, the revocations   *)
(* or the second factor it was granted with, and no code is used twice.    *)
(* And about AccountAdministration, for any users, profiles and requests:  *)
(* somebody can administer, and nobody gives what they do not hold.        *)
(***************************************************************************)
EXTENDS MCAccountSessions, FiniteSetTheorems, TLAPS

-----------------------------------------------------------------------------
(* The inductive invariant.                                                *)

Places == {"idle", "failed", "verify", "gate", "status", "issue", "read", "recheck", "validate",
           "factor", "accept", "reject", "done", "challenged", "completing", "mfa_read",
           "mfa_answer", "configuration", "flow", "link", "snapshot", "primary", "completion",
           "sso_read", "sso_answer"}
Proofs == [role : Role \cup {None}, version : Nat, started : Nat, epoch : Nat, gen : Nat,
           provider : Nat, link : Nat, current : BOOLEAN]

\* What is durable, and the clock.
RowsSound ==
  /\ account \in [enabled : BOOLEAN, role : Role, kind : {"password", "bootstrap"}, version : Nat]
  /\ factor \in [gen : Nat, last : Nat, recovery : SUBSET (Nat \X Nat)]
  /\ provider \in [enabled : BOOLEAN, revision : Nat \ {0}] /\ link \in Nat
  /\ step \in Nat /\ changes \in Nat \ {0}

\* One session, one challenge, one enrolment; once listeners are told that a session was
\* revoked there is none.
TablesSound ==
  /\ current \in {None} \cup Login /\ sessions = {current} \ {None} /\ lapsed \subseteq sessions
  /\ challenges \subseteq Login /\ \A x, y \in challenges : x = y
  /\ \A x, y \in enrollment : x = y
  /\ epoch \in Nat /\ revision \in Nat /\ epoch <= revision
  /\ loop \in {"free", "pop", "notify", "completing"} /\ mutating \in BOOLEAN
  /\ loop = "notify" => sessions = {}

\* What a sign-in has shown at the place where it is.
Fits(where, p) ==
  /\ where \in {"status", "issue", "read", "recheck", "validate", "factor", "accept", "challenged",
                "completing", "mfa_read", "mfa_answer", "sso_read", "sso_answer"}
       => p.epoch <= p.started
  /\ where \in {"flow", "link", "snapshot", "primary", "completion"} => p.provider # 0
  /\ where \notin {"flow", "link"} /\ p.provider # 0 => p.link # 0
  /\ where \notin {"challenged", "completing", "mfa_read", "mfa_answer", "done"} => p.gen = 0

PlaceSound(l) == /\ Fits(pc[l], proof[l])
                 /\ l \in challenges => pc[l] = "challenged"
                 /\ pc[l] = "completing" => loop = "completing"

LoginsSound ==
  /\ pc \in [Login -> Places] /\ proof \in [Login -> Proofs]
  /\ \A l \in Login : PlaceSound(l)
  /\ \A l, m \in Login : pc[l] = "completing" /\ pc[m] = "completing" => l = m

\* A session that was validated stays valid until a change is written, and a change is in hand
\* until the session is gone.
Valid(p) == Resolves(p) /\ PrimaryAuthorized(p) /\ epoch <= p.started
HeldSound(l) ==
  l \in sessions /\ loop # "pop" /\ ~mutating =>
    /\ pc[l] \in {"factor", "accept", "done"} => Valid(proof[l])
    /\ pc[l] \in {"accept", "done"} => proof[l].gen = factor.gen

\* A request is one of a client that has its token.
RequestSound ==
  /\ request \in [pc : {"none", "read", "recheck", "authority", "credential", "admitted"},
                  login : Login \cup {None}, locks : BOOLEAN, current : BOOLEAN]
  /\ request.pc # "none" => request.login \in Login /\ pc[request.login] = "done"

\* A code in force was not spent: recovery codes are of a batch, authenticator codes of a
\* factor, that is new when it is made, and within a factor the steps only grow.
CodesSound ==
  /\ IsFiniteSet(spent) /\ Cardinality(spent) = uses
  /\ factor.gen \in 0..changes
  /\ \A c \in factor.recovery : c[1] \in 0..changes /\ [kind |-> "recovery", id |-> c] \notin spent
  /\ \A c \in spent : c.id[1] \in 0..changes /\ (c.kind = "recovery" \/ c.id[1] # 0)
  /\ \A v \in Nat : [kind |-> "totp", id |-> <<factor.gen, v>>] \in spent => v <= factor.last

IInv == RowsSound /\ TablesSound /\ LoginsSound /\ (\A l \in Login : HeldSound(l)) /\ RequestSound
          /\ CodesSound

-----------------------------------------------------------------------------
(* Durable rows.                                                           *)

\* Steps that touch nothing durable.
Quiet == UNCHANGED <<account, factor, provider, link, step, changes, spent, uses>>

LEMMA RecoverySetSound ==
  ASSUME NEW b \in Nat
  PROVE  RecoverySet(b) \subseteq Nat \X Nat /\ \A c \in RecoverySet(b) : c[1] = b
  BY BoundsAssumption DEF RecoverySet

\* A code the factor accepts was not spent, and is spent by the factor that is left.
LEMMA AcceptableSound ==
  ASSUME RowsSound, CodesSound, factor.gen # 0, NEW code \in Acceptable
  PROVE  /\ code \notin spent /\ code.id[1] \in 0..changes /\ (code.kind = "recovery" \/ code.id[1] # 0)
         /\ Consumed(code) \in [gen : Nat, last : Nat, recovery : SUBSET (Nat \X Nat)]
         /\ Consumed(code).gen = factor.gen
         /\ Consumed(code).recovery \subseteq factor.recovery
         /\ [kind |-> "recovery", id |-> code.id] = code
              => code.id \notin Consumed(code).recovery
         /\ factor.last <= Consumed(code).last
         /\ \A v \in Nat : code = [kind |-> "totp", id |-> <<factor.gen, v>>] => v <= Consumed(code).last
         /\ code.kind \in {"totp", "recovery"}
         /\ code.kind = "totp" => \E v \in Nat : code = [kind |-> "totp", id |-> <<factor.gen, v>>]
         /\ code.kind = "recovery" => code = [kind |-> "recovery", id |-> code.id]
  <1>0. /\ factor = [gen |-> factor.gen, last |-> factor.last, recovery |-> factor.recovery]
        /\ factor.gen \in Nat /\ factor.last \in Nat /\ factor.recovery \subseteq Nat \X Nat
        /\ step \in Nat /\ changes \in Nat
    BY DEF RowsSound
  <1>1. CASE \E v \in {w \in Window : Unused(w)} : code = [kind |-> "totp", id |-> <<factor.gen, v>>]
    <2>1. PICK v \in {w \in Window : Unused(w)} : code = [kind |-> "totp", id |-> <<factor.gen, v>>]
      BY <1>1
    <2>2. v \in Nat /\ v > factor.last
      BY <1>0 DEF Window, Unused
    <2>3. /\ code.kind = "totp" /\ code.id = <<factor.gen, v>> /\ code.id[1] = factor.gen
          /\ code.id[2] = v
      BY <2>1
    <2>4. Consumed(code) = [gen |-> factor.gen, last |-> v, recovery |-> factor.recovery]
      <3>1. Consumed(code) = [factor EXCEPT !.last = v]
        BY <2>3 DEF Consumed
      <3>2. QED
        BY <1>0, <3>1
    <2>5. code \notin spent
      <3>1. \A a, b \in Nat : a > b => ~(a <= b)
        OBVIOUS
      <3>2. QED
        BY <1>0, <2>1, <2>2, <3>1 DEF CodesSound
    <2>6. \A w \in Nat : code = [kind |-> "totp", id |-> <<factor.gen, w>>] => w = v
      BY <2>1
    <2>7. factor.gen \in 0..changes
      BY DEF CodesSound
    <2> HIDE DEF Consumed
    <2>8. QED
      BY <1>0, <2>1, <2>2, <2>3, <2>4, <2>5, <2>6, <2>7
  <1>2. CASE \E c \in factor.recovery : code = [kind |-> "recovery", id |-> c]
    <2>1. PICK c \in factor.recovery : code = [kind |-> "recovery", id |-> c]
      BY <1>2
    <2>2. code.kind = "recovery" /\ code.id = c /\ c \in Nat \X Nat
      BY <1>0, <2>1
    <2>3. Consumed(code) = [gen |-> factor.gen, last |-> factor.last,
                            recovery |-> factor.recovery \ {c}]
      <3>1. Consumed(code) = [factor EXCEPT !.recovery = @ \ {c}]
        BY <2>2 DEF Consumed
      <3>2. QED
        BY <1>0, <3>1
    <2>4. code \notin spent /\ c[1] \in 0..changes
      BY <2>1 DEF CodesSound
    <2>5. \A w \in Nat : code # [kind |-> "totp", id |-> <<factor.gen, w>>]
      BY <2>2
    <2> HIDE DEF Consumed
    <2>6. QED
      BY <1>0, <2>1, <2>2, <2>3, <2>4, <2>5
  <1>3. QED
    BY <1>1, <1>2 DEF Acceptable

\* The account rows a change may write.
LEMMA AccountsSound ==
  ASSUME RowsSound,
         \/ account' = Reset \/ Updated
         \/ \E r \in Role : account' = [account EXCEPT !.role = r]
         \/ account' = [account EXCEPT !.kind = "password", !.version = Fresh]
  PROVE  account' \in [enabled : BOOLEAN, role : Role, kind : {"password", "bootstrap"}, version : Nat]
  <1>1. account \in [enabled : BOOLEAN, role : Role, kind : {"password", "bootstrap"}, version : Nat]
        /\ Fresh \in Nat
    BY DEF RowsSound, Fresh
  <1>2. CASE Updated
    <2>1. PICK on \in BOOLEAN, r \in Role : account' = [account EXCEPT !.enabled = on, !.role = r]
      BY <1>2 DEF Updated
    <2>2. QED
      BY <1>1, <2>1
  <1>3. CASE account' = Reset
    BY <1>1, <1>3 DEF Reset
  <1>4. CASE \E r \in Role : account' = [account EXCEPT !.role = r]
    BY <1>1, <1>4
  <1>5. CASE account' = [account EXCEPT !.kind = "password", !.version = Fresh]
    BY <1>1, <1>5
  <1>6. QED
    BY <1>2, <1>3, <1>4, <1>5

\* Codes after a new one is accepted.
LEMMA SpendSound ==
  ASSUME RowsSound, CodesSound, NEW code, code \notin spent, Spend(code),
         changes' \in {changes, changes + 1},
         code.id[1] \in 0..changes', code.kind = "recovery" \/ code.id[1] # 0
  PROVE  /\ IsFiniteSet(spent') /\ Cardinality(spent') = uses' /\ spent' = spent \cup {code}
         /\ \A c \in spent' : c.id[1] \in 0..changes' /\ (c.kind = "recovery" \/ c.id[1] # 0)
  <1>1. IsFiniteSet(spent) /\ Cardinality(spent) = uses /\ changes \in Nat
    BY DEF RowsSound, CodesSound
  <1>2. spent' = spent \cup {code} /\ uses' = uses + 1
    BY DEF Spend
  <1>3. IsFiniteSet(spent') /\ Cardinality(spent') = Cardinality(spent) + 1
    BY <1>1, <1>2, FS_AddElement
  <1>4. \A c \in spent : c.id[1] \in 0..changes' /\ (c.kind = "recovery" \/ c.id[1] # 0)
    BY <1>1 DEF CodesSound
  <1>5. QED
    BY <1>1, <1>2, <1>3, <1>4

\* What each step does to the rows and the codes.
LEMMA NextKeepsRows == ASSUME IInv, [Next]_vars PROVE RowsSound' /\ CodesSound'
  <1> USE DEF durable, bounds, history, security
  <1>0. RowsSound /\ CodesSound
    BY DEF IInv
  <1> DEFINE Rows == [enabled : BOOLEAN, role : Role, kind : {"password", "bootstrap"}, version : Nat]
             Factors == [gen : Nat, last : Nat, recovery : SUBSET (Nat \X Nat)]
  <1>1. ASSUME Quiet PROVE RowsSound' /\ CodesSound'
    BY <1>0, <1>1 DEF Quiet, RowsSound, CodesSound
  <1>2. ASSUME NEW l \in Login, SignIn(l), ~CompleteChallenge(l) PROVE Quiet
    BY <1>2 DEF SignIn, PrimaryStarted, VerifyPassword, PasswordAuthenticated, FactorStatus, Issue,
       ResolveRead, ResolveRecheck, ValidatePrimaryProof, ValidateFactor, LoginAnswer, ChallengeIssue,
       IssuedAnswer, StartFlow, CallbackProvider, CallbackLink, CallbackSnapshot, CallbackPrimary,
       Federated, CompleteFlow, Quiet
  <1>3. ASSUME RevokeUser \/ InvalidateUser \/ Lapse \/ Restart PROVE Quiet
    BY <1>3 DEF RevokeUser, InvalidateUser, Lapse, Restart, Quiet
  <1>4. ASSUME \/ \E l \in Login : RequestBegin(l)
               \/ RequestRead \/ RequestRecheck \/ RequestAuthority \/ Logout \/ RequestEnds
               \/ Enroll \/ AdminRevoke
        PROVE  Quiet
    BY <1>4 DEF RequestBegin, RequestRead, RequestRecheck, RequestAuthority, Logout, RequestEnds,
       Enroll, AdminRevoke, Quiet
  \* The rows of the account, the provider, the link and the clock.
  <1>5. ASSUME /\ changes' = Fresh /\ UNCHANGED <<factor, spent, uses>>
               /\ account' \in Rows /\ provider' \in [enabled : BOOLEAN, revision : Nat \ {0}]
               /\ link' \in Nat /\ step' \in Nat
        PROVE  RowsSound' /\ CodesSound'
    <2>1. changes \in Nat /\ changes' = changes + 1
      BY <1>0, <1>5 DEF RowsSound, Fresh
    <2>2. RowsSound'
      BY <1>0, <1>5, <2>1 DEF RowsSound
    <2>3. \A n \in 0..changes : n \in 0..changes'
      BY <2>1
    <2>4. CodesSound'
      BY <1>0, <1>5, <2>3 DEF CodesSound
    <2>5. QED
      BY <2>2, <2>4
  <1>6. ASSUME \/ AdminWrite \/ UpdateUser \/ AssignRole \/ ActivateBootstrap \/ ConfigureProvider
               \/ LinkUser \/ UnlinkUser \/ OtherRevoked \/ ClockMoves
        PROVE  RowsSound' /\ CodesSound'
    <2>0. Fresh \in Nat \ {0} /\ MaxStep \in Nat
      BY <1>0, BoundsAssumption DEF RowsSound, Fresh
    <2>1. changes' = Fresh /\ UNCHANGED <<factor, spent, uses>>
      BY <1>6 DEF AdminWrite, UpdateUser, AssignRole, ActivateBootstrap, ConfigureProvider, LinkUser,
         UnlinkUser, OtherRevoked, ClockMoves, Turn, Change
    <2>2. account' \in Rows
      <3>1. \/ account' = account \/ account' = Reset \/ Updated
            \/ \E r \in Role : account' = [account EXCEPT !.role = r]
            \/ account' = [account EXCEPT !.kind = "password", !.version = Fresh]
        BY <1>6 DEF AdminWrite, UpdateUser, AssignRole, ActivateBootstrap, ConfigureProvider, LinkUser,
           UnlinkUser, OtherRevoked, ClockMoves
      <3>2. QED
        BY <1>0, <3>1, AccountsSound DEF RowsSound
    <2>3. provider' \in [enabled : BOOLEAN, revision : Nat \ {0}]
      <3>1. provider' = provider \/ \E on \in BOOLEAN : provider' = [enabled |-> on, revision |-> Fresh]
        BY <1>6 DEF AdminWrite, UpdateUser, AssignRole, ActivateBootstrap, ConfigureProvider, LinkUser,
           UnlinkUser, OtherRevoked, ClockMoves
      <3>2. QED
        BY <1>0, <2>0, <3>1 DEF RowsSound
    <2>4. link' \in Nat /\ step' \in Nat
      BY <1>0, <1>6, <2>0 DEF AdminWrite, UpdateUser, AssignRole, ActivateBootstrap, ConfigureProvider,
         LinkUser, UnlinkUser, OtherRevoked, ClockMoves, Turn, RowsSound
    <2>5. QED
      BY <1>5, <2>1, <2>2, <2>3, <2>4
  \* The factor.
  <1>7. ASSUME NEW l \in Login, CompleteChallenge(l) PROVE RowsSound' /\ CodesSound'
    <2>1. PICK code \in Acceptable : factor' = Consumed(code) /\ Spend(code)
      BY <1>7 DEF CompleteChallenge
    <2>2. factor.gen # 0 /\ UNCHANGED <<account, provider, link, step, changes>>
      BY <1>7 DEF CompleteChallenge
    <2>3. /\ code \notin spent /\ code.id[1] \in 0..changes /\ (code.kind = "recovery" \/ code.id[1] # 0)
          /\ factor' \in Factors /\ factor'.gen = factor.gen
          /\ factor'.recovery \subseteq factor.recovery
          /\ [kind |-> "recovery", id |-> code.id] = code => code.id \notin factor'.recovery
          /\ factor.last <= factor'.last
          /\ \A v \in Nat : code = [kind |-> "totp", id |-> <<factor.gen, v>>] => v <= factor'.last
      BY <1>0, <2>1, <2>2, AcceptableSound
    <2>4. /\ IsFiniteSet(spent') /\ Cardinality(spent') = uses' /\ spent' = spent \cup {code}
          /\ \A c \in spent' : c.id[1] \in 0..changes' /\ (c.kind = "recovery" \/ c.id[1] # 0)
      BY <1>0, <2>1, <2>2, <2>3, SpendSound
    <2>5. RowsSound'
      BY <1>0, <2>2, <2>3 DEF RowsSound
    <2>6. \A c \in factor'.recovery : c[1] \in 0..changes' /\ [kind |-> "recovery", id |-> c] \notin spent'
      <3>1. SUFFICES ASSUME NEW c \in factor'.recovery
                     PROVE  c[1] \in 0..changes' /\ [kind |-> "recovery", id |-> c] \notin spent'
        OBVIOUS
      <3> DEFINE r == [kind |-> "recovery", id |-> c]
      <3>2. c \in factor.recovery
        BY <2>3
      <3>3. c[1] \in 0..changes /\ r \notin spent
        BY <1>0, <3>2 DEF CodesSound
      <3>4. ASSUME r = code PROVE FALSE
        <4>1. code.id = c
          BY <3>4
        <4>2. QED
          BY <2>3, <3>4, <4>1
      <3> HIDE DEF r
      <3>5. QED
        BY <2>2, <2>4, <3>3, <3>4 DEF r
    <2>7. \A v \in Nat : [kind |-> "totp", id |-> <<factor'.gen, v>>] \in spent' => v <= factor'.last
      <3>1. \A a, b, c \in Nat : a <= b /\ b <= c => a <= c
        OBVIOUS
      <3>2. factor.last \in Nat /\ factor'.last \in Nat
        BY <1>0, <2>3 DEF RowsSound
      <3>3. QED
        BY <1>0, <2>3, <2>4, <3>1, <3>2 DEF CodesSound
    <2>8. factor'.gen \in 0..changes'
      BY <1>0, <2>2, <2>3 DEF CodesSound
    <2>9. CodesSound'
      BY <2>4, <2>6, <2>7, <2>8 DEF CodesSound
    <2>10. QED
      BY <2>5, <2>9
  <1>8. ASSUME Confirm \/ Disable \/ ReplaceRecovery PROVE RowsSound' /\ CodesSound'
    <2>0. /\ changes \in Nat \ {0} /\ changes' = Fresh /\ Fresh = changes + 1
          /\ UNCHANGED <<account, provider, link, step>>
      BY <1>0, <1>8 DEF Confirm, Disable, ReplaceRecovery, Change, RowsSound, Fresh
    <2>1. RecoverySet(Fresh) \subseteq Nat \X Nat /\ \A c \in RecoverySet(Fresh) : c[1] = Fresh
      BY <2>0, RecoverySetSound
    <2>2. \A n \in 0..changes : n # Fresh /\ n \in 0..changes'
      BY <2>0
    <2>3. \A c : c \in spent => c.id[1] # Fresh
      BY <1>0, <2>2 DEF CodesSound
    <2>4. ASSUME NEW code, code \notin spent, Spend(code), code.id[1] \in 0..changes',
                 code.kind = "recovery" \/ code.id[1] # 0,
                 code.kind = "recovery" => code.id[1] # Fresh, factor' \in Factors,
                 factor'.gen \in 0..changes',
                 factor'.recovery \subseteq RecoverySet(Fresh),
                 \A v \in Nat : [kind |-> "totp", id |-> <<factor'.gen, v>>] \in spent \cup {code}
                                  => v <= factor'.last
          PROVE  RowsSound' /\ CodesSound'
      <3>1. /\ IsFiniteSet(spent') /\ Cardinality(spent') = uses' /\ spent' = spent \cup {code}
            /\ \A c \in spent' : c.id[1] \in 0..changes' /\ (c.kind = "recovery" \/ c.id[1] # 0)
        BY <1>0, <2>0, <2>4, SpendSound
      <3>2. RowsSound'
        BY <1>0, <2>0, <2>4 DEF RowsSound
      <3>3. \A c \in factor'.recovery : c[1] \in 0..changes' /\ [kind |-> "recovery", id |-> c] \notin spent'
        <4>1. SUFFICES ASSUME NEW c \in factor'.recovery
                       PROVE  c[1] \in 0..changes' /\ [kind |-> "recovery", id |-> c] \notin spent'
          OBVIOUS
        <4>2. c[1] = Fresh
          BY <2>1, <2>4
        <4> DEFINE r == [kind |-> "recovery", id |-> c]
        <4>3. r.kind = "recovery" /\ r.id[1] = Fresh
          BY <4>2
        <4> HIDE DEF r
        <4>4. r \notin spent /\ r # code
          BY <2>3, <2>4, <4>3
        <4>5. QED
          BY <2>0, <3>1, <4>2, <4>4 DEF r
      <3>4. CodesSound'
        BY <2>4, <3>1, <3>3 DEF CodesSound
      <3>5. QED
        BY <3>2, <3>4
    <2>5. CASE Confirm
      <3>1. PICK v \in Window : /\ factor' = [gen |-> Fresh, last |-> v, recovery |-> RecoverySet(Fresh)]
                                /\ Spend([kind |-> "totp", id |-> <<Fresh, v>>])
        BY <2>5 DEF Confirm
      <3> DEFINE code == [kind |-> "totp", id |-> <<Fresh, v>>]
      <3>2. v \in Nat
        BY <1>0 DEF Window, RowsSound
      <3>3. code.id[1] = Fresh /\ code.kind = "totp"
        OBVIOUS
      <3>4. factor' \in Factors /\ factor'.gen = Fresh /\ factor'.recovery = RecoverySet(Fresh)
            /\ factor'.last = v
        BY <2>0, <2>1, <3>1, <3>2
      <3>5. \A w \in Nat : [kind |-> "totp", id |-> <<Fresh, w>>] \in spent \cup {code} => w = v
        <4>1. SUFFICES ASSUME NEW w \in Nat, [kind |-> "totp", id |-> <<Fresh, w>>] \in spent \cup {code}
                       PROVE  w = v
          OBVIOUS
        <4>2. [kind |-> "totp", id |-> <<Fresh, w>>] \notin spent
          <5>1. [kind |-> "totp", id |-> <<Fresh, w>>].id[1] = Fresh
            OBVIOUS
          <5>2. QED
            BY <2>3, <5>1
        <4>3. [kind |-> "totp", id |-> <<Fresh, w>>].id[2] = code.id[2]
          BY <4>1, <4>2
        <4>4. QED
          BY <4>3
      <3>6. \A w \in Nat : [kind |-> "totp", id |-> <<factor'.gen, w>>] \in spent \cup {code}
                             => w <= factor'.last
        BY <3>2, <3>4, <3>5
      <3>7. Spend(code) /\ code \notin spent
        BY <2>3, <3>1, <3>3
      <3> HIDE DEF code
      <3>8. QED
        BY <2>0, <2>4, <3>3, <3>4, <3>6, <3>7
    <2>6. CASE Disable
      <3>1. PICK code \in Acceptable : Spend(code)
        BY <2>6 DEF Disable
      <3>2. factor' = NoFactor /\ factor.gen # 0
        BY <2>6 DEF Disable
      <3>3. /\ code \notin spent /\ code.id[1] \in 0..changes
            /\ code.kind = "recovery" \/ code.id[1] # 0
        BY <1>0, <3>2, AcceptableSound
      <3>4. factor' \in Factors /\ factor'.gen = 0 /\ factor'.recovery = {} /\ factor'.last = 0
        BY <3>2 DEF NoFactor
      <3>5. \A w \in Nat : [kind |-> "totp", id |-> <<0, w>>] \notin spent \cup {code}
        <4>1. SUFFICES ASSUME NEW w \in Nat, NEW c, c = [kind |-> "totp", id |-> <<0, w>>]
                       PROVE  c \notin spent \cup {code}
          OBVIOUS
        <4>2. c.kind = "totp" /\ c.id[1] = 0
          BY <4>1
        <4>3. QED
          BY <1>0, <3>3, <4>2 DEF CodesSound
      <3>6. QED
        BY <2>0, <2>2, <2>4, <3>1, <3>3, <3>4, <3>5
    <2>7. CASE ReplaceRecovery
      <3>1. PICK code \in Acceptable : /\ factor' = [Consumed(code) EXCEPT !.recovery = RecoverySet(Fresh)]
                                       /\ Spend(code)
        BY <2>7 DEF ReplaceRecovery
      <3>2. factor.gen # 0
        BY <2>7 DEF ReplaceRecovery
      <3>3. /\ code \notin spent /\ code.id[1] \in 0..changes
            /\ code.kind = "recovery" \/ code.id[1] # 0
            /\ Consumed(code) \in Factors /\ Consumed(code).gen = factor.gen
            /\ factor.last <= Consumed(code).last
            /\ \A v \in Nat : code = [kind |-> "totp", id |-> <<factor.gen, v>>]
                                => v <= Consumed(code).last
        BY <1>0, <3>2, AcceptableSound
      <3>4. /\ factor' \in Factors /\ factor'.gen = factor.gen /\ factor'.last = Consumed(code).last
            /\ factor'.recovery = RecoverySet(Fresh)
        BY <2>1, <3>1, <3>3
      <3>5. \A v \in Nat : [kind |-> "totp", id |-> <<factor'.gen, v>>] \in spent \cup {code}
                             => v <= factor'.last
        <4>1. \A a, b, c \in Nat : a <= b /\ b <= c => a <= c
          OBVIOUS
        <4>2. factor.last \in Nat /\ Consumed(code).last \in Nat
          BY <1>0, <3>3 DEF RowsSound
        <4>3. QED
          BY <1>0, <3>3, <3>4, <4>1, <4>2 DEF CodesSound
      <3>6. factor'.gen \in 0..changes
        BY <1>0, <3>4 DEF CodesSound
      <3>7. QED
        BY <2>0, <2>2, <2>4, <3>1, <3>3, <3>4, <3>5, <3>6
    <2>8. QED
      BY <1>8, <2>5, <2>6, <2>7
  <1>9. CASE Client \/ Administration
    BY <1>1, <1>4, <1>6, <1>8, <1>9 DEF Client, Administration
  <1>10. CASE UNCHANGED vars
    BY <1>1, <1>10 DEF vars, Quiet
  <1>11. QED
    BY <1>1, <1>2, <1>3, <1>6, <1>7, <1>9, <1>10 DEF Next

-----------------------------------------------------------------------------
(* The tables of sessions, challenges and enrolments.                      *)

\* Issuing and forgetting keep the two tables of the manager together.
LEMMA IssueSound ==
  ASSUME TablesSound, NEW l \in Login, IssueTo(l)
  PROVE  sessions' = {l} /\ current' = l /\ lapsed' = {}
  BY NoneAssumption DEF TablesSound, IssueTo

LEMMA ForgetSound ==
  ASSUME TablesSound, NEW l, Forget(l)
  PROVE  /\ current' \in {None, current} /\ sessions' = {current'} \ {None} /\ lapsed' \subseteq sessions'
         /\ sessions' \subseteq sessions
         /\ l \in sessions => sessions' = {}
         /\ l = current => sessions' = {}
  BY NoneAssumption DEF TablesSound, Forget

\* What may happen to the sessions in a step that does not issue one.
Shrinks ==
  /\ current' \in {None, current} /\ sessions' = {current'} \ {None} /\ lapsed' \subseteq sessions'
  /\ sessions' \subseteq sessions

LEMMA ManagerShrinks ==
  ASSUME TablesSound, NEW l, NEW a,
         UNCHANGED manager \/ Forget(l) \/ ResolveEnds(l, a)
  PROVE  Shrinks
  <1>1. CASE UNCHANGED manager
    BY <1>1 DEF manager, Shrinks, TablesSound
  <1>2. CASE Forget(l)
    BY <1>2, ForgetSound DEF Shrinks
  <1>3. QED
    BY <1>1, <1>2 DEF ResolveEnds

\* Revoking a session that is there leaves none, and the listeners are told.
LEMMA RevokeSound ==
  ASSUME TablesSound, NEW l, Revoke(l)
  PROVE  /\ Shrinks /\ loop' \in {"free", "notify"}
         /\ loop' = "notify" => sessions' = {}
  BY ForgetSound DEF Revoke, Shrinks

LEMMA NextKeepsTables == ASSUME IInv, [Next]_vars PROVE TablesSound'
  <1> USE DEF manager, security
  <1>0. TablesSound /\ RowsSound /\ LoginsSound
    BY DEF IInv
  <1>1. ASSUME \/ Shrinks
               \/ \E l \in Login : IssueTo(l) /\ loop' # "notify",
               UNCHANGED <<epoch, revision>>,
               \/ UNCHANGED challenges \/ challenges' = {} \/ \E l \in Login : challenges' = {l}
               \/ \E l \in Login : challenges' = challenges \ {l},
               UNCHANGED enrollment \/ \E p : enrollment' \subseteq {p},
               mutating' \in BOOLEAN, loop' \in {"free", "pop", "notify", "completing"},
               loop' = "notify" => loop = "notify" \/ sessions' = {}
        PROVE  TablesSound'
    <2>1. /\ current' \in {None} \cup Login /\ sessions' = {current'} \ {None}
          /\ lapsed' \subseteq sessions'
          /\ loop' = "notify" => sessions' = {}
      <3>1. CASE Shrinks
        BY <1>0, <1>1, <3>1 DEF TablesSound, Shrinks
      <3>2. CASE \E l \in Login : IssueTo(l) /\ loop' # "notify"
        BY <1>0, <3>2, IssueSound, NoneAssumption
      <3>3. QED
        BY <1>1, <3>1, <3>2
    <2>2. challenges' \subseteq Login /\ \A x, y \in challenges' : x = y
      BY <1>0, <1>1 DEF TablesSound
    <2>3. \A x, y \in enrollment' : x = y
      BY <1>0, <1>1 DEF TablesSound
    <2>4. epoch' \in Nat /\ revision' \in Nat /\ epoch' <= revision'
      BY <1>0, <1>1 DEF TablesSound
    <2>5. QED
      BY <1>1, <2>1, <2>2, <2>3, <2>4 DEF TablesSound
  <1>2. ASSUME UNCHANGED manager PROVE Shrinks
    BY <1>0, <1>2, ManagerShrinks
  <1>3. mutating \in BOOLEAN /\ loop \in {"free", "pop", "notify", "completing"}
    BY <1>0 DEF TablesSound
  <1>4. ASSUME UNCHANGED <<manager, security, mutating, loop>> PROVE TablesSound'
    BY <1>1, <1>2, <1>3, <1>4
  <1>5. ASSUME NEW l \in Login, SignIn(l) PROVE TablesSound'
    <2>1. CASE \/ PrimaryStarted(l) \/ VerifyPassword(l) \/ PasswordAuthenticated(l) \/ ResolveRead(l)
               \/ ValidatePrimaryProof(l) \/ ValidateFactor(l) \/ StartFlow(l) \/ CallbackProvider(l)
               \/ CallbackLink(l) \/ CallbackSnapshot(l) \/ CallbackPrimary(l)
      BY <1>4, <2>1 DEF PrimaryStarted, VerifyPassword, PasswordAuthenticated, ResolveRead,
         ValidatePrimaryProof, ValidateFactor, StartFlow, CallbackProvider, CallbackLink,
         CallbackSnapshot, CallbackPrimary, Federated
    <2>2. CASE FactorStatus(l)
      <3>1. /\ UNCHANGED <<manager, epoch, revision, enrollment, mutating, loop>>
            /\ UNCHANGED challenges \/ challenges' = {l}
        BY <2>2 DEF FactorStatus, Challenged
      <3>2. QED
        BY <1>1, <1>2, <1>3, <3>1
    <2>3. CASE Issue(l)
      <3>1. IssueTo(l) /\ loop = "free" /\ UNCHANGED <<security, mutating, loop>>
        BY <2>3 DEF Issue, LoopFree
      <3>2. QED
        BY <1>1, <1>3, <3>1
    <2>4. CASE ResolveRecheck(l)
      <3>1. ResolveEnds(l, proof[l].current) /\ UNCHANGED <<security, mutating, loop>> /\ loop = "free"
        BY <2>4 DEF ResolveRecheck, LoopFree
      <3>2. Shrinks
        BY <1>0, <3>1, ManagerShrinks
      <3>3. QED
        BY <1>1, <1>3, <3>1, <3>2
    <2>5. CASE LoginAnswer(l) \/ IssuedAnswer(l)
      <3>1. /\ UNCHANGED <<security, mutating>> /\ loop = "free"
            /\ \/ UNCHANGED <<manager, loop>> \/ Revoke(l)
               \/ ResolveEnds(l, proof[l].current) /\ UNCHANGED loop
        BY <2>5 DEF LoginAnswer, IssuedAnswer, LoopFree
      <3>2. CASE Revoke(l)
        BY <1>0, <1>1, <1>3, <3>1, <3>2, RevokeSound
      <3>3. CASE (UNCHANGED manager \/ ResolveEnds(l, proof[l].current)) /\ UNCHANGED loop
        <4>1. Shrinks
          BY <1>0, <3>3, ManagerShrinks
        <4>2. QED
          BY <1>1, <1>3, <3>1, <3>3, <4>1
      <3>4. QED
        BY <3>1, <3>2, <3>3
    <2>6. CASE CompleteChallenge(l)
      <3>1. /\ UNCHANGED <<manager, epoch, revision, enrollment, mutating>> /\ loop' = "completing"
            /\ challenges' = challenges \ {l}
        BY <2>6 DEF CompleteChallenge
      <3>2. QED
        BY <1>1, <1>2, <1>3, <3>1
    <2>7. CASE ChallengeIssue(l)
      <3>1. /\ UNCHANGED <<security, mutating>> /\ loop' = "free"
            /\ IssueTo(l) \/ UNCHANGED manager
        BY <2>7 DEF ChallengeIssue
      <3>2. QED
        BY <1>1, <1>2, <1>3, <3>1
    <2>8. CASE CompleteFlow(l)
      <3>1. /\ UNCHANGED <<epoch, revision, enrollment, mutating, loop>> /\ loop = "free"
            /\ IssueTo(l) \/ UNCHANGED manager
            /\ UNCHANGED challenges \/ challenges' = {l}
        BY <2>8 DEF CompleteFlow, LoopFree, Challenged
      <3>2. QED
        BY <1>1, <1>2, <1>3, <3>1
    <2>9. QED
      BY <1>5, <2>1, <2>2, <2>3, <2>4, <2>5, <2>6, <2>7, <2>8 DEF SignIn
  <1>6. CASE RevokeUser \/ AdminRevoke
    <2>1. Forget(current) /\ UNCHANGED security /\ loop' = "notify" /\ mutating' \in {mutating, FALSE}
      BY <1>6 DEF RevokeUser, AdminRevoke
    <2>2. Shrinks /\ sessions' = {}
      BY <1>0, <2>1, ForgetSound DEF Shrinks
    <2>3. mutating' \in BOOLEAN
      BY <1>3, <2>1
    <2>4. QED
      BY <1>1, <2>1, <2>2, <2>3
  <1>7. CASE InvalidateUser \/ OtherRevoked
    <2>1. /\ UNCHANGED <<sessions, lapsed, current, mutating>> /\ loop' \in {loop, "free"}
          /\ revision' = revision + 1 /\ epoch' \in {epoch, revision + 1}
          /\ challenges' \in {challenges, {}} /\ enrollment' \in {enrollment, {}}
      BY <1>7 DEF InvalidateUser, OtherRevoked
    <2>2. epoch' \in Nat /\ revision' \in Nat /\ epoch' <= revision'
      BY <1>0, <2>1 DEF TablesSound
    <2>3. QED
      BY <1>0, <2>1, <2>2 DEF TablesSound
  <1>8. CASE Lapse
    <2>1. /\ UNCHANGED <<sessions, current, epoch, revision, mutating, loop>>
          /\ lapsed' \subseteq sessions /\ challenges' \in {challenges, {}}
          /\ enrollment' \in {enrollment, {}}
      BY <1>0, <1>8 DEF Lapse, TablesSound
    <2>2. QED
      BY <1>0, <2>1 DEF TablesSound
  <1>9. CASE Restart
    <2>1. /\ sessions' = {} /\ lapsed' = {} /\ current' = None /\ epoch' = 0 /\ revision' = 0
          /\ challenges' = {} /\ enrollment' = {} /\ loop' = "free"
      BY <1>9 DEF Restart
    <2>2. mutating' \in BOOLEAN
      BY <1>9, Zenon DEF Restart
    <2>3. QED
      BY <2>1, <2>2 DEF TablesSound
  <1>10. CASE Client
    <2>1. CASE RequestRead \/ RequestAuthority \/ RequestEnds \/ ReplaceRecovery
      BY <1>4, <2>1 DEF RequestRead, RequestAuthority, RequestEnds, ReplaceRecovery, Answered
    <2>2. CASE (\E l \in Login : RequestBegin(l)) \/ RequestRecheck
      <3>1. UNCHANGED <<security, mutating, loop>>
        BY <2>2 DEF RequestBegin, RequestRecheck
      <3>2. Shrinks
        BY <1>0, <2>2, ManagerShrinks DEF RequestBegin, RequestRecheck
      <3>3. QED
        BY <1>1, <1>3, <3>1, <3>2
    <2>3. CASE Logout
      <3>1. Revoke(request.login) /\ UNCHANGED <<security, mutating>>
        BY <2>3 DEF Logout
      <3>2. QED
        BY <1>0, <1>1, <1>3, <3>1, RevokeSound
    <2>4. CASE Enroll \/ Confirm \/ Disable
      <3>1. /\ UNCHANGED <<manager, mutating, epoch, revision, challenges>>
            /\ UNCHANGED enrollment \/ (\E p : enrollment' \subseteq {p})
            /\ loop' \in {loop, "pop"}
        <4>1. CASE Enroll
          BY <4>1 DEF Enroll, Answered
        <4>2. CASE Confirm
          BY <4>2 DEF Confirm, Answered
        <4>3. CASE Disable
          BY <4>3 DEF Disable, Answered
        <4>4. QED
          BY <2>4, <4>1, <4>2, <4>3
      <3>2. QED
        BY <1>1, <1>2, <1>3, <3>1
    <2>5. QED
      BY <1>10, <2>1, <2>2, <2>3, <2>4 DEF Client
  <1>11. CASE \/ AdminWrite \/ UpdateUser \/ AssignRole \/ ActivateBootstrap \/ ConfigureProvider
              \/ LinkUser \/ UnlinkUser
    <2>1. /\ UNCHANGED <<manager, security>> /\ mutating' \in {mutating, TRUE} /\ loop' \in {loop, "pop"}
      BY <1>11 DEF AdminWrite, UpdateUser, AssignRole, ActivateBootstrap, ConfigureProvider, LinkUser,
         UnlinkUser, Turn, LoopFree
    <2>2. mutating' \in BOOLEAN
      BY <1>3, <2>1
    <2>3. QED
      BY <1>1, <1>2, <1>3, <2>1, <2>2
  <1>12. CASE ClockMoves \/ UNCHANGED vars
    BY <1>4, <1>12 DEF ClockMoves, vars
  <1>13. QED
    BY <1>5, <1>6, <1>7, <1>8, <1>9, <1>10, <1>11, <1>12 DEF Next, Administration

-----------------------------------------------------------------------------
(* Sign-ins.                                                               *)

\* What a sign-in has proved stays what it is while one of its parts is filled in.
LEMMA EpochUpdate ==
  ASSUME NEW p \in Proofs, NEW v \in Nat, NEW q, q = [p EXCEPT !.epoch = v]
  PROVE  /\ q \in Proofs /\ q.started = p.started /\ q.gen = p.gen /\ q.provider = p.provider
         /\ q.link = p.link /\ q.epoch = v
  BY DEF Proofs

LEMMA GenUpdate ==
  ASSUME NEW p \in Proofs, NEW v \in Nat, NEW q, q = [p EXCEPT !.gen = v]
  PROVE  /\ q \in Proofs /\ q.started = p.started /\ q.epoch = p.epoch /\ q.provider = p.provider
         /\ q.link = p.link /\ q.gen = v
  BY DEF Proofs

LEMMA ProviderUpdate ==
  ASSUME NEW p \in Proofs, NEW v \in Nat, NEW q, q = [p EXCEPT !.provider = v]
  PROVE  /\ q \in Proofs /\ q.started = p.started /\ q.epoch = p.epoch /\ q.gen = p.gen
         /\ q.link = p.link /\ q.provider = v
  BY DEF Proofs

LEMMA LinkUpdate ==
  ASSUME NEW p \in Proofs, NEW v \in Nat, NEW q, q = [p EXCEPT !.link = v]
  PROVE  /\ q \in Proofs /\ q.started = p.started /\ q.epoch = p.epoch /\ q.gen = p.gen
         /\ q.provider = p.provider /\ q.link = v
  BY DEF Proofs

LEMMA CurrentUpdate ==
  ASSUME NEW p \in Proofs, NEW v \in BOOLEAN, NEW q, q = [p EXCEPT !.current = v]
  PROVE  /\ q \in Proofs /\ q.started = p.started /\ q.epoch = p.epoch /\ q.gen = p.gen
         /\ q.provider = p.provider /\ q.link = p.link
  BY DEF Proofs

LEMMA NoProofSound ==
  /\ NoProof \in Proofs /\ NoProof.gen = 0 /\ NoProof.provider = 0
  /\ \A n \in Nat : LET q == [NoProof EXCEPT !.started = n] IN
       q \in Proofs /\ q.gen = 0 /\ q.provider = 0
  <1>1. FALSE \in BOOLEAN
    OBVIOUS
  <1>2. QED
    BY <1>1 DEF NoProof, Proofs

LEMMA ResolvesBoolean == \A p : Resolves(p) \in BOOLEAN
  BY DEF Resolves

\* One sign-in goes on, the others stay.
LEMMA MoveKeepsLogins ==
  ASSUME LoginsSound, NEW l \in Login, NEW where \in Places, NEW p \in Proofs,
         Goto(l, where), proof' = [proof EXCEPT ![l] = p], Fits(where, p),
         \A m \in challenges' : (m = l /\ where = "challenged") \/ (m # l /\ m \in challenges),
         \/ loop' = loop /\ where # "completing"
         \/ loop # "completing" /\ (where = "completing" => loop' = "completing")
         \/ pc[l] = "completing" /\ where # "completing"
  PROVE  LoginsSound'
  <1>1. /\ pc \in [Login -> Places] /\ proof \in [Login -> Proofs]
        /\ pc' = [pc EXCEPT ![l] = where] /\ pc' \in [Login -> Places] /\ proof' \in [Login -> Proofs]
    BY DEF LoginsSound, Goto
  <1>2. /\ pc'[l] = where /\ proof'[l] = p
        /\ \A m \in Login \ {l} : pc'[m] = pc[m] /\ proof'[m] = proof[m]
    BY <1>1
  <1>3. \A m \in Login : pc'[m] = "completing" => loop' = "completing"
    BY <1>2 DEF LoginsSound, PlaceSound
  <1>4. \A m \in Login : m \in challenges' => pc'[m] = "challenged"
    BY <1>2 DEF LoginsSound, PlaceSound
  <1>5. \A m \in Login : Fits(pc'[m], proof'[m])
    BY <1>2 DEF LoginsSound, PlaceSound
  <1>6. \A m, n \in Login : pc'[m] = "completing" /\ pc'[n] = "completing" => m = n
    BY <1>2 DEF LoginsSound, PlaceSound
  <1>7. \A m \in Login : PlaceSound(m)'
    <2>1. \A m \in Login : Fits(pc[m], proof[m])' <=> Fits(pc'[m], proof'[m])
      BY DEF Fits
    <2>2. QED
      BY <1>3, <1>4, <1>5, <2>1 DEF PlaceSound
  <1>8. QED
    BY <1>1, <1>6, <1>7 DEF LoginsSound

LEMMA StayKeepsLogins ==
  ASSUME LoginsSound, UNCHANGED <<pc, proof>>, challenges' \subseteq challenges,
         loop' = loop \/ loop # "completing"
  PROVE  LoginsSound'
  <1>1. \A m \in Login : PlaceSound(m)'
    BY DEF LoginsSound, PlaceSound, Fits
  <1>2. QED
    BY <1>1 DEF LoginsSound

\* A sign-in that fails has proved nothing.
LEMMA FailFits == NoProof \in Proofs /\ Fits("failed", NoProof)
  BY NoProofSound DEF Fits

LEMMA SignInKeepsLogins == ASSUME IInv, NEW l \in Login, SignIn(l) PROVE LoginsSound'
  <1> USE DEF manager, security, Prove, Fail
  <1>0. /\ LoginsSound /\ RowsSound /\ TablesSound
        /\ pc[l] \in Places /\ proof[l] \in Proofs /\ Fits(pc[l], proof[l])
        /\ proof \in [Login -> Proofs]
        /\ l \in challenges => pc[l] = "challenged"
        /\ pc[l] = "completing" => loop = "completing"
    BY DEF IInv, LoginsSound, PlaceSound
  <1>1. /\ account.role \in Role /\ account.version \in Nat /\ factor.gen \in Nat
        /\ provider.revision \in Nat \ {0} /\ link \in Nat /\ epoch \in Nat /\ revision \in Nat
        /\ challenges \subseteq Login
    BY <1>0 DEF RowsSound, TablesSound
  <1>2. proof = [proof EXCEPT ![l] = proof[l]]
    BY <1>0
  \* A thread or a route moves one sign-in.
  <1>3. ASSUME NEW where \in Places \ {"completing"}, NEW p \in Proofs, Goto(l, where),
               proof' = [proof EXCEPT ![l] = p], Fits(where, p), UNCHANGED loop,
               challenges' = challenges /\ l \notin challenges
        PROVE  LoginsSound'
    BY <1>0, <1>3, MoveKeepsLogins
  <1>4. ASSUME Fail(l), UNCHANGED <<loop, challenges>>, l \notin challenges PROVE LoginsSound'
    BY <1>3, <1>4, FailFits DEF Places
  <1>5. pc[l] # "challenged" => l \notin challenges
    BY <1>0
  <1>20. ASSUME NEW q, q = [proof[l] EXCEPT !.role = account.role, !.version = account.version]
         PROVE  /\ q \in Proofs /\ q.started = proof[l].started /\ q.epoch = proof[l].epoch
                /\ q.gen = proof[l].gen /\ q.provider = proof[l].provider /\ q.link = proof[l].link
    <2>1. PICK w \in Proofs : w = proof[l]
      BY <1>0
    <2>2. PICK r \in Role, v \in Nat : r = account.role /\ v = account.version
      BY <1>1
    <2>3. q = [w EXCEPT !.role = r, !.version = v]
      BY <1>20, <2>1, <2>2
    <2>4. /\ q \in Proofs /\ q.started = w.started /\ q.epoch = w.epoch /\ q.gen = w.gen
          /\ q.provider = w.provider /\ q.link = w.link
      BY <2>3 DEF Proofs
    <2>5. QED
      BY <2>1, <2>4
  <1>6. CASE PrimaryStarted(l)
    <2>1. PICK where \in {"verify", "configuration"} : Prove(l, where, [NoProof EXCEPT !.started = revision])
      BY <1>6 DEF PrimaryStarted
    <2>2. [NoProof EXCEPT !.started = revision] \in Proofs
          /\ Fits(where, [NoProof EXCEPT !.started = revision])
      BY <1>1, <2>1, NoProofSound DEF Fits
    <2>3. pc[l] = "idle" /\ UNCHANGED <<loop, challenges>>
      BY <1>6 DEF PrimaryStarted
    <2>4. QED
      BY <1>3, <1>5, <2>1, <2>2, <2>3 DEF Places
  <1>7. CASE VerifyPassword(l)
    <2>1. pc[l] = "verify" /\ UNCHANGED <<loop, challenges>>
      BY <1>7 DEF VerifyPassword
    <2> DEFINE p == [proof[l] EXCEPT !.role = account.role, !.version = account.version]
    <2>0. /\ p \in Proofs /\ p.started = proof[l].started /\ p.epoch = proof[l].epoch
          /\ p.gen = proof[l].gen /\ p.provider = proof[l].provider /\ p.link = proof[l].link
      BY <1>20
    <2> HIDE DEF p
    <2>2. p \in Proofs /\ Fits("gate", p)
      BY <1>0, <2>0, <2>1 DEF Fits
    <2>3. Prove(l, "gate", p) \/ Fail(l)
      BY <1>7 DEF VerifyPassword, p
    <2>4. QED
      BY <1>3, <1>4, <1>5, <2>1, <2>2, <2>3 DEF Places
  <1>8. CASE PasswordAuthenticated(l)
    <2>1. pc[l] = "gate" /\ UNCHANGED <<loop, challenges>>
      BY <1>8 DEF PasswordAuthenticated
    <2> DEFINE p == [proof[l] EXCEPT !.epoch = epoch]
    <2>0. /\ p \in Proofs /\ p.started = proof[l].started /\ p.epoch = epoch
          /\ p.gen = proof[l].gen /\ p.provider = proof[l].provider /\ p.link = proof[l].link
      BY <1>0, <1>1, EpochUpdate
    <2> HIDE DEF p
    <2>2. p \in Proofs /\ (epoch <= proof[l].started => Fits("status", p))
      BY <1>0, <2>0, <2>1 DEF Fits
    <2>3. (Prove(l, "status", p) /\ epoch <= proof[l].started) \/ Fail(l)
      BY <1>8 DEF PasswordAuthenticated, PrimaryCurrent, p
    <2>4. QED
      BY <1>3, <1>4, <1>5, <2>1, <2>2, <2>3 DEF Places
  \* The factor in force decides: a session, or a challenge.
  <1>9. ASSUME NEW q \in Proofs, Challenged(l, q), q.epoch <= q.started,
               q.provider # 0 => q.link # 0, UNCHANGED loop
        PROVE  LoginsSound'
    <2> DEFINE p == [q EXCEPT !.gen = factor.gen]
    <2>0. /\ p \in Proofs /\ p.started = q.started /\ p.epoch = q.epoch
          /\ p.provider = q.provider /\ p.link = q.link
      BY <1>1, GenUpdate
    <2>1. p \in Proofs /\ Fits("challenged", p)
      BY <1>9, <2>0 DEF Fits
    <2>2. Goto(l, "challenged") /\ proof' = [proof EXCEPT ![l] = p] /\ challenges' = {l}
      BY <1>9 DEF Challenged
    <2> HIDE DEF p
    <2>3. QED
      BY <1>0, <1>9, <2>1, <2>2, MoveKeepsLogins DEF Places
  <1>10. CASE FactorStatus(l)
    <2>1. pc[l] = "status" /\ UNCHANGED loop
      BY <1>10 DEF FactorStatus
    <2>2. proof[l].epoch <= proof[l].started /\ (proof[l].provider # 0 => proof[l].link # 0)
          /\ Fits("issue", proof[l])
      BY <1>0, <2>1 DEF Fits
    <2>3. CASE Goto(l, "issue") /\ UNCHANGED <<proof, challenges>>
      BY <1>0, <1>2, <1>3, <1>5, <2>1, <2>2, <2>3 DEF Places
    <2>4. CASE Challenged(l, proof[l])
      BY <1>0, <1>9, <2>1, <2>2, <2>4
    <2>5. QED
      BY <1>10, <2>3, <2>4 DEF FactorStatus
  <1>11. CASE Issue(l) \/ ValidatePrimaryProof(l) \/ ValidateFactor(l)
    <2>1. /\ UNCHANGED <<proof, challenges, loop>>
          /\ \/ pc[l] = "issue" /\ Goto(l, "read")
             \/ pc[l] = "validate" /\ (Goto(l, "factor") \/ Goto(l, "reject"))
             \/ pc[l] = "factor" /\ (Goto(l, "accept") \/ Goto(l, "reject"))
      BY <1>11 DEF Issue, ValidatePrimaryProof, ValidateFactor
    <2>2. PICK where \in {"read", "factor", "reject", "accept"} :
            Goto(l, where) /\ Fits(where, proof[l]) /\ pc[l] # "challenged"
      BY <1>0, <2>1 DEF Fits
    <2>3. QED
      BY <1>0, <1>2, <1>3, <1>5, <2>1, <2>2 DEF Places
  <1>12. CASE ResolveRead(l) \/ ResolveRecheck(l)
    <2>1. PICK where \in {"recheck", "mfa_answer", "sso_answer", "validate"}, c \in BOOLEAN :
            /\ Goto(l, where) /\ proof' = [proof EXCEPT ![l] = [proof[l] EXCEPT !.current = c]]
            /\ \/ pc[l] = "read" /\ where = "recheck"
               \/ pc[l] = "mfa_read" /\ where = "mfa_answer"
               \/ pc[l] = "sso_read" /\ where = "sso_answer"
               \/ pc[l] = "recheck" /\ where = "validate"
      <3>1. CASE ResolveRead(l)
        <4>1. PICK w \in {<<"read", "recheck">>, <<"mfa_read", "mfa_answer">>, <<"sso_read", "sso_answer">>} :
                /\ pc[l] = w[1]
                /\ Prove(l, w[2], [proof[l] EXCEPT !.current = Resolves(proof[l])])
          BY <3>1 DEF ResolveRead
        <4>2. Resolves(proof[l]) \in BOOLEAN
          BY ResolvesBoolean
        <4>3. \/ pc[l] = "read" /\ Goto(l, "recheck")
              \/ pc[l] = "mfa_read" /\ Goto(l, "mfa_answer")
              \/ pc[l] = "sso_read" /\ Goto(l, "sso_answer")
          BY <4>1
        <4>4. PICK c \in BOOLEAN : c = Resolves(proof[l])
          BY <4>2
        <4>5. proof' = [proof EXCEPT ![l] = [proof[l] EXCEPT !.current = c]]
          BY <4>1, <4>4
        <4>6. QED
          BY <4>3, <4>5 DEF Goto
      <3>2. CASE ResolveRecheck(l)
        <4>1. Resolved(l, proof[l].current) \in BOOLEAN
          BY DEF Resolved
        <4>2. QED
          BY <3>2, <4>1 DEF ResolveRecheck
      <3>3. QED
        BY <1>12, <3>1, <3>2
    <2> DEFINE p == [proof[l] EXCEPT !.current = c]
    <2>2. p \in Proofs /\ Fits(where, p)
      <3>1. /\ p \in Proofs /\ p.started = proof[l].started /\ p.epoch = proof[l].epoch
            /\ p.gen = proof[l].gen /\ p.provider = proof[l].provider /\ p.link = proof[l].link
        BY <1>0, CurrentUpdate
      <3> HIDE DEF p
      <3>2. QED
        BY <1>0, <2>1, <3>1 DEF Fits
    <2>3. UNCHANGED <<challenges, loop>> /\ proof' = [proof EXCEPT ![l] = p] /\ pc[l] # "challenged"
      BY <1>12, <2>1 DEF ResolveRead, ResolveRecheck
    <2> HIDE DEF p
    <2>4. QED
      BY <1>3, <1>5, <2>1, <2>2, <2>3 DEF Places
  <1>13. CASE LoginAnswer(l) \/ IssuedAnswer(l)
    <2>1. /\ pc[l] \in {"accept", "reject", "mfa_answer", "sso_answer"} /\ loop = "free"
          /\ UNCHANGED challenges
          /\ \/ Goto(l, "done") /\ UNCHANGED proof /\ pc[l] # "reject"
             \/ Fail(l)
      BY <1>13 DEF LoginAnswer, IssuedAnswer, LoopFree
    <2>2. CASE Fail(l)
      <3>1. \A m \in challenges' : m # l /\ m \in challenges
        BY <1>5, <2>1
      <3>2. Goto(l, "failed") /\ proof' = [proof EXCEPT ![l] = NoProof]
        BY <2>2
      <3>3. QED
        BY <1>0, <2>1, <3>1, <3>2, FailFits, MoveKeepsLogins DEF Places
    <2>3. CASE Goto(l, "done") /\ UNCHANGED proof /\ pc[l] # "reject"
      <3>1. Fits("done", proof[l])
        BY <1>0, <2>1, <2>3 DEF Fits
      <3>2. QED
        BY <1>0, <1>2, <1>5, <2>1, <2>3, <3>1, MoveKeepsLogins DEF Places
    <2>4. QED
      BY <2>1, <2>2, <2>3
  <1>14. CASE CompleteChallenge(l)
    <2>1. /\ l \in challenges /\ Goto(l, "completing") /\ loop' = "completing" /\ loop = "free"
          /\ challenges' = challenges \ {l} /\ UNCHANGED proof
      BY <1>14 DEF CompleteChallenge, LoopFree
    <2>2. Fits("completing", proof[l])
      BY <1>0, <2>1 DEF Fits
    <2>3. QED
      BY <1>0, <1>2, <2>1, <2>2, MoveKeepsLogins DEF Places
  <1>15. CASE ChallengeIssue(l)
    <2>1. /\ pc[l] = "completing" /\ UNCHANGED challenges
          /\ (Goto(l, "mfa_read") /\ UNCHANGED proof) \/ Fail(l)
      BY <1>15 DEF ChallengeIssue
    <2>2. Fits("mfa_read", proof[l])
      BY <1>0, <2>1 DEF Fits
    <2>3. QED
      BY <1>0, <1>2, <1>5, <2>1, <2>2, FailFits, MoveKeepsLogins DEF Places
  \* A federated sign-in.
  <1>16. CASE \/ StartFlow(l) \/ CallbackProvider(l) \/ CallbackLink(l) \/ CallbackSnapshot(l)
              \/ CallbackPrimary(l)
    <2>1. UNCHANGED <<challenges, loop>>
      BY <1>16 DEF StartFlow, CallbackProvider, CallbackLink, CallbackSnapshot, CallbackPrimary, Federated
    <2>2. ASSUME NEW where \in {"flow", "link", "snapshot", "primary", "completion"}, NEW p \in Proofs,
                 Prove(l, where, p) \/ Fail(l), Prove(l, where, p) => Fits(where, p), l \notin challenges
          PROVE  LoginsSound'
      BY <1>3, <1>4, <2>1, <2>2 DEF Places
    <2>3. CASE StartFlow(l)
      <3> DEFINE p == [proof[l] EXCEPT !.provider = provider.revision]
      <3>1. pc[l] = "configuration" /\ (Prove(l, "flow", p) \/ Fail(l))
        BY <2>3 DEF StartFlow, Federated
      <3>0. /\ p \in Proofs /\ p.started = proof[l].started /\ p.epoch = proof[l].epoch
            /\ p.gen = proof[l].gen /\ p.provider = provider.revision /\ p.link = proof[l].link
        BY <1>0, <1>1, ProviderUpdate
      <3>2. p \in Proofs /\ Fits("flow", p)
        BY <1>0, <1>1, <3>0, <3>1 DEF Fits
      <3> HIDE DEF p
      <3>3. QED
        BY <1>5, <2>2, <3>1, <3>2
    <2>4. CASE CallbackProvider(l)
      <3>1. pc[l] = "flow" /\ (Prove(l, "link", proof[l]) \/ Fail(l))
        BY <2>4 DEF CallbackProvider, Federated
      <3>2. Fits("link", proof[l])
        BY <1>0, <3>1 DEF Fits
      <3>3. QED
        BY <1>0, <1>5, <2>2, <3>1, <3>2
    <2>5. CASE CallbackLink(l)
      <3> DEFINE p == [proof[l] EXCEPT !.link = link]
      <3>1. pc[l] = "link" /\ ((Prove(l, "snapshot", p) /\ link # 0) \/ Fail(l))
        BY <2>5 DEF CallbackLink, Federated
      <3>0. /\ p \in Proofs /\ p.started = proof[l].started /\ p.epoch = proof[l].epoch
            /\ p.gen = proof[l].gen /\ p.provider = proof[l].provider /\ p.link = link
        BY <1>0, <1>1, LinkUpdate
      <3>2. p \in Proofs /\ (link # 0 => Fits("snapshot", p))
        BY <1>0, <3>0, <3>1 DEF Fits
      <3> HIDE DEF p
      <3>3. CASE link # 0
        BY <1>5, <2>2, <3>1, <3>2, <3>3
      <3>4. CASE link = 0
        BY <1>4, <1>5, <2>1, <3>1, <3>4
      <3>5. QED
        BY <3>3, <3>4
    <2>6. CASE CallbackSnapshot(l)
      <3> DEFINE p == [proof[l] EXCEPT !.role = account.role, !.version = account.version]
      <3>1. pc[l] = "snapshot" /\ (Prove(l, "primary", p) \/ Fail(l))
        BY <2>6 DEF CallbackSnapshot, Federated
      <3>0. /\ p \in Proofs /\ p.started = proof[l].started /\ p.epoch = proof[l].epoch
            /\ p.gen = proof[l].gen /\ p.provider = proof[l].provider /\ p.link = proof[l].link
        BY <1>20
      <3>2. p \in Proofs /\ Fits("primary", p)
        BY <1>0, <1>1, <3>0, <3>1 DEF Fits
      <3> HIDE DEF p
      <3>3. QED
        BY <1>5, <2>2, <3>1, <3>2
    <2>7. CASE CallbackPrimary(l)
      <3>1. pc[l] = "primary" /\ (Prove(l, "completion", proof[l]) \/ Fail(l))
        BY <2>7 DEF CallbackPrimary, Federated
      <3>2. Fits("completion", proof[l])
        BY <1>0, <3>1 DEF Fits
      <3>3. QED
        BY <1>0, <1>5, <2>2, <3>1, <3>2
    <2>8. QED
      BY <1>16, <2>3, <2>4, <2>5, <2>6, <2>7
  <1>17. CASE CompleteFlow(l)
    <2> DEFINE p == [proof[l] EXCEPT !.epoch = epoch]
    <2>1. pc[l] = "completion" /\ UNCHANGED loop
      BY <1>17 DEF CompleteFlow
    <2>0. /\ p \in Proofs /\ p.started = proof[l].started /\ p.epoch = epoch
          /\ p.gen = proof[l].gen /\ p.provider = proof[l].provider /\ p.link = proof[l].link
      BY <1>0, <1>1, EpochUpdate
    <2>2. /\ p \in Proofs /\ p.epoch = epoch /\ p.started = proof[l].started /\ p.gen = 0
          /\ p.provider = proof[l].provider /\ p.provider # 0 /\ p.link # 0
      BY <1>0, <2>0, <2>1 DEF Fits
    <2>3. \/ Prove(l, "sso_read", p) /\ PrimaryAuthorized(p) /\ UNCHANGED challenges
          \/ Challenged(l, p) /\ PrimaryAuthorized(p)
          \/ Fail(l) /\ UNCHANGED challenges
      BY <1>17 DEF CompleteFlow
    <2> HIDE DEF p
    <2>4. PrimaryAuthorized(p) => p.epoch <= p.started
      BY <2>2 DEF PrimaryAuthorized, PrimaryCurrent
    <2>5. PrimaryAuthorized(p) => Fits("sso_read", p)
      BY <2>2, <2>4 DEF Fits
    <2>6. QED
      BY <1>3, <1>4, <1>5, <1>9, <2>1, <2>2, <2>3, <2>4, <2>5 DEF Places
  <1>18. QED
    BY <1>6, <1>7, <1>8, <1>10, <1>11, <1>12, <1>13, <1>14, <1>15, <1>16, <1>17 DEF SignIn

\* Whatever happens, sign-ins are where they can be.
LEMMA NextKeepsLogins == ASSUME IInv, [Next]_vars PROVE LoginsSound'
  <1> USE DEF security
  <1>0. LoginsSound
    BY DEF IInv
  <1>1. CASE \E l \in Login : SignIn(l)
    BY <1>1, SignInKeepsLogins
  <1>2. ASSUME UNCHANGED <<pc, proof>>, challenges' \subseteq challenges, loop' = loop \/ loop # "completing"
        PROVE  LoginsSound'
    BY <1>0, <1>2, StayKeepsLogins
  <1>3. CASE RevokeUser \/ InvalidateUser
    <2>1. /\ UNCHANGED <<pc, proof>> /\ challenges' \in {challenges, {}} /\ loop # "completing"
      BY <1>3 DEF RevokeUser, InvalidateUser
    <2>2. QED
      BY <1>2, <2>1
  <1>4. CASE Lapse
    <2>1. UNCHANGED <<pc, proof, loop>> /\ challenges' \in {challenges, {}}
      BY <1>4 DEF Lapse
    <2>2. QED
      BY <1>2, <2>1
  <1>5. CASE Client
    <2>1. UNCHANGED <<pc, proof, challenges>> /\ (loop' = loop \/ loop = "free")
      BY <1>5 DEF Client, RequestBegin, RequestRead, RequestRecheck, RequestAuthority, Logout, RequestEnds,
         Enroll, Confirm, Disable, ReplaceRecovery, Answered, FactorRoute, LoopFree
    <2>2. QED
      BY <1>2, <2>1
  <1>6. CASE Administration
    <2>1. UNCHANGED <<pc, proof, challenges>> /\ (loop' = loop \/ loop = "free")
      BY <1>6 DEF Administration, AdminWrite, AdminRevoke, UpdateUser, AssignRole, ActivateBootstrap,
         ConfigureProvider, LinkUser, UnlinkUser, Turn, LoopFree
    <2>2. QED
      BY <1>2, <2>1
  <1>7. CASE OtherRevoked \/ ClockMoves \/ UNCHANGED vars
    <2>1. UNCHANGED <<pc, proof, challenges, loop>>
      BY <1>7 DEF OtherRevoked, ClockMoves, vars
    <2>2. QED
      BY <1>2, <2>1
  <1>8. CASE Restart
    <2>1. /\ pc' = [l \in Login |-> IF pc[l] = "idle" THEN "idle" ELSE "failed"]
          /\ proof' = [l \in Login |-> NoProof] /\ challenges' = {}
      BY <1>8 DEF Restart
    <2>2. \A l \in Login : pc'[l] \in {"idle", "failed"} /\ proof'[l] = NoProof
      BY <2>1
    <2>3. pc' \in [Login -> Places] /\ proof' \in [Login -> Proofs]
      BY <2>1, NoProofSound DEF Places
    <2>4. \A l \in Login : Fits(pc[l], proof[l])'
      BY <2>2, NoProofSound DEF Fits
    <2>5. QED
      BY <2>1, <2>2, <2>3, <2>4 DEF LoginsSound, PlaceSound
  <1>9. QED
    BY <1>1, <1>3, <1>4, <1>5, <1>6, <1>7, <1>8 DEF Next

-----------------------------------------------------------------------------
(* Sessions that clients hold.                                             *)

\* Nothing that a session rests on changes.
LEMMA HeldStays ==
  ASSUME NEW m \in Login, HeldSound(m), m \in sessions' => m \in sessions,
         pc'[m] \in {"factor", "accept", "done"} => pc'[m] = pc[m] /\ proof'[m] = proof[m],
         UNCHANGED <<account, provider, link, epoch>>, factor'.gen = factor.gen,
         loop' # "pop" => loop # "pop", ~mutating' => ~mutating
  PROVE  HeldSound(m)'
  <1>1. SUFFICES ASSUME m \in sessions', loop' # "pop", ~mutating', pc'[m] \in {"factor", "accept", "done"}
                 PROVE  /\ Valid(proof[m])'
                        /\ pc'[m] \in {"accept", "done"} => proof'[m].gen = factor'.gen
    BY DEF HeldSound
  <1>2. pc'[m] = pc[m] /\ proof'[m] = proof[m] /\ m \in sessions /\ loop # "pop" /\ ~mutating
    BY <1>1
  <1>3. Valid(proof[m]) /\ (pc[m] \in {"accept", "done"} => proof[m].gen = factor.gen)
    BY <1>1, <1>2 DEF HeldSound
  <1>4. Valid(proof[m])'
    BY <1>2, <1>3 DEF Valid, Resolves, Active, PrimaryAuthorized, PrimaryCurrent
  <1>5. QED
    BY <1>2, <1>3, <1>4

\* The session is gone, or a change is in hand.
LEMMA HeldExcused ==
  ASSUME NEW m \in Login, m \notin sessions' \/ loop' = "pop" \/ mutating'
  PROVE  HeldSound(m)'
  BY DEF HeldSound

\* A sign-in is validated against what is in force when it is.
LEMMA SignInKeepsHeld == ASSUME IInv, NEW l \in Login, SignIn(l), NEW m \in Login PROVE HeldSound(m)'
  <1> USE DEF manager, security, durable, Prove, Fail
  <1>0. /\ LoginsSound /\ RowsSound /\ TablesSound /\ HeldSound(l) /\ HeldSound(m)
        /\ pc \in [Login -> Places] /\ proof \in [Login -> Proofs] /\ Fits(pc[l], proof[l])
        /\ pc[l] = "completing" => loop = "completing"
    BY DEF IInv, LoginsSound, PlaceSound
  <1>1. UNCHANGED <<account, provider, link, epoch, mutating>>
    BY DEF SignIn, PrimaryStarted, VerifyPassword, PasswordAuthenticated, FactorStatus, Issue, ResolveRead,
       ResolveRecheck, ValidatePrimaryProof, ValidateFactor, LoginAnswer, CompleteChallenge, ChallengeIssue,
       IssuedAnswer, StartFlow, CallbackProvider, CallbackLink, CallbackSnapshot, CallbackPrimary,
       CompleteFlow, Federated
  <1>2. factor'.gen = factor.gen
    <2>1. CASE CompleteChallenge(l)
      <3>1. PICK code \in Acceptable : factor' = Consumed(code)
        BY <2>1 DEF CompleteChallenge
      <3>2. QED
        BY <1>0, <3>1 DEF Consumed, RowsSound
    <2>2. CASE ~CompleteChallenge(l)
      BY <2>2 DEF SignIn, PrimaryStarted, VerifyPassword, PasswordAuthenticated, FactorStatus, Issue,
         ResolveRead, ResolveRecheck, ValidatePrimaryProof, ValidateFactor, LoginAnswer, ChallengeIssue,
         IssuedAnswer, StartFlow, CallbackProvider, CallbackLink, CallbackSnapshot, CallbackPrimary,
         CompleteFlow, Federated
    <2>3. QED
      BY <2>1, <2>2
  <1>3. loop' # "pop" => loop # "pop"
    BY <1>0 DEF SignIn, PrimaryStarted, VerifyPassword, PasswordAuthenticated, FactorStatus, Issue,
       ResolveRead, ResolveRecheck, ValidatePrimaryProof, ValidateFactor, LoginAnswer, CompleteChallenge,
       ChallengeIssue, IssuedAnswer, StartFlow, CallbackProvider, CallbackLink, CallbackSnapshot,
       CallbackPrimary, CompleteFlow, Federated, LoopFree
  <1>4. \A n \in Login \ {l} : pc'[n] = pc[n] /\ proof'[n] = proof[n]
    BY <1>0 DEF SignIn, PrimaryStarted, VerifyPassword, PasswordAuthenticated, FactorStatus, Issue,
       ResolveRead, ResolveRecheck, ValidatePrimaryProof, ValidateFactor, LoginAnswer, CompleteChallenge,
       ChallengeIssue, IssuedAnswer, StartFlow, CallbackProvider, CallbackLink, CallbackSnapshot,
       CallbackPrimary, CompleteFlow, Federated, Goto, Challenged
  <1>5. \/ Shrinks
        \/ sessions' = {l} /\ pc'[l] \in {"read", "mfa_read", "sso_read"}
    <2>1. CASE Issue(l) \/ ChallengeIssue(l) \/ CompleteFlow(l)
      <3>1. UNCHANGED manager \/ (IssueTo(l) /\ pc'[l] \in {"read", "mfa_read", "sso_read"})
        BY <1>0, <2>1 DEF Issue, ChallengeIssue, CompleteFlow, Goto, Challenged
      <3>2. QED
        BY <1>0, <3>1, IssueSound, ManagerShrinks
    <2>2. CASE LoginAnswer(l) \/ IssuedAnswer(l)
      <3>1. UNCHANGED manager \/ Revoke(l) \/ ResolveEnds(l, proof[l].current)
        BY <2>2 DEF LoginAnswer, IssuedAnswer
      <3>2. QED
        BY <1>0, <3>1, RevokeSound, ManagerShrinks
    <2>3. CASE ResolveRecheck(l)
      <3>1. ResolveEnds(l, proof[l].current)
        BY <2>3 DEF ResolveRecheck
      <3>2. QED
        BY <1>0, <3>1, ManagerShrinks
    <2>4. QED
      <3>1. CASE UNCHANGED manager
        BY <1>0, <3>1, ManagerShrinks
      <3>2. QED
        BY <2>1, <2>2, <2>3, <3>1 DEF SignIn, PrimaryStarted, VerifyPassword, PasswordAuthenticated,
           FactorStatus, ResolveRead, ValidatePrimaryProof, ValidateFactor, CompleteChallenge, StartFlow,
           CallbackProvider, CallbackLink, CallbackSnapshot, CallbackPrimary, Federated
  <1>6. CASE m # l
    <2>1. m \in sessions' => m \in sessions
      BY <1>5, <1>6 DEF Shrinks
    <2>2. QED
      BY <1>0, <1>1, <1>2, <1>3, <1>4, <1>6, <2>1, HeldStays
  \* The sign-in itself.
  <1>7. CASE m = l /\ pc'[l] \notin {"factor", "accept", "done"}
    BY <1>7 DEF HeldSound
  <1>8. CASE m = l /\ pc'[l] \in {"factor", "accept", "done"}
    <2>1. \/ ValidatePrimaryProof(l) /\ pc'[l] = "factor"
          \/ ValidateFactor(l) /\ pc'[l] = "accept"
          \/ LoginAnswer(l) /\ pc'[l] = "done" /\ pc[l] = "accept"
          \/ IssuedAnswer(l) /\ pc'[l] = "done" /\ ValidateIssued(l)
      <3>1. CASE LoginAnswer(l) \/ IssuedAnswer(l)
        BY <1>0, <1>8, <3>1 DEF LoginAnswer, IssuedAnswer, Goto
      <3>2. CASE ResolveRead(l)
        BY <1>0, <1>8, <3>2 DEF ResolveRead, Goto
      <3>3. CASE ValidatePrimaryProof(l) \/ ValidateFactor(l)
        BY <1>0, <1>8, <3>3 DEF ValidatePrimaryProof, ValidateFactor, Goto
      <3>4. CASE PrimaryStarted(l) \/ VerifyPassword(l) \/ PasswordAuthenticated(l) \/ FactorStatus(l)
                 \/ Issue(l) \/ ResolveRecheck(l) \/ CompleteChallenge(l) \/ ChallengeIssue(l)
        BY <1>0, <1>8, <3>4 DEF PrimaryStarted, VerifyPassword, PasswordAuthenticated, FactorStatus, Issue,
           ResolveRecheck, CompleteChallenge, ChallengeIssue, Goto, Challenged
      <3>5. CASE StartFlow(l) \/ CallbackProvider(l) \/ CallbackLink(l) \/ CallbackSnapshot(l)
                 \/ CallbackPrimary(l) \/ CompleteFlow(l)
        BY <1>0, <1>8, <3>5 DEF StartFlow, CallbackProvider, CallbackLink, CallbackSnapshot,
           CallbackPrimary, CompleteFlow, Federated, Goto, Challenged
      <3>6. QED
        BY <3>1, <3>2, <3>3, <3>4, <3>5 DEF SignIn
    <2>2. UNCHANGED proof /\ sessions' = sessions
      BY <1>0, <1>8, <2>1 DEF ValidatePrimaryProof, ValidateFactor, LoginAnswer, IssuedAnswer, Goto
    <2> DEFINE p == proof[l]
    <2>3. ASSUME Valid(p), pc'[l] \in {"accept", "done"} => p.gen = factor.gen PROVE HeldSound(m)'
      <3>1. Valid(proof[l])'
        BY <1>1, <2>2, <2>3 DEF Valid, Resolves, Active, PrimaryAuthorized, PrimaryCurrent
      <3>2. QED
        BY <1>2, <1>8, <2>2, <2>3, <3>1 DEF HeldSound
    <2>4. CASE ValidatePrimaryProof(l) /\ pc'[l] = "factor"
      <3>1. pc[l] = "validate" /\ Current(p)
        BY <1>0, <2>4 DEF ValidatePrimaryProof, Goto
      <3>2. p.epoch <= p.started
        BY <1>0, <3>1 DEF Fits
      <3>3. Valid(p)
        BY <3>1, <3>2 DEF Current, Valid
      <3>4. QED
        BY <2>3, <2>4, <3>3
    <2>5. CASE ValidateFactor(l) /\ pc'[l] = "accept"
      <3>1. pc[l] = "factor" /\ factor.gen = 0 /\ UNCHANGED <<loop, mutating>>
        BY <1>0, <2>5 DEF ValidateFactor, Goto
      <3>2. p.gen = 0
        BY <1>0, <3>1 DEF Fits
      <3>3. CASE l \in sessions /\ loop # "pop" /\ ~mutating
        <4>1. Valid(p)
          BY <1>0, <3>1, <3>3 DEF HeldSound
        <4>2. QED
          BY <2>3, <3>1, <3>2, <4>1
      <3>4. CASE ~(l \in sessions /\ loop # "pop" /\ ~mutating)
        BY <1>8, <2>2, <3>1, <3>4 DEF HeldSound
      <3>5. QED
        BY <3>3, <3>4
    <2>6. CASE LoginAnswer(l) /\ pc'[l] = "done" /\ pc[l] = "accept"
      <3>1. CASE l \in sessions /\ loop # "pop" /\ ~mutating
        <4>1. Valid(p) /\ p.gen = factor.gen
          BY <1>0, <2>6, <3>1 DEF HeldSound
        <4>2. QED
          BY <2>3, <4>1
      <3>2. CASE ~(l \in sessions /\ loop # "pop" /\ ~mutating)
        BY <1>1, <1>3, <1>8, <2>2, <3>2 DEF HeldSound
      <3>3. QED
        BY <3>1, <3>2
    <2>7. CASE IssuedAnswer(l) /\ pc'[l] = "done" /\ ValidateIssued(l)
      <3>1. pc[l] \in {"mfa_answer", "sso_answer"} /\ Current(p) /\ factor.gen = p.gen
        BY <2>7 DEF IssuedAnswer, ValidateIssued
      <3>2. p.epoch <= p.started
        BY <1>0, <3>1 DEF Fits
      <3>3. Valid(p)
        BY <3>1, <3>2 DEF Current, Valid
      <3>4. QED
        BY <2>3, <3>1, <3>3
    <2>8. QED
      BY <2>1, <2>4, <2>5, <2>6, <2>7
  <1>9. QED
    BY <1>6, <1>7, <1>8

LEMMA NextKeepsHeld == ASSUME IInv, [Next]_vars, NEW m \in Login PROVE HeldSound(m)'
  <1> USE DEF manager, security, durable
  <1>0. /\ RowsSound /\ TablesSound /\ HeldSound(m) /\ Fits(pc[m], proof[m])
    BY DEF IInv, LoginsSound, PlaceSound
  <1>1. CASE \E l \in Login : SignIn(l)
    BY <1>1, SignInKeepsHeld
  \* Nothing changes but the session, which may go.
  <1>2. ASSUME m \in sessions' => m \in sessions, UNCHANGED <<pc, proof, account, provider, link, epoch>>,
               factor'.gen = factor.gen, loop' # "pop" => loop # "pop", UNCHANGED mutating
        PROVE  HeldSound(m)'
    BY <1>0, <1>2, HeldStays
  <1>3. ASSUME Forget(current) PROVE HeldSound(m)'
    <2>1. sessions' = {}
      BY <1>0, <1>3, ForgetSound
    <2>2. QED
      BY <2>1, HeldExcused
  <1>4. CASE RevokeUser \/ AdminRevoke
    BY <1>3, <1>4 DEF RevokeUser, AdminRevoke
  <1>5. CASE InvalidateUser \/ Restart
    <2>1. sessions' = {}
      BY <1>0, <1>5 DEF InvalidateUser, Restart, TablesSound
    <2>2. QED
      BY <2>1, HeldExcused
  <1>6. CASE Lapse \/ OtherRevoked \/ ClockMoves \/ UNCHANGED vars
    <2>1. UNCHANGED <<sessions, pc, proof, account, provider, link, epoch, factor, loop, mutating>>
      BY <1>6 DEF Lapse, OtherRevoked, ClockMoves, vars
    <2>2. QED
      BY <1>2, <2>1
  <1>7. CASE Client
    <2>1. UNCHANGED <<pc, proof, account, provider, link, epoch, mutating>>
      BY <1>7 DEF Client, RequestBegin, RequestRead, RequestRecheck, RequestAuthority, Logout, RequestEnds,
         Enroll, Confirm, Disable, ReplaceRecovery, Answered
    <2>2. CASE Confirm \/ Disable
      BY <2>2, HeldExcused DEF Confirm, Disable
    <2>3. CASE RequestRead \/ RequestAuthority \/ RequestEnds \/ Enroll
      <3>1. UNCHANGED <<sessions, factor, loop>>
        BY <2>3 DEF RequestRead, RequestAuthority, RequestEnds, Enroll, Answered
      <3>2. QED
        BY <1>2, <2>1, <3>1
    <2>4. CASE (\E l \in Login : RequestBegin(l)) \/ RequestRecheck
      <3>1. Shrinks /\ UNCHANGED <<factor, loop>>
        BY <1>0, <2>4, ManagerShrinks DEF RequestBegin, RequestRecheck
      <3>2. QED
        BY <1>2, <2>1, <3>1 DEF Shrinks
    <2>5. CASE Logout
      <3>1. Shrinks /\ UNCHANGED factor /\ loop = "free"
        BY <1>0, <2>5, RevokeSound DEF Logout, LoopFree
      <3>2. QED
        BY <1>2, <2>1, <3>1 DEF Shrinks
    <2>6. CASE ReplaceRecovery
      <3>1. PICK code \in Acceptable : factor' = [Consumed(code) EXCEPT !.recovery = RecoverySet(Fresh)]
        BY <2>6 DEF ReplaceRecovery
      <3>2. factor'.gen = factor.gen
        BY <1>0, <3>1 DEF Consumed, RowsSound
      <3>3. UNCHANGED <<sessions, loop>>
        BY <2>6 DEF ReplaceRecovery, Answered
      <3>4. QED
        BY <1>2, <2>1, <3>2, <3>3
    <2>7. QED
      BY <1>7, <2>2, <2>3, <2>4, <2>5, <2>6 DEF Client
  \* A change is written.
  <1>8. CASE AdminWrite \/ UpdateUser \/ AssignRole \/ ActivateBootstrap \/ UnlinkUser
    <2>1. loop' = "pop" \/ mutating'
      BY <1>8 DEF AdminWrite, UpdateUser, AssignRole, ActivateBootstrap, UnlinkUser
    <2>2. QED
      BY <2>1, HeldExcused
  \* The provider changes, or the account is linked: without a link there is no federated session.
  <1>9. CASE ConfigureProvider \/ LinkUser
    <2>1. /\ UNCHANGED <<sessions, pc, proof, account, epoch, factor, mutating>> /\ loop = "free"
          /\ link = 0 \/ loop' = "pop"
      BY <1>9 DEF ConfigureProvider, LinkUser, Turn, LoopFree
    <2>2. CASE loop' = "pop" \/ mutating \/ m \notin sessions
      BY <2>1, <2>2, HeldExcused
    <2>3. CASE link = 0 /\ ~mutating /\ m \in sessions
      <3>1. SUFFICES ASSUME pc[m] \in {"factor", "accept", "done"}
                     PROVE  Valid(proof[m])' /\ (pc[m] \in {"accept", "done"} => proof[m].gen = factor.gen)
        BY <2>1 DEF HeldSound
      <3>2. Valid(proof[m]) /\ (pc[m] \in {"accept", "done"} => proof[m].gen = factor.gen)
        BY <1>0, <2>1, <2>3, <3>1 DEF HeldSound
      <3>3. proof[m].provider = 0
        BY <1>0, <2>3, <3>1, <3>2 DEF Valid, PrimaryAuthorized, Fits
      <3>4. Valid(proof[m])'
        BY <2>1, <3>2, <3>3 DEF Valid, PrimaryAuthorized, Resolves, Active
      <3>5. QED
        BY <3>2, <3>4
    <2>4. QED
      BY <2>1, <2>2, <2>3
  <1>10. QED
    BY <1>1, <1>4, <1>5, <1>6, <1>7, <1>8, <1>9 DEF Next, Administration

-----------------------------------------------------------------------------
(* RequestRows.                                                               *)

LEMMA NextKeepsRequest == ASSUME IInv, [Next]_vars PROVE RequestSound'
  <1> DEFINE RequestRows == [pc : {"none", "read", "recheck", "authority", "credential", "admitted"},
                          login : Login \cup {None}, locks : BOOLEAN, current : BOOLEAN]
  <1>0. /\ request \in RequestRows /\ (request.pc # "none" => request.login \in Login /\ pc[request.login] = "done")
        /\ pc \in [Login -> Places] /\ (\A l \in challenges : pc[l] = "challenged") /\ challenges \subseteq Login
    BY DEF IInv, RequestSound, LoginsSound, PlaceSound, TablesSound
  <1>1. NoRequest \in RequestRows /\ NoRequest.pc = "none"
    <2>1. FALSE \in BOOLEAN
      OBVIOUS
    <2>2. QED
      BY <2>1 DEF NoRequest
  <1>2. ASSUME request' = NoRequest PROVE RequestSound'
    BY <1>1, <1>2 DEF RequestSound
  \* The request moves on, or stays, for the same token.
  <1>3. ASSUME UNCHANGED pc, request' \in RequestRows, request.pc # "none", request'.login = request.login
        PROVE  RequestSound'
    BY <1>0, <1>3 DEF RequestSound
  <1>4. ASSUME UNCHANGED <<pc, request>> PROVE RequestSound'
    BY <1>0, <1>4 DEF RequestSound
  <1>5. ASSUME NEW where \in {"read", "recheck", "authority", "credential", "admitted"},
               request' = [request EXCEPT !.pc = where], UNCHANGED pc, request.pc # "none"
        PROVE  RequestSound'
    <2>1. request' \in RequestRows /\ request'.login = request.login
      BY <1>0, <1>5
    <2>2. QED
      BY <1>3, <1>5, <2>1
  <1>6. ASSUME NEW l \in Login, SignIn(l) PROVE RequestSound'
    <2>1. UNCHANGED request
      BY <1>6 DEF SignIn, PrimaryStarted, VerifyPassword, PasswordAuthenticated, FactorStatus, Issue,
         ResolveRead, ResolveRecheck, ValidatePrimaryProof, ValidateFactor, LoginAnswer, CompleteChallenge,
         ChallengeIssue, IssuedAnswer, StartFlow, CallbackProvider, CallbackLink, CallbackSnapshot,
         CallbackPrimary, CompleteFlow, Federated
    <2>2. pc[l] # "done"
      <3>1. CASE ResolveRead(l)
        BY <3>1 DEF ResolveRead
      <3>2. CASE CompleteChallenge(l)
        BY <1>0, <3>2 DEF CompleteChallenge
      <3>3. QED
        BY <1>6, <3>1, <3>2 DEF SignIn, PrimaryStarted, VerifyPassword, PasswordAuthenticated, FactorStatus,
           Issue, ResolveRecheck, ValidatePrimaryProof, ValidateFactor, LoginAnswer, ChallengeIssue,
           IssuedAnswer, StartFlow, CallbackProvider, CallbackLink, CallbackSnapshot, CallbackPrimary,
           CompleteFlow, Federated
    <2>3. \A n \in Login \ {l} : pc'[n] = pc[n]
      BY <1>0, <1>6 DEF SignIn, PrimaryStarted, VerifyPassword, PasswordAuthenticated, FactorStatus, Issue,
         ResolveRead, ResolveRecheck, ValidatePrimaryProof, ValidateFactor, LoginAnswer, CompleteChallenge,
         ChallengeIssue, IssuedAnswer, StartFlow, CallbackProvider, CallbackLink, CallbackSnapshot,
         CallbackPrimary, CompleteFlow, Federated, Prove, Fail, Goto, Challenged
    <2>4. QED
      BY <1>0, <2>1, <2>2, <2>3 DEF RequestSound
  <1>7. CASE Client
    <2>1. UNCHANGED pc
      BY <1>7 DEF Client, RequestBegin, RequestRead, RequestRecheck, RequestAuthority, Logout, RequestEnds,
         Enroll, Confirm, Disable, ReplaceRecovery, Answered
    <2>2. CASE \E l \in Login : RequestBegin(l)
      <3>1. PICK l \in Login : RequestBegin(l)
        BY <2>2
      <3>2. CASE UNCHANGED request
        BY <1>4, <2>1, <3>2
      <3>3. CASE \E locks \in {FALSE, MutationsFree} :
                   request' = [pc |-> "read", login |-> l, locks |-> locks, current |-> FALSE]
        <4>1. MutationsFree \in BOOLEAN /\ FALSE \in BOOLEAN
          BY DEF MutationsFree
        <4>2. PICK locks \in BOOLEAN :
                request' = [pc |-> "read", login |-> l, locks |-> locks, current |-> FALSE]
          BY <3>3, <4>1
        <4>3. request' \in RequestRows /\ request'.login = l
          BY <4>1, <4>2
        <4>4. pc[l] = "done"
          BY <3>1 DEF RequestBegin, Delivered
        <4>5. QED
          BY <2>1, <4>3, <4>4 DEF RequestSound
      <3>4. QED
        BY <3>1, <3>2, <3>3 DEF RequestBegin
    <2>3. CASE RequestRead
      <3>1. /\ request' = [request EXCEPT !.pc = "recheck", !.current = Resolves(proof[request.login])]
            /\ request.pc = "read"
        BY <2>3 DEF RequestRead
      <3>2. PICK c \in BOOLEAN : c = Resolves(proof[request.login])
        BY ResolvesBoolean
      <3>3. request' = [request EXCEPT !.pc = "recheck", !.current = c]
        BY <3>1, <3>2
      <3>4. request' \in RequestRows /\ request'.login = request.login
        BY <1>0, <3>3
      <3>5. QED
        BY <1>3, <2>1, <3>1, <3>4
    <2>4. CASE RequestRecheck
      <3>1. /\ request.pc = "recheck"
            /\ request' = [request EXCEPT !.pc = "authority"] \/ request' = NoRequest
        BY <2>4 DEF RequestRecheck
      <3>2. QED
        BY <1>2, <1>5, <2>1, <3>1
    <2>5. CASE RequestAuthority
      <3>1. /\ request.pc \in {"authority", "credential"}
            /\ \/ request' = [request EXCEPT !.pc = "credential"] \/ request' = [request EXCEPT !.pc = "admitted"]
               \/ request' = NoRequest
        BY <2>5 DEF RequestAuthority
      <3>2. QED
        BY <1>2, <1>5, <2>1, <3>1
    <2>6. CASE Logout \/ RequestEnds \/ Enroll \/ Confirm \/ Disable \/ ReplaceRecovery
      BY <1>2, <2>6 DEF Logout, RequestEnds, Enroll, Confirm, Disable, ReplaceRecovery, Answered
    <2>7. QED
      BY <1>7, <2>2, <2>3, <2>4, <2>5, <2>6 DEF Client
  <1>8. CASE Administration
    BY <1>4, <1>8 DEF Administration, AdminWrite, AdminRevoke, UpdateUser, AssignRole, ActivateBootstrap,
       ConfigureProvider, LinkUser, UnlinkUser, Turn
  <1>9. CASE RevokeUser \/ InvalidateUser \/ Lapse \/ OtherRevoked \/ ClockMoves \/ UNCHANGED vars
    BY <1>4, <1>9 DEF RevokeUser, InvalidateUser, Lapse, OtherRevoked, ClockMoves, vars
  <1>10. CASE Restart
    BY <1>2, <1>10 DEF Restart
  <1>11. QED
    BY <1>6, <1>7, <1>8, <1>9, <1>10 DEF Next

-----------------------------------------------------------------------------
(* The theorems.                                                           *)

LEMMA InitSound == ASSUME Init PROVE IInv
  <1>1. RowsSound
    <2>1. TRUE \in BOOLEAN
      OBVIOUS
    <2>2. account \in [enabled : BOOLEAN, role : Role, kind : {"password", "bootstrap"}, version : Nat]
      BY <2>1 DEF Init
    <2>3. factor \in [gen : Nat, last : Nat, recovery : SUBSET (Nat \X Nat)]
      BY RecoverySetSound DEF Init, NoFactor
    <2>4. QED
      BY <2>1, <2>2, <2>3 DEF Init, RowsSound
  <1>2. TablesSound
    <2>1. mutating \in BOOLEAN
      BY Zenon DEF Init
    <2>2. QED
      BY <2>1 DEF Init, TablesSound
  <1>3. LoginsSound
    <2>1. \A l \in Login : pc[l] = "idle" /\ proof[l] = NoProof
      BY DEF Init
    <2>2. pc \in [Login -> Places] /\ proof \in [Login -> Proofs]
      BY NoProofSound DEF Init, Places
    <2>3. \A l \in Login : PlaceSound(l)
      BY <2>1, NoProofSound DEF Init, PlaceSound, Fits
    <2>4. QED
      BY <2>1, <2>2, <2>3 DEF LoginsSound
  <1>4. \A l \in Login : HeldSound(l)
    BY DEF Init, HeldSound
  <1>5. RequestSound
    <2>1. FALSE \in BOOLEAN
      OBVIOUS
    <2>2. QED
      BY <2>1 DEF Init, RequestSound, NoRequest
  <1>6. CodesSound
    <2>1. IsFiniteSet(spent) /\ Cardinality(spent) = uses
      BY FS_EmptySet DEF Init
    <2>2. changes = 1 /\ spent = {} /\ factor.gen \in 0..1
      BY DEF Init, NoFactor
    <2>3. \A c \in factor.recovery : c[1] \in 0..1
      BY DEF Init, NoFactor, RecoverySet
    <2>4. QED
      BY <2>1, <2>2, <2>3 DEF CodesSound
  <1>7. QED
    BY <1>1, <1>2, <1>3, <1>4, <1>5, <1>6 DEF IInv

\* The tables, the places of sign-ins, the sessions clients hold and the codes that were spent
\* always fit together: the invariant that auth_sessions and operator_identity_security keep.
THEOREM AccountInvariant == Spec => []IInv
  <1>1. Init => IInv
    BY InitSound
  <1>2. IInv /\ [Next]_vars => IInv'
    <2>1. SUFFICES ASSUME IInv, [Next]_vars PROVE IInv'
      OBVIOUS
    <2>2. \A m \in Login : HeldSound(m)'
      BY <2>1, NextKeepsHeld
    <2>3. RowsSound' /\ CodesSound' /\ TablesSound' /\ LoginsSound' /\ RequestSound'
      BY <2>1, NextKeepsRows, NextKeepsTables, NextKeepsLogins, NextKeepsRequest
    <2>4. QED
      BY <2>2, <2>3 DEF IInv
  <1>3. QED
    BY <1>1, <1>2, PTL DEF Spec

\* A set whose members are all the same has at most one.
LEMMA AtMostOne ==
  ASSUME NEW S, \A x, y \in S : x = y
  PROVE  Cardinality(S) <= 1
  <1>1. CASE S = {}
    <2>1. Cardinality({}) = 0
      BY FS_EmptySet
    <2>2. QED
      BY <1>1, <2>1
  <1>2. CASE S # {}
    <2>1. PICK x \in S : S = {x}
      BY <1>2
    <2>2. Cardinality({x}) = 1
      BY FS_Singleton
    <2>3. QED
      BY <2>1, <2>2
  <1>3. QED
    BY <1>1, <1>2

LEMMA InvariantMeansSound == ASSUME IInv PROVE SessionsSound
  <1>1. TypeOK
    <2>1. Cardinality(challenges) <= 1 /\ Cardinality(enrollment) <= 1
      BY AtMostOne DEF IInv, TablesSound
    <2>2. epoch \in 0..revision
      BY DEF IInv, TablesSound
    <2>3. account \in [enabled : BOOLEAN, role : Role, kind : {"password", "bootstrap"}, version : Nat]
          /\ factor.gen \in Nat /\ factor.last \in Nat /\ link \in Nat
      BY DEF IInv, RowsSound
    <2>4. provider \in [enabled : BOOLEAN, revision : Nat]
      BY DEF IInv, RowsSound
    <2>5. request.login \in {None} \cup Login
      BY DEF IInv, RequestSound
    <2>6. QED
      BY <2>1, <2>2, <2>3, <2>4, <2>5 DEF IInv, TablesSound, TypeOK
  <1>2. ASSUME Settled, NEW l \in Held
        PROVE  Valid(proof[l]) /\ proof[l].gen = factor.gen
    <2>1. l \in Login /\ HeldSound(l) /\ l \in sessions /\ pc[l] = "done"
      BY <1>2 DEF IInv, TablesSound, Held, Delivered
    <2>2. QED
      BY <1>2, <2>1 DEF HeldSound, Settled
  <1>3. SessionCurrent /\ RevokedStaysOut /\ FactorEnforced
    BY <1>2 DEF SessionCurrent, RevokedStaysOut, FactorEnforced, Valid
  <1>4. CodeOnce
    BY DEF IInv, CodesSound, CodeOnce
  <1>5. QED
    BY <1>1, <1>3, <1>4 DEF SessionsSound

\* However sign-ins with a password, a second factor or a provider, requests, administration and
\* restarts interleave, no session outlives the authority, the revocations or the second factor it
\* was granted with, and no code is accepted twice.
THEOREM NoSessionOutlivesAuthority == Spec => []SessionsSound
  BY AccountInvariant, InvariantMeansSound, PTL

\* resolve never admits a request under an authority that was already replaced when no change is
\* in hand: what its thread read is not used after a revocation.
THEOREM AdmissionsCurrent == Spec => AdmittedCurrent
  <1>1. IInv /\ [Next]_vars =>
          [request.pc = "recheck" /\ request'.pc = "authority" /\ Settled
           => Resolves(proof[request.login])]_vars
    <2>1. SUFFICES ASSUME IInv, Next, request.pc = "recheck", request'.pc = "authority", Settled
                   PROVE  Resolves(proof[request.login])
      OBVIOUS
    <2>2. RequestRecheck
      <3>1. CASE Client
        BY <2>1, <3>1 DEF Client, RequestBegin, RequestRead, RequestAuthority, Logout, RequestEnds, Enroll,
           Confirm, Disable, ReplaceRecovery, Answered, FactorRoute
      <3>2. CASE Restart
        BY <2>1, <3>2 DEF Restart, NoRequest
      <3>3. CASE \E l \in Login : SignIn(l)
        BY <2>1, <3>3 DEF SignIn, PrimaryStarted, VerifyPassword, PasswordAuthenticated, FactorStatus, Issue,
           ResolveRead, ResolveRecheck, ValidatePrimaryProof, ValidateFactor, LoginAnswer, CompleteChallenge,
           ChallengeIssue, IssuedAnswer, StartFlow, CallbackProvider, CallbackLink, CallbackSnapshot,
           CallbackPrimary, CompleteFlow, Federated
      <3>4. CASE Administration
        BY <2>1, <3>4 DEF Administration, AdminWrite, AdminRevoke, UpdateUser, AssignRole, ActivateBootstrap,
           ConfigureProvider, LinkUser, UnlinkUser, Turn
      <3>5. CASE RevokeUser \/ InvalidateUser \/ Lapse \/ OtherRevoked \/ ClockMoves
        BY <2>1, <3>5 DEF RevokeUser, InvalidateUser, Lapse, OtherRevoked, ClockMoves
      <3>6. QED
        BY <2>1, <3>1, <3>2, <3>3, <3>4, <3>5 DEF Next
    <2>3. Resolved(request.login, request.current)
      BY <2>1, <2>2 DEF RequestRecheck, NoRequest
    <2>4. request.login \in Login /\ request.login \in sessions /\ pc[request.login] = "done"
      BY <2>1, <2>3 DEF IInv, RequestSound, Resolved
    <2>5. Valid(proof[request.login])
      BY <2>1, <2>4 DEF IInv, HeldSound, Settled
    <2>6. QED
      BY <2>5 DEF Valid
  <1>2. QED
    BY <1>1, AccountInvariant, PTL DEF Spec, AdmittedCurrent

-----------------------------------------------------------------------------
(* Administration: the invariant.                                          *)

Roles == {"administrator", "viewer"}
Accesses == {"all", "selected"}
AccountRows == [role : Roles \cup {"none"}, enabled : BOOLEAN, cred : {"none", "pending", "active"},
                access : Accesses]
ProfileRows == [base : Roles \cup {"none"}, permissions : SUBSET Admin!PERMISSIONS]
CallRows == [at : {"idle", "leased", "checked"}, op : Admin!Ops \cup {"none"}, actor : Users \cup {0},
             user : Users \cup {0}, role : Roles \cup {"none"}, enabled : BOOLEAN,
             access : Accesses \cup {"none"}, profile : {0}]

\* What the administrators' routes read and write.
RegistrySound ==
  /\ acct \in [Users -> AccountRows] /\ profiles \in [Profiles -> ProfileRows]
  /\ bindings \in [Users -> Profiles \cup {0}]
  /\ \A p \in Profiles : profiles[p].base = "none" => profiles[p] = Admin!NoProfile
  /\ \A u \in Users : ~Admin!Exists(u) => acct[u] = Admin!NoUser /\ bindings[u] = 0
  /\ \A u \in Users : Admin!Exists(u) => Admin!AccessAllowed(acct[u].role, acct[u].access)

\* A full administrator would remain if the row of u became `row'.
RemainsWith(u, row) == Admin!Guard([acct EXCEPT ![u] = row], profiles, bindings)

\* The route has checked what its thread is about to write, and what it checked still holds:
\* only creations and camera selections go on without the lease.
WillKeep(c) ==
  /\ c.op = "update" => RemainsWith(c.user, Admin!Changed(c.user, c.role, c.enabled))
  /\ c.op = "reset" => RemainsWith(c.user, [acct[c.user] EXCEPT !.enabled = FALSE])
  /\ c.op = "assign" => RemainsWith(c.user, [acct[c.user] EXCEPT !.role = c.role])
WillGrant(r, c) ==
  /\ c.op = "update" /\ c.role # acct[c.user].role => Admin!Granted(r, Admin!BASE_PERMISSIONS[c.role])
  /\ c.op = "assign" /\ c.role # acct[c.user].role =>
       bindings[c.user] # 0 /\ Admin!Granted(r, profiles[bindings[c.user]].permissions)
  /\ c.op \in {"create", "update"} /\ c.access # "none" => Admin!AccessAllowed(c.role, c.access)
CallSound(r, c) ==
  /\ c.at # "idle" /\ c.op \notin {"create", "camera"} => lease = r
  /\ c.at # "idle" => c.actor \in Users /\ Admin!Exists(c.actor)
  /\ c.at = "checked" =>
       /\ c.user \in Users /\ c.role \in Roles /\ (c.op # "create" => Admin!Exists(c.user))
       /\ c.op \in {"create", "camera"} => c.access # "none"
       /\ WillKeep(c) /\ WillGrant(r, c)

CallsSound == call \in [Requests -> CallRows] /\ \A r \in Requests : CallSound(r, call[r])

AdminInv == RegistrySound /\ CallsSound /\ Admin!SomebodyAdministers /\ ~excess

-----------------------------------------------------------------------------
(* Administration: administrators and permissions.                         *)

\* An enabled administrator with a password.
Acting(row) == row.enabled /\ row.role = "administrator" /\ row.cred = "active"

\* A full administrator is one that no profile limits.
LEMMA GuardMeans ==
  ASSUME NEW rows, NEW prof, NEW binds
  PROVE  Admin!Guard(rows, prof, binds) <=>
           \E u \in Users : /\ Acting(rows[u])
                            /\ binds[u] = 0 \/ Admin!PERMISSIONS \subseteq prof[binds[u]].permissions
  <1>1. /\ Admin!BASE_PERMISSIONS["administrator"] = Admin!PERMISSIONS
    BY DEF Admin!BASE_PERMISSIONS, Admin!Admin
  <1>2. ASSUME NEW u
        PROVE  Admin!FullAdministrator(rows[u], prof, binds[u]) <=>
                 /\ Acting(rows[u])
                 /\ binds[u] = 0 \/ Admin!PERMISSIONS \subseteq prof[binds[u]].permissions
    BY <1>1 DEF Admin!FullAdministrator, Admin!Permissions, Acting, Admin!Admin
  <1>3. QED
    BY <1>2 DEF Admin!Guard

LEMMA RemainsMeans ==
  ASSUME NEW rows \in [Users -> AccountRows], NEW prof, NEW binds, NEW u \in Users, NEW row
  PROVE  Admin!Guard([rows EXCEPT ![u] = row], prof, binds) <=>
           \E v \in Users : /\ Acting(IF v = u THEN row ELSE rows[v])
                            /\ binds[v] = 0 \/ Admin!PERMISSIONS \subseteq prof[binds[v]].permissions
  <1>1. \A v \in Users : [rows EXCEPT ![u] = row][v] = IF v = u THEN row ELSE rows[v]
    OBVIOUS
  <1>2. QED
    BY <1>1, GuardMeans

\* What a route checks stays checked while accounts are only created, activated, or given cameras.
LEMMA OtherCalls ==
  ASSUME RegistrySound, CallsSound, NEW s \in Requests, call'[s] = call[s],
         acct' \in [Users -> AccountRows],
         \A u \in Users : Admin!Exists(u) => Admin!Exists(u)',
         \/ lease # s
         \/ /\ lease' = s /\ UNCHANGED <<profiles, bindings>>
            /\ \A u \in Users : Admin!Exists(u) =>
                 /\ acct'[u].role = acct[u].role /\ acct'[u].enabled = acct[u].enabled
                 /\ acct[u].cred = "active" => acct'[u].cred = "active"
  PROVE  CallSound(s, call[s])'
  <1>0. call[s] \in CallRows /\ acct \in [Users -> AccountRows] /\ bindings \in [Users -> Profiles \cup {0}]
    BY DEF RegistrySound, CallsSound
  <1>9. PICK c \in CallRows : c = call[s]
    BY <1>0
  <1>1. /\ c.at # "idle" /\ c.op \notin {"create", "camera"} => lease = s
        /\ c.at # "idle" => c.actor \in Users /\ Admin!Exists(c.actor)
        /\ c.at = "checked" =>
             /\ c.user \in Users /\ c.role \in Roles /\ (c.op # "create" => Admin!Exists(c.user))
             /\ c.op \in {"create", "camera"} => c.access # "none"
             /\ WillKeep(c) /\ WillGrant(s, c)
    BY <1>9 DEF CallsSound, CallSound
  <1>2. call'[s] = c
    BY <1>9
  <1>3. CASE c.at = "idle" \/ c.op \in {"create", "camera"}
    <2>1. c.at = "checked" => WillKeep(c)'
      BY <1>3 DEF WillKeep
    <2>2. c.at = "checked" => WillGrant(s, c)'
      BY <1>1, <1>3 DEF WillGrant, Admin!AccessAllowed
    <2>3. QED
      BY <1>1, <1>2, <1>3, <2>1, <2>2 DEF CallSound
  <1>4. CASE c.at # "idle" /\ c.op \notin {"create", "camera"}
    <2>1. /\ lease = s /\ lease' = s /\ UNCHANGED <<profiles, bindings>>
          /\ \A u \in Users : Admin!Exists(u) =>
               /\ acct'[u].role = acct[u].role /\ acct'[u].enabled = acct[u].enabled
               /\ acct[u].cred = "active" => acct'[u].cred = "active"
      BY <1>1, <1>4
    <2>2. \A u \in Users : Acting(acct[u]) => Acting(acct'[u])
      BY <2>1 DEF Acting, Admin!Exists
    <2>3. ASSUME c.at = "checked" PROVE WillGrant(s, c)'
      <3>1. acct'[c.user].role = acct[c.user].role
        BY <1>1, <1>4, <2>1, <2>3
      <3>2. Admin!Holds(s)' = Admin!Holds(s)
        BY <1>2, <2>1 DEF Admin!Holds, Admin!Permissions
      <3>3. WillGrant(s, c)
        BY <1>1, <2>3
      <3>4. QED
        BY <2>1, <3>1, <3>2, <3>3 DEF WillGrant, Admin!Granted, Admin!AccessAllowed
    <2>4. ASSUME c.at = "checked" PROVE WillKeep(c)'
      <3>1. /\ c.user \in Users /\ Admin!Exists(c.user) /\ WillKeep(c)
            /\ acct'[c.user].role = acct[c.user].role /\ acct'[c.user].enabled = acct[c.user].enabled
            /\ acct[c.user].cred = "active" => acct'[c.user].cred = "active"
            /\ acct[c.user] \in AccountRows /\ acct'[c.user] \in AccountRows
        BY <1>0, <1>1, <1>4, <2>1, <2>4
      <3>2. ASSUME NEW old, NEW new, Acting(old) => Acting(new), RemainsWith(c.user, old)
            PROVE  Admin!Guard([acct' EXCEPT ![c.user] = new], profiles', bindings')
        <4>0. Admin!Guard([acct EXCEPT ![c.user] = old], profiles, bindings)
          BY <3>2 DEF RemainsWith
        <4>9. acct \in [Users -> AccountRows] /\ c.user \in Users
          BY <1>0, <3>1
        <4>1. PICK v \in Users : /\ Acting(IF v = c.user THEN old ELSE acct[v])
                                 /\ bindings[v] = 0 \/ Admin!PERMISSIONS \subseteq profiles[bindings[v]].permissions
          BY <4>0, <4>9, RemainsMeans
        <4>2. Acting(IF v = c.user THEN new ELSE acct'[v])
          BY <2>2, <3>2, <4>1
        <4>3. bindings'[v] = 0 \/ Admin!PERMISSIONS \subseteq profiles'[bindings'[v]].permissions
          BY <2>1, <4>1
        <4>4. QED
          BY <3>1, <4>2, <4>3, RemainsMeans
      <3>3. Acting(Admin!Changed(c.user, c.role, c.enabled)) => Acting(Admin!Changed(c.user, c.role, c.enabled)')
        BY <3>1 DEF Acting, Admin!Changed, AccountRows
      <3>4. ~Acting([acct[c.user] EXCEPT !.enabled = FALSE])
        BY <3>1 DEF Acting, AccountRows
      <3>5. Acting([acct[c.user] EXCEPT !.role = c.role]) => Acting([acct'[c.user] EXCEPT !.role = c.role])
        BY <3>1 DEF Acting, AccountRows
      <3>6. c.op = "update" => RemainsWith(c.user, Admin!Changed(c.user, c.role, c.enabled))'
        BY <3>1, <3>2, <3>3 DEF WillKeep, RemainsWith
      <3>7. c.op = "reset" => RemainsWith(c.user, [acct[c.user] EXCEPT !.enabled = FALSE])'
        BY <3>1, <3>2, <3>4 DEF WillKeep, RemainsWith
      <3>8. c.op = "assign" => RemainsWith(c.user, [acct[c.user] EXCEPT !.role = c.role])'
        BY <3>1, <3>2, <3>5 DEF WillKeep, RemainsWith
      <3>9. QED
        BY <3>6, <3>7, <3>8 DEF WillKeep
    <2>5. QED
      BY <1>1, <1>2, <2>1, <2>3, <2>4 DEF CallSound
  <1>5. QED
    BY <1>3, <1>4

\* One route goes on; the others keep what they have checked.
LEMMA RouteKeeps ==
  ASSUME AdminInv, NEW r \in Requests, NEW row \in CallRows, call' = [call EXCEPT ![r] = row],
         RegistrySound', \A u \in Users : Admin!Exists(u) => Admin!Exists(u)',
         \/ lease \in {0, r}
         \/ /\ lease' = lease /\ UNCHANGED <<profiles, bindings>>
            /\ \A u \in Users : Admin!Exists(u) =>
                 /\ acct'[u].role = acct[u].role /\ acct'[u].enabled = acct[u].enabled
                 /\ acct[u].cred = "active" => acct'[u].cred = "active",
         CallSound(r, row)', Admin!Guard(acct', profiles', bindings'), ~excess'
  PROVE  AdminInv'
  <1>1. call \in [Requests -> CallRows] /\ RegistrySound /\ CallsSound
    BY DEF AdminInv, CallsSound
  <1>2. /\ call' \in [Requests -> CallRows] /\ call'[r] = row
        /\ \A s \in Requests \ {r} : call'[s] = call[s]
    BY <1>1
  <1>3. acct' \in [Users -> AccountRows]
    BY DEF RegistrySound
  <1>4. ASSUME NEW s \in Requests \ {r} PROVE CallSound(s, call[s])'
    <2>1. \/ lease # s
          \/ /\ lease' = s /\ UNCHANGED <<profiles, bindings>>
             /\ \A u \in Users : Admin!Exists(u) =>
                  /\ acct'[u].role = acct[u].role /\ acct'[u].enabled = acct[u].enabled
                  /\ acct[u].cred = "active" => acct'[u].cred = "active"
      BY <1>4, AdministrationAssumption
    <2>2. QED
      BY <1>1, <1>2, <1>3, <1>4, <2>1, OtherCalls
  <1>5. CallSound(r, call[r])'
    BY <1>2 DEF CallSound, WillKeep, WillGrant, RemainsWith, Admin!Changed
  <1>6. CallsSound'
    BY <1>2, <1>4, <1>5 DEF CallsSound
  <1>7. Admin!SomebodyAdministers'
    BY DEF Admin!SomebodyAdministers, Admin!Guard
  <1>8. QED
    BY <1>6, <1>7 DEF AdminInv

\* A route that is over claims nothing.
LEMMA IdleSound == Admin!Idle \in CallRows /\ \A r \in Requests : CallSound(r, Admin!Idle)
  <1>1. FALSE \in BOOLEAN
    OBVIOUS
  <1>2. Admin!Idle \in CallRows
    BY <1>1 DEF Admin!Idle, CallRows
  <1>3. Admin!Idle.at = "idle"
    BY DEF Admin!Idle
  <1>4. QED
    BY <1>2, <1>3 DEF CallSound

\* A route that only reads, or ends.
LEMMA ReadKeeps ==
  ASSUME AdminInv, NEW r \in Requests, NEW row \in CallRows, call' = [call EXCEPT ![r] = row],
         UNCHANGED <<acct, profiles, bindings, excess>>, lease \in {0, r} \/ lease' = lease,
         CallSound(r, row)', \E u \in Users : Admin!Exists(u)
  PROVE  AdminInv'
  <1>1. RegistrySound' /\ \A u \in Users : Admin!Exists(u) => Admin!Exists(u)'
    BY DEF AdminInv, RegistrySound, Admin!Exists, Admin!AccessAllowed
  <1>2. Admin!Guard(acct', profiles', bindings') /\ ~excess'
    BY DEF AdminInv, Admin!SomebodyAdministers, Admin!Guard
  <1>3. QED
    BY <1>1, <1>2, RouteKeeps

LEMMA ChecksKeep ==
  ASSUME AdminInv, NEW r \in Requests,
         \/ Admin!Call(r) \/ Admin!CreateChecks(r) \/ Admin!UpdateChecks(r) \/ Admin!CameraChecks(r)
         \/ Admin!ResetChecks(r) \/ Admin!Refused(r) \/ Admin!Abandon(r)
  PROVE  AdminInv'
  <1>0. /\ RegistrySound /\ CallSound(r, call[r]) /\ call \in [Requests -> CallRows]
        /\ call[r] \in CallRows /\ acct \in [Users -> AccountRows]
    BY DEF AdminInv, CallsSound, RegistrySound
  <1>1. ASSUME call[r].at # "idle" PROVE /\ call[r].actor \in Users /\ \E u \in Users : Admin!Exists(u)
                                         /\ call[r].op \notin {"create", "camera"} => lease = r
                                         /\ Admin!Exists(call[r].actor)
    BY <1>0, <1>1 DEF CallSound
  <1>2. CASE Admin!Call(r)
    <2>1. PICK u \in Users, op \in Admin!Ops :
            /\ acct[u].role = "administrator"
            /\ call' = [call EXCEPT ![r] = [Admin!Idle EXCEPT !.at = "leased", !.op = op, !.actor = u,
                                                              !.role = acct[u].role]]
      BY <1>2 DEF Admin!Call, Admin!Admin
    <2>2. PICK row : row = [Admin!Idle EXCEPT !.at = "leased", !.op = op, !.actor = u, !.role = acct[u].role]
      OBVIOUS
    <2>3. row \in CallRows /\ row.at = "leased" /\ row.actor = u
      BY <2>1, <2>2, IdleSound DEF CallRows, Roles
    <2>4. lease = 0 /\ lease' = r /\ UNCHANGED <<acct, profiles, bindings, excess>> /\ Admin!Exists(u)
      BY <1>2, <2>1 DEF Admin!Call, Admin!Exists
    <2>5. CallSound(r, row)'
      BY <2>3, <2>4 DEF CallSound, Admin!Exists
    <2>6. QED
      BY <2>1, <2>2, <2>3, <2>4, <2>5, ReadKeeps
  \* A route whose thread has checked what it is asked to write.
  <1>3. ASSUME NEW u \in Users, NEW role \in Roles, NEW enabled \in BOOLEAN, NEW access \in Accesses \cup {"none"},
               call[r].at = "leased", Admin!Checked(r, u, role, enabled, access),
               UNCHANGED <<acct, profiles, bindings, excess, lease>>,
               call[r].op # "create" => Admin!Exists(u),
               call[r].op \in {"create", "camera"} => access # "none",
               call[r].op \in {"create", "update"} /\ access # "none" => Admin!AccessAllowed(role, access),
               call[r].op = "update" => RemainsWith(u, Admin!Changed(u, role, enabled)),
               call[r].op = "update" /\ role # acct[u].role => Admin!Granted(r, Admin!BASE_PERMISSIONS[role]),
               call[r].op = "reset" => RemainsWith(u, [acct[u] EXCEPT !.enabled = FALSE]),
               call[r].op # "assign"
        PROVE  AdminInv'
    <2>1. PICK row : row = [call[r] EXCEPT !.at = "checked", !.user = u, !.role = role, !.enabled = enabled,
                                           !.access = access]
      OBVIOUS
    <2>2. /\ row \in CallRows /\ row.at = "checked" /\ row.user = u /\ row.role = role /\ row.enabled = enabled
          /\ row.access = access /\ row.op = call[r].op /\ row.actor = call[r].actor
      BY <1>0, <1>3, <2>1 DEF CallRows
    <2>3. call' = [call EXCEPT ![r] = row] /\ call'[r] = row
      BY <1>0, <1>3, <2>1 DEF Admin!Checked
    <2>4. Admin!Holds(r)' = Admin!Holds(r)
      BY <1>3, <2>2, <2>3 DEF Admin!Holds, Admin!Permissions
    <2>5. WillKeep(row)'
      BY <1>3, <2>2 DEF WillKeep, RemainsWith, Admin!Changed
    <2>6. WillGrant(r, row)'
      BY <1>3, <2>2, <2>4 DEF WillGrant, Admin!Granted, Admin!AccessAllowed
    <2>7. CallSound(r, row)'
      BY <1>1, <1>3, <2>2, <2>5, <2>6 DEF CallSound, Admin!Exists
    <2>8. QED
      BY <1>1, <1>3, <2>2, <2>3, <2>7, ReadKeeps
  <1>4. CASE Admin!CreateChecks(r)
    <2>1. PICK u \in Users, role \in Roles, enabled \in BOOLEAN, access \in Accesses :
            Admin!AccessAllowed(role, access) /\ Admin!Checked(r, u, role, enabled, access)
      BY <1>4 DEF Admin!CreateChecks, Roles, Accesses, Admin!Admin, Admin!Viewer
    <2>2. /\ call[r].at = "leased" /\ call[r].op = "create" /\ access # "none"
          /\ UNCHANGED <<acct, profiles, bindings, excess, lease>>
      BY <1>4, <2>1 DEF Admin!CreateChecks, Admin!At, Accesses
    <2>3. QED
      BY <1>3, <2>1, <2>2
  <1>5. CASE Admin!UpdateChecks(r)
    <2>1. PICK u \in Users, role \in Roles, enabled \in BOOLEAN, access \in Accesses \cup {"none"} :
            /\ Admin!Exists(u)
            /\ role # acct[u].role => Admin!Granted(r, Admin!BASE_PERMISSIONS[role])
            /\ access # "none" => Admin!AccessAllowed(role, access)
            /\ Admin!Guard([acct EXCEPT ![u] = Admin!Changed(u, role, enabled)], profiles, bindings)
            /\ Admin!Checked(r, u, role, enabled, access)
      BY <1>5 DEF Admin!UpdateChecks, Roles, Accesses, Admin!Admin, Admin!Viewer
    <2>2. /\ call[r].at = "leased" /\ call[r].op = "update"
          /\ UNCHANGED <<acct, profiles, bindings, excess, lease>>
      BY <1>5 DEF Admin!UpdateChecks, Admin!At
    <2>3. RemainsWith(u, Admin!Changed(u, role, enabled))
      BY <2>1 DEF RemainsWith
    <2>4. QED
      BY <1>3, <2>1, <2>2, <2>3
  <1>6. CASE Admin!CameraChecks(r)
    <2>1. PICK u \in Users, access \in Accesses :
            Admin!Exists(u) /\ Admin!Checked(r, u, acct[u].role, acct[u].enabled, access)
      BY <1>6 DEF Admin!CameraChecks, Accesses
    <2>2. /\ call[r].at = "leased" /\ call[r].op = "camera" /\ access # "none"
          /\ UNCHANGED <<acct, profiles, bindings, excess, lease>>
      BY <1>6, <2>1 DEF Admin!CameraChecks, Admin!At, Accesses
    <2>3. acct[u].role \in Roles /\ acct[u].enabled \in BOOLEAN
      BY <1>0, <2>1 DEF AccountRows, Admin!Exists
    <2>4. QED
      BY <1>3, <2>1, <2>2, <2>3
  <1>7. CASE Admin!ResetChecks(r)
    <2>1. PICK u \in Users :
            /\ Admin!Exists(u) /\ Admin!Guard([acct EXCEPT ![u].enabled = FALSE], profiles, bindings)
            /\ Admin!Checked(r, u, acct[u].role, acct[u].enabled, "none")
      BY <1>7 DEF Admin!ResetChecks
    <2>2. /\ call[r].at = "leased" /\ call[r].op = "reset"
          /\ UNCHANGED <<acct, profiles, bindings, excess, lease>>
      BY <1>7 DEF Admin!ResetChecks, Admin!At
    <2>3. acct[u].role \in Roles /\ acct[u].enabled \in BOOLEAN
      BY <1>0, <2>1 DEF AccountRows, Admin!Exists
    <2>4. RemainsWith(u, [acct[u] EXCEPT !.enabled = FALSE])
      BY <2>1 DEF RemainsWith
    <2>5. QED
      BY <1>3, <2>1, <2>2, <2>3, <2>4
  <1>8. CASE Admin!Refused(r)
    <2>1. /\ call' = [call EXCEPT ![r] = Admin!Idle] /\ (lease = r \/ lease' = lease)
          /\ UNCHANGED <<acct, profiles, bindings, excess>> /\ call[r].at # "idle"
      BY <1>8 DEF Admin!Refused, Admin!Done
    <2>2. CallSound(r, Admin!Idle)'
      BY DEF CallSound, Admin!Idle
    <2>3. QED
      BY <1>1, <2>1, <2>2, IdleSound, ReadKeeps
  <1>9. CASE Admin!Abandon(r)
    <2>1. /\ UNCHANGED <<acct, profiles, bindings, call, excess>> /\ lease = r /\ call[r].at # "idle"
          /\ call[r].op \in {"create", "camera"}
      BY <1>9 DEF Admin!Abandon
    <2>2. PICK row \in CallRows : row = call[r]
      BY <1>0
    <2>3. CallSound(r, row)'
      BY <1>0, <2>1, <2>2 DEF CallSound, WillKeep, WillGrant, Admin!AccessAllowed, Admin!Exists
    <2>4. call' = [call EXCEPT ![r] = row]
      BY <1>0, <2>1, <2>2
    <2>5. QED
      BY <1>1, <2>1, <2>2, <2>3, <2>4, ReadKeeps
  <1>10. QED
    BY <1>2, <1>4, <1>5, <1>6, <1>7, <1>8, <1>9

\* Creations, camera selections and activations take nobody's authority away.
LEMMA SteadyGuard ==
  ASSUME AdminInv, UNCHANGED <<profiles, bindings>>, \E u \in Users : Admin!Exists(u),
         \A u \in Users : Acting(acct[u]) => Acting(acct'[u])
  PROVE  Admin!Guard(acct', profiles', bindings')
  <1>1. Admin!Guard(acct, profiles, bindings)
    BY DEF AdminInv, Admin!SomebodyAdministers, Admin!Guard
  <1>2. QED
    BY <1>1, GuardMeans

LEMMA SteadyWritesKeep ==
  ASSUME AdminInv, NEW r \in Requests, Admin!Create(r) \/ Admin!Camera(r)
  PROVE  AdminInv'
  <1>0. /\ RegistrySound /\ CallSound(r, call[r]) /\ call \in [Requests -> CallRows]
        /\ call[r] \in CallRows /\ acct \in [Users -> AccountRows]
    BY DEF AdminInv, CallsSound, RegistrySound
  <1>1. PICK c \in CallRows : c = call[r]
    BY <1>0
  <1>2. /\ c.at = "checked" /\ c.op \in {"create", "camera"} /\ UNCHANGED <<profiles, bindings, excess>>
        /\ call' = [call EXCEPT ![r] = Admin!Idle] /\ (lease = r \/ lease' = lease)
    BY <1>1 DEF Admin!Create, Admin!Camera, Admin!At, Admin!Done
  <1>3. /\ c.user \in Users /\ c.role \in Roles /\ c.access \in Accesses /\ c.enabled \in BOOLEAN
        /\ c.op = "create" => Admin!AccessAllowed(c.role, c.access)
        /\ c.op = "camera" => Admin!Exists(c.user)
        /\ \E u \in Users : Admin!Exists(u)
    BY <1>0, <1>1, <1>2 DEF CallSound, WillGrant, CallRows
  <1>4. \/ UNCHANGED acct
        \/ /\ ~Admin!Exists(c.user) /\ c.op = "create"
           /\ acct' = [acct EXCEPT ![c.user] = [role |-> c.role, enabled |-> c.enabled, cred |-> "pending",
                                                access |-> c.access]]
        \/ /\ Admin!Exists(c.user) /\ Admin!AccessAllowed(acct[c.user].role, c.access)
           /\ acct' = [acct EXCEPT ![c.user].access = c.access]
    BY <1>1, <1>3 DEF Admin!Create, Admin!Camera, Admin!RoleNow, Admin!At
  <1>5. /\ acct' \in [Users -> AccountRows]
        /\ \A u \in Users : Admin!Exists(u) =>
             acct'[u].role = acct[u].role /\ acct'[u].enabled = acct[u].enabled /\ acct'[u].cred = acct[u].cred
    BY <1>0, <1>3, <1>4 DEF AccountRows, Admin!Exists
  <1>6. /\ \A u \in Users : Admin!Exists(u) => Admin!Exists(u)'
        /\ \A u \in Users : Acting(acct[u]) => Acting(acct'[u])
    BY <1>5 DEF Admin!Exists, Acting
  <1>7. /\ \A u \in Users : ~Admin!Exists(u)' => acct'[u] = Admin!NoUser /\ bindings'[u] = 0
        /\ \A u \in Users : Admin!Exists(u)' => Admin!AccessAllowed(acct[u].role, acct[u].access)'
    <2>1. CASE UNCHANGED acct
      BY <1>0, <1>2, <2>1 DEF RegistrySound, Admin!Exists, Admin!AccessAllowed
    <2>2. CASE /\ ~Admin!Exists(c.user) /\ c.op = "create"
               /\ acct' = [acct EXCEPT ![c.user] = [role |-> c.role, enabled |-> c.enabled, cred |-> "pending",
                                                    access |-> c.access]]
      <3>1. acct'[c.user].role = c.role /\ acct'[c.user].access = c.access /\ c.role # "none"
        BY <1>0, <1>3, <2>2 DEF Roles
      <3>2. \A u \in Users \ {c.user} : acct'[u] = acct[u]
        BY <1>0, <2>2
      <3>3. QED
        BY <1>0, <1>2, <1>3, <2>2, <3>1, <3>2 DEF RegistrySound, Admin!Exists, Admin!AccessAllowed
    <2>3. CASE /\ Admin!Exists(c.user) /\ Admin!AccessAllowed(acct[c.user].role, c.access)
               /\ acct' = [acct EXCEPT ![c.user].access = c.access]
      <3>1. acct'[c.user].role = acct[c.user].role /\ acct'[c.user].access = c.access
        BY <1>0, <1>3, <2>3 DEF AccountRows
      <3>2. \A u \in Users \ {c.user} : acct'[u] = acct[u]
        BY <1>0, <2>3
      <3>3. QED
        BY <1>0, <1>2, <1>3, <2>3, <3>1, <3>2 DEF RegistrySound, Admin!Exists, Admin!AccessAllowed
    <2>4. QED
      BY <1>4, <2>1, <2>2, <2>3
  <1>8. RegistrySound'
    BY <1>0, <1>2, <1>5, <1>7 DEF RegistrySound
  <1>9. Admin!Guard(acct', profiles', bindings')
    BY <1>2, <1>3, <1>6, SteadyGuard
  <1>10. CallSound(r, Admin!Idle)' /\ ~excess'
    BY <1>2 DEF CallSound, Admin!Idle, AdminInv
  <1>11. QED
    BY <1>2, <1>5, <1>6, <1>8, <1>9, <1>10, IdleSound, RouteKeeps

LEMMA ActivateKeeps == ASSUME AdminInv, NEW u \in Users, Admin!Activate(u) PROVE AdminInv'
  <1>0. RegistrySound /\ CallsSound /\ acct \in [Users -> AccountRows]
    BY DEF AdminInv, RegistrySound
  <1>1. /\ acct[u].cred = "pending" /\ acct' = [acct EXCEPT ![u].cred = "active"]
        /\ UNCHANGED <<profiles, bindings, lease, call, excess>>
    BY DEF Admin!Activate
  <1>2. /\ acct' \in [Users -> AccountRows]
        /\ \A v \in Users : /\ acct'[v].role = acct[v].role /\ acct'[v].enabled = acct[v].enabled
                            /\ acct'[v].access = acct[v].access
                            /\ acct'[v].cred = acct[v].cred \/ acct'[v].cred = "active"
    BY <1>0, <1>1 DEF AccountRows
  <1>3. Admin!Exists(u)
    BY <1>0, <1>1 DEF RegistrySound, Admin!NoUser
  <1>4. \A v \in Users : v # u => acct'[v] = acct[v]
    BY <1>0, <1>1
  <1>5. RegistrySound'
    BY <1>0, <1>1, <1>2, <1>3, <1>4 DEF RegistrySound, Admin!Exists, Admin!AccessAllowed
  <1>6. /\ \A v \in Users : Admin!Exists(v) => Admin!Exists(v)'
        /\ \A v \in Users : Acting(acct[v]) => Acting(acct'[v])
    BY <1>2 DEF Admin!Exists, Acting
  <1>7. Admin!Guard(acct', profiles', bindings')
    BY <1>1, <1>3, <1>6, SteadyGuard
  <1>8. ASSUME NEW s \in Requests PROVE CallSound(s, call[s])'
    <2>1. \/ lease # s
          \/ /\ lease' = s /\ UNCHANGED <<profiles, bindings>>
             /\ \A v \in Users : Admin!Exists(v) =>
                  /\ acct'[v].role = acct[v].role /\ acct'[v].enabled = acct[v].enabled
                  /\ acct[v].cred = "active" => acct'[v].cred = "active"
      BY <1>1, <1>2
    <2>2. QED
      BY <1>0, <1>1, <1>2, <1>6, <2>1, OtherCalls
  <1>9. CallsSound'
    BY <1>0, <1>1, <1>8 DEF CallsSound
  <1>10. QED
    BY <1>1, <1>5, <1>7, <1>9 DEF AdminInv, Admin!SomebodyAdministers, Admin!Guard

\* The first administrator, and the end of the program.
LEMMA BeginningsKeep == ASSUME AdminInv, Admin!BootstrapAdministrator \/ Admin!Crash PROVE AdminInv'
  <1>0. RegistrySound /\ CallsSound /\ acct \in [Users -> AccountRows]
    BY DEF AdminInv, RegistrySound
  <1>1. CASE Admin!Crash
    <2>1. UNCHANGED <<acct, profiles, bindings, excess>> /\ call' = [r \in Requests |-> Admin!Idle]
      BY <1>1 DEF Admin!Crash
    <2>2. RegistrySound' /\ Admin!SomebodyAdministers' /\ ~excess'
      BY <1>0, <2>1 DEF AdminInv, RegistrySound, Admin!Exists, Admin!AccessAllowed, Admin!SomebodyAdministers,
         Admin!FullAdministrator, Admin!Permissions
    <2>3. \A r \in Requests : CallSound(r, call[r])'
      BY <2>1 DEF CallSound, Admin!Idle
    <2>4. QED
      BY <2>1, <2>2, <2>3, IdleSound DEF AdminInv, CallsSound
  <1>2. CASE Admin!BootstrapAdministrator
    <2>1. PICK u \in Users : acct' = [acct EXCEPT ![u] = [role |-> "administrator", enabled |-> TRUE,
                                                         cred |-> "active", access |-> "all"]]
      BY <1>2 DEF Admin!BootstrapAdministrator, Admin!Admin
    <2>2. (\A v \in Users : ~Admin!Exists(v)) /\ UNCHANGED <<profiles, bindings, lease, call, excess>>
      BY <1>2 DEF Admin!BootstrapAdministrator
    <2>3. TRUE \in BOOLEAN
      OBVIOUS
    <2>4. /\ acct' \in [Users -> AccountRows] /\ acct'[u].role = "administrator" /\ acct'[u].access = "all"
          /\ Acting(acct'[u]) /\ \A v \in Users \ {u} : acct'[v] = acct[v]
      BY <1>0, <2>1, <2>3 DEF AccountRows, Roles, Accesses, Acting
    <2>5. RegistrySound'
      BY <1>0, <2>2, <2>4 DEF RegistrySound, Admin!Exists, Admin!AccessAllowed
    <2>6. bindings'[u] = 0
      BY <1>0, <2>2 DEF RegistrySound
    <2>7. Admin!Guard(acct', profiles', bindings')
      BY <2>4, <2>6, GuardMeans
    <2>8. \A r \in Requests : call[r].at = "idle"
      BY <1>0, <2>2 DEF CallsSound, CallSound
    <2>9. \A r \in Requests : CallSound(r, call[r])'
      BY <2>2, <2>8, IdleSound DEF CallSound, CallsSound
    <2>10. QED
      BY <1>0, <2>2, <2>5, <2>7, <2>9 DEF AdminInv, CallsSound, Admin!SomebodyAdministers, Admin!Guard
  <1>3. QED
    BY <1>1, <1>2

\* An account whose role and limits stay has the permissions it had.
LEMMA SameRole ==
  ASSUME NEW row, NEW old, NEW prof, NEW b, row.role = old.role
  PROVE  Admin!Permissions(row, prof, b) = Admin!Permissions(old, prof, b)
  BY DEF Admin!Permissions

LEMMA NoGain ==
  ASSUME NEW r, ~excess, Admin!Gains(r),
         \A u \in Users : Admin!Permissions(acct'[u], profiles', bindings'[u])
                            \subseteq (Admin!Effective(u) \cup Admin!Holds(r))
  PROVE  ~excess'
  BY DEF Admin!Gains

\* The writes of a route that holds the lease since it checked.
LEMMA UpdateKeeps ==
  ASSUME AdminInv, NEW r \in Requests, Admin!Update(r) PROVE AdminInv'
  <1>0. /\ RegistrySound /\ CallSound(r, call[r]) /\ call[r] \in CallRows /\ acct \in [Users -> AccountRows]
        /\ ~excess /\ Admin!SomebodyAdministers
    BY DEF AdminInv, CallsSound, RegistrySound
  <1>1. PICK c \in CallRows : c = call[r]
    BY <1>0
  <1>2. /\ c.at = "checked" /\ c.op = "update" /\ UNCHANGED <<profiles, bindings>> /\ Admin!Gains(r)
        /\ call' = [call EXCEPT ![r] = Admin!Idle]
    BY <1>1 DEF Admin!Update, Admin!At, Admin!Done
  <1>3. /\ c.user \in Users /\ c.role \in Roles /\ Admin!Exists(c.user) /\ lease = r
        /\ RemainsWith(c.user, Admin!Changed(c.user, c.role, c.enabled))
        /\ c.role # acct[c.user].role => Admin!Granted(r, Admin!BASE_PERMISSIONS[c.role])
        /\ c.access # "none" => Admin!AccessAllowed(c.role, c.access)
        /\ c.access \in Accesses \cup {"none"} /\ c.enabled \in BOOLEAN
    BY <1>0, <1>1, <1>2 DEF CallSound, WillKeep, WillGrant, CallRows
  <1>4. PICK new : new = [Admin!Changed(c.user, c.role, c.enabled) EXCEPT
                            !.access = IF c.access # "none" THEN c.access
                                       ELSE IF c.role = Admin!Admin /\ acct[c.user].role # Admin!Admin THEN "all" ELSE @]
    OBVIOUS
  <1>5. acct' = acct \/ acct' = [acct EXCEPT ![c.user] = new]
    BY <1>1, <1>4 DEF Admin!Update
  <1>6. Admin!Changed(c.user, c.role, c.enabled) \in AccountRows
    BY <1>0, <1>3 DEF Admin!Changed, AccountRows
  <1>7. /\ new \in AccountRows /\ new.role = c.role
        /\ Acting(Admin!Changed(c.user, c.role, c.enabled)) => Acting(new)
    BY <1>3, <1>4, <1>6 DEF AccountRows, Admin!Changed, Accesses, Acting
  <1>8. Admin!AccessAllowed(new.role, new.access)
    <2>1. acct[c.user] \in AccountRows /\ Admin!AccessAllowed(acct[c.user].role, acct[c.user].access)
      BY <1>0, <1>3 DEF RegistrySound
    <2>2. QED
      BY <1>3, <1>4, <1>6, <1>7, <2>1 DEF Admin!AccessAllowed, Admin!Changed, AccountRows
  <1>9. acct' \in [Users -> AccountRows] /\ \A u \in Users \ {c.user} : acct'[u] = acct[u]
    BY <1>0, <1>5, <1>7
  <1>10. acct'[c.user] = acct[c.user] \/ acct'[c.user] = new
    BY <1>0, <1>3, <1>5
  <1>11. RegistrySound' /\ \A u \in Users : Admin!Exists(u) => Admin!Exists(u)'
    <2>1. new.role # "none"
      BY <1>3, <1>7 DEF Roles
    <2>2. QED
      BY <1>0, <1>2, <1>3, <1>8, <1>9, <1>10, <2>1 DEF RegistrySound, Admin!Exists, Admin!AccessAllowed
  <1>12. Admin!Guard(acct', profiles', bindings')
    <2>1. CASE acct' = acct
      BY <1>0, <1>2, <1>3, <2>1 DEF Admin!SomebodyAdministers, Admin!Guard
    <2>2. CASE acct' = [acct EXCEPT ![c.user] = new]
      <3>1. Admin!Guard([acct EXCEPT ![c.user] = Admin!Changed(c.user, c.role, c.enabled)], profiles, bindings)
        BY <1>3 DEF RemainsWith
      <3>2. acct \in [Users -> AccountRows] /\ c.user \in Users
        BY <1>0, <1>3
      <3>3. PICK v \in Users : /\ Acting(IF v = c.user THEN Admin!Changed(c.user, c.role, c.enabled) ELSE acct[v])
                               /\ bindings[v] = 0 \/ Admin!PERMISSIONS \subseteq profiles[bindings[v]].permissions
        BY <3>1, <3>2, RemainsMeans
      <3>4. Acting(IF v = c.user THEN new ELSE acct[v])
        BY <1>7, <3>3
      <3>5. Admin!Guard([acct EXCEPT ![c.user] = new], profiles, bindings)
        BY <3>2, <3>3, <3>4, RemainsMeans
      <3>6. QED
        BY <1>2, <2>2, <3>5
    <2>3. QED
      BY <1>5, <2>1, <2>2
  <1>13. ~excess'
    <2>1. ASSUME NEW u \in Users
          PROVE  Admin!Permissions(acct'[u], profiles', bindings'[u]) \subseteq (Admin!Effective(u) \cup Admin!Holds(r))
      <3>1. CASE acct'[u].role = acct[u].role
        <4>1. Admin!Permissions(acct'[u], profiles, bindings[u]) = Admin!Effective(u)
          BY <3>1, SameRole DEF Admin!Effective
        <4>2. QED
          BY <1>2, <4>1
      <3>2. CASE acct'[u].role # acct[u].role
        <4>1. u = c.user /\ acct'[u].role = c.role /\ c.role # acct[c.user].role
          BY <1>7, <1>9, <1>10, <3>2
        <4>2. Admin!BASE_PERMISSIONS[c.role] \subseteq Admin!Holds(r)
          BY <1>3, <4>1 DEF Admin!Granted
        <4>3. Admin!Permissions(acct'[u], profiles', bindings'[u]) \subseteq Admin!BASE_PERMISSIONS[c.role]
          BY <4>1 DEF Admin!Permissions
        <4>4. QED
          BY <4>2, <4>3
      <3>3. QED
        BY <3>1, <3>2
    <2>2. QED
      BY <1>0, <1>2, <2>1, NoGain
  <1>14. CallSound(r, Admin!Idle)'
    BY DEF CallSound, Admin!Idle
  <1>15. QED
    BY <1>2, <1>3, <1>11, <1>12, <1>13, <1>14, IdleSound, RouteKeeps

LEMMA ResetKeeps ==
  ASSUME AdminInv, NEW r \in Requests, Admin!Reset(r) PROVE AdminInv'
  <1>0. /\ RegistrySound /\ CallSound(r, call[r]) /\ call[r] \in CallRows /\ acct \in [Users -> AccountRows]
        /\ ~excess /\ Admin!SomebodyAdministers
    BY DEF AdminInv, CallsSound, RegistrySound
  <1>1. PICK c \in CallRows : c = call[r]
    BY <1>0
  <1>2. /\ c.at = "checked" /\ c.op = "reset" /\ UNCHANGED <<profiles, bindings, excess>>
        /\ call' = [call EXCEPT ![r] = Admin!Idle]
        /\ acct' = acct \/ acct' = [acct EXCEPT ![c.user].cred = "pending"]
    BY <1>1 DEF Admin!Reset, Admin!At, Admin!Done
  <1>3. /\ c.user \in Users /\ Admin!Exists(c.user) /\ lease = r
        /\ RemainsWith(c.user, [acct[c.user] EXCEPT !.enabled = FALSE])
    BY <1>0, <1>1, <1>2 DEF CallSound, WillKeep
  <1>4. /\ acct' \in [Users -> AccountRows] /\ \A u \in Users \ {c.user} : acct'[u] = acct[u]
        /\ acct'[c.user].role = acct[c.user].role /\ acct'[c.user].access = acct[c.user].access
    BY <1>0, <1>2, <1>3 DEF AccountRows
  <1>5. RegistrySound' /\ \A u \in Users : Admin!Exists(u) => Admin!Exists(u)'
    BY <1>0, <1>2, <1>3, <1>4 DEF RegistrySound, Admin!Exists, Admin!AccessAllowed
  <1>6. Admin!Guard(acct', profiles', bindings')
    <2>1. Admin!Guard([acct EXCEPT ![c.user] = [acct[c.user] EXCEPT !.enabled = FALSE]], profiles, bindings)
      BY <1>3 DEF RemainsWith
    <2>2. acct \in [Users -> AccountRows] /\ c.user \in Users
      BY <1>0, <1>3
    <2>3. PICK v \in Users : /\ Acting(IF v = c.user THEN [acct[c.user] EXCEPT !.enabled = FALSE] ELSE acct[v])
                             /\ bindings[v] = 0 \/ Admin!PERMISSIONS \subseteq profiles[bindings[v]].permissions
      BY <2>1, <2>2, RemainsMeans
    <2>4. ~Acting([acct[c.user] EXCEPT !.enabled = FALSE])
      BY <2>2 DEF Acting, AccountRows
    <2>5. v # c.user /\ Acting(acct'[v])
      BY <1>4, <2>3, <2>4
    <2>6. QED
      BY <1>2, <2>3, <2>5, GuardMeans
  <1>7. CallSound(r, Admin!Idle)' /\ ~excess'
    BY <1>0, <1>2 DEF CallSound, Admin!Idle
  <1>8. QED
    BY <1>2, <1>3, <1>5, <1>6, <1>7, IdleSound, RouteKeeps

\* Role profiles, which the routes change on the event loop.
LEMMA ProfilesKeep ==
  ASSUME AdminInv, NEW r \in Requests, Admin!Upsert(r) \/ Admin!Delete(r) PROVE AdminInv'
  <1>0. /\ RegistrySound /\ CallSound(r, call[r]) /\ call[r] \in CallRows /\ acct \in [Users -> AccountRows]
        /\ profiles \in [Profiles -> ProfileRows] /\ bindings \in [Users -> Profiles \cup {0}] /\ ~excess
    BY DEF AdminInv, CallsSound, RegistrySound
  <1>1. /\ UNCHANGED <<acct, bindings>> /\ call' = [call EXCEPT ![r] = Admin!Idle] /\ lease = r
    BY <1>0 DEF Admin!Upsert, Admin!Delete, Admin!Done, Admin!At, CallSound
  <1>2. CallSound(r, Admin!Idle)'
    BY DEF CallSound, Admin!Idle
  <1>3. ASSUME profiles' \in [Profiles -> ProfileRows],
               \A p \in Profiles : profiles'[p].base = "none" => profiles'[p] = Admin!NoProfile,
               Admin!Guard(acct', profiles', bindings'), ~excess'
        PROVE  AdminInv'
    <2>1. RegistrySound' /\ \A u \in Users : Admin!Exists(u) => Admin!Exists(u)'
      BY <1>0, <1>1, <1>3 DEF RegistrySound, Admin!Exists, Admin!AccessAllowed
    <2>2. QED
      BY <1>1, <1>2, <1>3, <2>1, IdleSound, RouteKeeps
  <1>4. CASE Admin!Upsert(r)
    <2>1. PICK p \in Profiles, base \in Roles, permissions \in SUBSET Admin!PERMISSIONS :
            /\ profiles' = [profiles EXCEPT ![p] = [base |-> base, permissions |-> permissions]]
            /\ Admin!Granted(r, permissions)
            /\ Admin!Guard(acct, [profiles EXCEPT ![p] = [base |-> base, permissions |-> permissions]], bindings)
      BY <1>4 DEF Admin!Upsert, Roles, Admin!Admin, Admin!Viewer
    <2>2. /\ profiles' \in [Profiles -> ProfileRows] /\ profiles'[p].permissions = permissions
          /\ profiles'[p].base # "none" /\ \A q \in Profiles \ {p} : profiles'[q] = profiles[q]
      BY <1>0, <2>1 DEF ProfileRows, Roles
    <2>3. \A q \in Profiles : profiles'[q].base = "none" => profiles'[q] = Admin!NoProfile
      BY <1>0, <2>2 DEF RegistrySound
    <2>4. Admin!Guard(acct', profiles', bindings')
      BY <1>1, <2>1
    <2>5. ASSUME NEW u \in Users
          PROVE  Admin!Permissions(acct'[u], profiles', bindings'[u]) \subseteq (Admin!Effective(u) \cup Admin!Holds(r))
      <3>1. CASE bindings[u] = p
        <4>1. p # 0
          BY AdministrationAssumption
        <4>2. Admin!Permissions(acct'[u], profiles', bindings'[u]) \subseteq permissions
          BY <1>1, <2>2, <3>1, <4>1 DEF Admin!Permissions
        <4>3. QED
          BY <2>1, <4>2 DEF Admin!Granted
      <3>2. CASE bindings[u] # p
        <4>1. bindings[u] # 0 => profiles'[bindings[u]] = profiles[bindings[u]]
          BY <1>0, <2>2, <3>2
        <4>2. Admin!Permissions(acct'[u], profiles', bindings'[u]) = Admin!Effective(u)
          BY <1>1, <4>1 DEF Admin!Permissions, Admin!Effective
        <4>3. QED
          BY <4>2
      <3>3. QED
        BY <3>1, <3>2
    <2>6. ~excess'
      BY <1>0, <1>4, <2>5, NoGain DEF Admin!Upsert
    <2>7. QED
      BY <1>3, <2>2, <2>3, <2>4, <2>6
  <1>5. CASE Admin!Delete(r)
    <2>1. PICK p \in Profiles : /\ profiles' = [profiles EXCEPT ![p] = Admin!NoProfile]
                                /\ Admin!Guard(acct, profiles', bindings)
      BY <1>5 DEF Admin!Delete
    <2>2. Admin!NoProfile \in ProfileRows
      BY DEF Admin!NoProfile, ProfileRows
    <2>3. /\ profiles' \in [Profiles -> ProfileRows] /\ profiles'[p] = Admin!NoProfile
          /\ \A q \in Profiles \ {p} : profiles'[q] = profiles[q]
      BY <1>0, <2>1, <2>2
    <2>4. \A q \in Profiles : profiles'[q].base = "none" => profiles'[q] = Admin!NoProfile
      BY <1>0, <2>3 DEF RegistrySound
    <2>5. Admin!Guard(acct', profiles', bindings') /\ ~excess'
      BY <1>0, <1>1, <1>5, <2>1 DEF Admin!Delete
    <2>6. QED
      BY <1>3, <2>3, <2>4, <2>5
  <1>6. QED
    BY <1>4, <1>5

\* assign writes the binding and then the account; an administrator remains in between, too.
LEMMA AssignBindingKeeps ==
  ASSUME AdminInv, NEW r \in Requests, Admin!AssignBinding(r) PROVE AdminInv'
  <1>0. /\ RegistrySound /\ CallSound(r, call[r]) /\ call \in [Requests -> CallRows] /\ call[r] \in CallRows
        /\ acct \in [Users -> AccountRows] /\ profiles \in [Profiles -> ProfileRows]
        /\ bindings \in [Users -> Profiles \cup {0}] /\ ~excess
    BY DEF AdminInv, CallsSound, RegistrySound
  <1>1. PICK u \in Users, p \in {0} \cup {q \in Profiles : profiles[q] # Admin!NoProfile} :
          /\ Admin!Exists(u) /\ Admin!Granted(r, Admin!Gives(u, p))
          /\ Admin!Guard([acct EXCEPT ![u].role = Admin!RoleUnder(u, p)], profiles, [bindings EXCEPT ![u] = p])
          /\ bindings' = [bindings EXCEPT ![u] = p]
          /\ call' = [call EXCEPT ![r] = [call[r] EXCEPT !.at = "checked", !.user = u, !.role = Admin!RoleUnder(u, p)]]
    BY DEF Admin!AssignBinding
  <1>2. /\ call[r].at = "leased" /\ call[r].op = "assign" /\ UNCHANGED <<acct, profiles, lease>> /\ Admin!Gains(r)
        /\ lease = r /\ call[r].actor \in Users /\ Admin!Exists(call[r].actor)
    BY <1>0 DEF Admin!AssignBinding, Admin!At, CallSound
  <1>3. PICK role : role = Admin!RoleUnder(u, p)
    OBVIOUS
  <1>4. role \in Roles /\ (p = 0 => role = acct[u].role)
    BY <1>0, <1>1, <1>3 DEF Admin!RoleUnder, RegistrySound, AccountRows, ProfileRows, Admin!Exists
  <1>5. PICK row : row = [call[r] EXCEPT !.at = "checked", !.user = u, !.role = role]
    OBVIOUS
  <1>6. /\ row \in CallRows /\ row.at = "checked" /\ row.user = u /\ row.role = role /\ row.op = "assign"
        /\ row.actor = call[r].actor
    BY <1>0, <1>2, <1>4, <1>5 DEF CallRows
  <1>7. call' = [call EXCEPT ![r] = row] /\ call'[r] = row
    BY <1>0, <1>1, <1>3, <1>5
  <1>8. /\ bindings' \in [Users -> Profiles \cup {0}] /\ bindings'[u] = p
        /\ \A v \in Users \ {u} : bindings'[v] = bindings[v]
    BY <1>0, <1>1
  <1>9. RegistrySound' /\ \A v \in Users : Admin!Exists(v) => Admin!Exists(v)'
    BY <1>0, <1>1, <1>2, <1>8 DEF RegistrySound, Admin!Exists, Admin!AccessAllowed
  <1>10. [acct EXCEPT ![u].role = role] = [acct EXCEPT ![u] = [acct[u] EXCEPT !.role = role]]
    BY <1>0
  <1>11. Admin!Guard([acct EXCEPT ![u] = [acct[u] EXCEPT !.role = role]], profiles, bindings')
    BY <1>1, <1>3, <1>10
  <1>12. PICK v \in Users : /\ Acting(IF v = u THEN [acct[u] EXCEPT !.role = role] ELSE acct[v])
                            /\ bindings'[v] = 0 \/ Admin!PERMISSIONS \subseteq profiles[bindings'[v]].permissions
    <2>1. acct \in [Users -> AccountRows] /\ u \in Users
      BY <1>0
    <2>2. QED
      BY <1>11, <2>1, RemainsMeans
  \* Whoever was a full administrator still is, unless it is the account the profile is for.
  <1>13. Admin!Guard(acct', profiles', bindings')
    <2>1. Admin!Guard(acct, profiles, bindings)
      BY <1>1 DEF AdminInv, Admin!SomebodyAdministers, Admin!Guard
    <2>2. PICK w \in Users : /\ Acting(acct[w])
                             /\ bindings[w] = 0 \/ Admin!PERMISSIONS \subseteq profiles[bindings[w]].permissions
      BY <2>1, GuardMeans
    <2>3. CASE w # u
      BY <1>2, <1>8, <2>2, <2>3, GuardMeans
    <2>4. CASE v # u
      BY <1>2, <1>12, <2>4, GuardMeans
    <2>5. CASE w = u /\ v = u
      BY <1>2, <1>12, <2>2, <2>5, GuardMeans
    <2>6. QED
      BY <2>3, <2>4, <2>5
  <1>14. ASSUME p # 0 PROVE profiles[p].permissions \subseteq Admin!Holds(r)
    BY <1>1, <1>14 DEF Admin!Granted, Admin!Gives
  <1>15. ~excess'
    <2>1. ASSUME NEW w \in Users
          PROVE  Admin!Permissions(acct'[w], profiles', bindings'[w]) \subseteq (Admin!Effective(w) \cup Admin!Holds(r))
      <3>1. CASE w # u
        <4>1. Admin!Permissions(acct'[w], profiles', bindings'[w]) = Admin!Effective(w)
          BY <1>2, <1>8, <3>1 DEF Admin!Effective
        <4>2. QED
          BY <4>1
      <3>2. CASE w = u /\ p = 0
        <4>1. Admin!Permissions(acct[u], profiles, p) \subseteq Admin!BASE_PERMISSIONS[acct[u].role]
          BY <3>2 DEF Admin!Permissions
        <4>2. Admin!BASE_PERMISSIONS[acct[u].role] \subseteq Admin!Holds(r)
          BY <1>1, <3>2 DEF Admin!Granted, Admin!Gives
        <4>3. QED
          BY <1>2, <1>8, <3>2, <4>1, <4>2
      <3>3. CASE w = u /\ p # 0
        <4>1. Admin!Permissions(acct[u], profiles, p) \subseteq profiles[p].permissions
          BY <3>3 DEF Admin!Permissions
        <4>2. QED
          BY <1>2, <1>8, <1>14, <3>3, <4>1
      <3>4. QED
        BY <3>1, <3>2, <3>3
    <2>2. QED
      BY <1>0, <1>2, <2>1, NoGain
  <1>16. WillGrant(r, row)'
    <2>1. ASSUME role # acct[u].role
          PROVE  bindings'[u] # 0 /\ profiles'[bindings'[u]].permissions \subseteq Admin!Holds(r)'
      <3>1. p # 0 /\ p \in Profiles
        BY <1>4, <2>1
      <3>2. profiles[p].permissions \subseteq Admin!PERMISSIONS
        BY <1>0, <3>1 DEF ProfileRows
      <3>3. Admin!BASE_PERMISSIONS["administrator"] = Admin!PERMISSIONS
        BY DEF Admin!BASE_PERMISSIONS, Admin!Admin
      <3>4. Admin!Holds(r)' = Admin!Permissions([role |-> "administrator"], profiles, bindings'[call[r].actor])
        BY <1>2, <1>6, <1>7 DEF Admin!Holds, Admin!Permissions, Admin!Admin
      <3>5. Admin!Holds(r) = Admin!Permissions([role |-> "administrator"], profiles, bindings[call[r].actor])
        BY DEF Admin!Holds, Admin!Admin
      <3>6. CASE call[r].actor = u
        <4>1. Admin!Holds(r)' = Admin!PERMISSIONS \cap profiles[p].permissions
          BY <1>8, <3>1, <3>3, <3>4, <3>6 DEF Admin!Permissions
        <4>2. QED
          BY <1>2, <1>8, <3>1, <3>2, <4>1
      <3>7. CASE call[r].actor # u
        <4>1. Admin!Holds(r)' = Admin!Holds(r)
          BY <1>2, <1>8, <3>4, <3>5, <3>7
        <4>2. QED
          BY <1>2, <1>8, <1>14, <3>1, <4>1
      <3>8. QED
        BY <3>6, <3>7
    <2>2. QED
      BY <1>2, <1>6, <2>1 DEF WillGrant, Admin!Granted
  <1>17. WillKeep(row)'
    <2>1. RemainsWith(u, [acct[u] EXCEPT !.role = role])'
      BY <1>2, <1>11 DEF RemainsWith
    <2>2. QED
      BY <1>6, <2>1 DEF WillKeep
  <1>18. CallSound(r, row)'
    BY <1>1, <1>2, <1>4, <1>6, <1>9, <1>16, <1>17 DEF CallSound
  <1>19. QED
    BY <1>2, <1>6, <1>7, <1>9, <1>13, <1>15, <1>18, RouteKeeps

LEMMA AssignAccountKeeps ==
  ASSUME AdminInv, NEW r \in Requests, Admin!AssignAccount(r) PROVE AdminInv'
  <1>0. /\ RegistrySound /\ CallSound(r, call[r]) /\ call[r] \in CallRows /\ acct \in [Users -> AccountRows]
        /\ ~excess /\ Admin!SomebodyAdministers
    BY DEF AdminInv, CallsSound, RegistrySound
  <1>1. PICK c \in CallRows : c = call[r]
    BY <1>0
  <1>2. /\ c.at = "checked" /\ c.op = "assign" /\ UNCHANGED <<profiles, bindings>> /\ Admin!Gains(r)
        /\ call' = [call EXCEPT ![r] = Admin!Idle]
    BY <1>1 DEF Admin!AssignAccount, Admin!At, Admin!Done
  <1>3. /\ c.user \in Users /\ c.role \in Roles /\ Admin!Exists(c.user) /\ lease = r
        /\ RemainsWith(c.user, [acct[c.user] EXCEPT !.role = c.role])
        /\ c.role # acct[c.user].role =>
             bindings[c.user] # 0 /\ Admin!Granted(r, profiles[bindings[c.user]].permissions)
    BY <1>0, <1>1, <1>2 DEF CallSound, WillKeep, WillGrant
  <1>4. PICK new : new = [acct[c.user] EXCEPT !.role = c.role,
                                              !.access = IF c.role = "administrator" THEN "all" ELSE @]
    OBVIOUS
  <1>5. acct' = acct \/ acct' = [acct EXCEPT ![c.user] = new]
    <2>1. acct' = acct \/ acct' = [acct EXCEPT ![c.user].role = c.role,
                                               ![c.user].access = IF c.role = "administrator" THEN "all" ELSE @]
      BY <1>1 DEF Admin!AssignAccount, Admin!Admin
    <2>2. QED
      BY <1>0, <1>3, <1>4, <2>1 DEF AccountRows
  <1>6. acct[c.user] \in AccountRows /\ [acct[c.user] EXCEPT !.role = c.role] \in AccountRows
    BY <1>0, <1>3 DEF AccountRows
  <1>7. /\ new \in AccountRows /\ new.role = c.role
        /\ Acting([acct[c.user] EXCEPT !.role = c.role]) => Acting(new)
        /\ Admin!AccessAllowed(new.role, new.access)
    BY <1>3, <1>4, <1>6 DEF AccountRows, Accesses, Acting, Admin!AccessAllowed, Admin!Admin
  <1>8. acct' \in [Users -> AccountRows] /\ \A u \in Users \ {c.user} : acct'[u] = acct[u]
    BY <1>0, <1>5, <1>7
  <1>9. acct'[c.user] = acct[c.user] \/ acct'[c.user] = new
    BY <1>0, <1>3, <1>5
  <1>10. RegistrySound' /\ \A u \in Users : Admin!Exists(u) => Admin!Exists(u)'
    <2>1. new.role # "none"
      BY <1>3, <1>7 DEF Roles
    <2>2. QED
      BY <1>0, <1>2, <1>3, <1>7, <1>8, <1>9, <2>1 DEF RegistrySound, Admin!Exists, Admin!AccessAllowed
  <1>11. Admin!Guard(acct', profiles', bindings')
    <2>1. CASE acct' = acct
      BY <1>0, <1>2, <1>3, <2>1 DEF Admin!SomebodyAdministers, Admin!Guard
    <2>2. CASE acct' = [acct EXCEPT ![c.user] = new]
      <3>1. Admin!Guard([acct EXCEPT ![c.user] = [acct[c.user] EXCEPT !.role = c.role]], profiles, bindings)
        BY <1>3 DEF RemainsWith
      <3>2. acct \in [Users -> AccountRows] /\ c.user \in Users
        BY <1>0, <1>3
      <3>3. PICK v \in Users : /\ Acting(IF v = c.user THEN [acct[c.user] EXCEPT !.role = c.role] ELSE acct[v])
                               /\ bindings[v] = 0 \/ Admin!PERMISSIONS \subseteq profiles[bindings[v]].permissions
        BY <3>1, <3>2, RemainsMeans
      <3>4. Acting(IF v = c.user THEN new ELSE acct[v])
        BY <1>7, <3>3
      <3>5. Admin!Guard([acct EXCEPT ![c.user] = new], profiles, bindings)
        BY <3>2, <3>3, <3>4, RemainsMeans
      <3>6. QED
        BY <1>2, <2>2, <3>5
    <2>3. QED
      BY <1>5, <2>1, <2>2
  <1>12. ~excess'
    <2>1. ASSUME NEW u \in Users
          PROVE  Admin!Permissions(acct'[u], profiles', bindings'[u]) \subseteq (Admin!Effective(u) \cup Admin!Holds(r))
      <3>1. CASE acct'[u].role = acct[u].role
        <4>1. Admin!Permissions(acct'[u], profiles, bindings[u]) = Admin!Effective(u)
          BY <3>1, SameRole DEF Admin!Effective
        <4>2. QED
          BY <1>2, <4>1
      <3>2. CASE acct'[u].role # acct[u].role
        <4>1. u = c.user /\ c.role # acct[c.user].role
          BY <1>7, <1>8, <1>9, <3>2
        <4>2. bindings[u] # 0 /\ profiles[bindings[u]].permissions \subseteq Admin!Holds(r)
          BY <1>3, <4>1 DEF Admin!Granted
        <4>3. Admin!Permissions(acct'[u], profiles', bindings'[u]) \subseteq profiles[bindings[u]].permissions
          BY <1>2, <4>2 DEF Admin!Permissions
        <4>4. QED
          BY <4>2, <4>3
      <3>3. QED
        BY <3>1, <3>2
    <2>2. QED
      BY <1>0, <1>2, <2>1, NoGain
  <1>13. CallSound(r, Admin!Idle)'
    BY DEF CallSound, Admin!Idle
  <1>14. QED
    BY <1>2, <1>3, <1>10, <1>11, <1>12, <1>13, IdleSound, RouteKeeps

-----------------------------------------------------------------------------
\* The routes of several administrators, overlapping, cancelled and cut off by the end of the
\* program, keep what each of them has checked: the invariant of the administration.
THEOREM AdministrationInvariant == PartSpec => []AdminInv
  <1>1. PartInit => AdminInv
    <2>1. SUFFICES ASSUME Admin!AdmInit PROVE AdminInv
      BY DEF PartInit
    <2>2. FALSE \in BOOLEAN
      OBVIOUS
    <2>3. Admin!NoUser \in AccountRows /\ Admin!NoProfile \in ProfileRows /\ Admin!NoUser.role = "none"
      BY <2>2 DEF Admin!NoUser, Admin!NoProfile, AccountRows, ProfileRows, Accesses
    <2>4. /\ acct = [u \in Users |-> Admin!NoUser] /\ profiles = [p \in Profiles |-> Admin!NoProfile]
          /\ bindings = [u \in Users |-> 0] /\ call = [r \in Requests |-> Admin!Idle]
      BY <2>1, Zenon DEF Admin!AdmInit
    <2>5. ~excess
      BY <2>1, Zenon DEF Admin!AdmInit
    <2>6. RegistrySound
      BY <2>3, <2>4 DEF RegistrySound, Admin!Exists
    <2>7. CallsSound
      BY <2>4, IdleSound DEF CallsSound
    <2>8. Admin!SomebodyAdministers
      BY <2>3, <2>4 DEF Admin!SomebodyAdministers, Admin!Exists
    <2>9. QED
      BY <2>5, <2>6, <2>7, <2>8 DEF AdminInv
  <1>2. AdminInv /\ [PartNext]_sumvars => AdminInv'
    <2>1. SUFFICES ASSUME AdminInv, [PartNext]_sumvars PROVE AdminInv'
      OBVIOUS
    <2>2. CASE UNCHANGED administration
      <3>1. UNCHANGED <<acct, profiles, bindings, lease, call, excess>>
        BY <2>2 DEF administration
      <3>2. RegistrySound' /\ Admin!SomebodyAdministers' /\ ~excess'
        BY <2>1, <3>1 DEF AdminInv, RegistrySound, Admin!Exists, Admin!AccessAllowed, Admin!SomebodyAdministers,
           Admin!FullAdministrator, Admin!Permissions
      <3>3. ASSUME NEW s \in Requests PROVE CallSound(s, call[s])'
        BY <2>1, <3>1, OtherCalls DEF AdminInv, RegistrySound, Admin!Exists
      <3>4. QED
        BY <2>1, <3>1, <3>2, <3>3 DEF AdminInv, CallsSound
    <2>3. CASE Admin!AdmNext
      BY <2>1, <2>3, BeginningsKeep, ActivateKeeps, ChecksKeep, SteadyWritesKeep, UpdateKeeps, ResetKeeps,
         ProfilesKeep, AssignBindingKeeps, AssignAccountKeeps DEF Admin!AdmNext
    <2>4. QED
      BY <2>1, <2>2, <2>3 DEF PartNext, sumvars
  <1>3. QED
    BY <1>1, <1>2, PTL DEF PartSpec

\* Once the product is set up somebody can administer it, whatever profile is bound or changed,
\* whoever is demoted or reset and wherever the program dies; nobody is given a permission the
\* acting administrator does not hold; and an administrator sees every camera.
THEOREM AdministrationStaysSound == PartSpec => []AdministrationSound
  <1>1. AdminInv => AdministrationSound
    BY DEF AdminInv, RegistrySound, AdministrationSound, Admin!DelegationBounded
  <1>2. QED
    BY <1>1, AdministrationInvariant, PTL

=============================================================================

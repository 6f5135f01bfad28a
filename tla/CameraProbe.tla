----------------------------- MODULE CameraProbe ------------------------------
(***************************************************************************)
(* One probe of a camera: the ONVIF client's exchanges (anonymous clock    *)
(* reading, digest challenge, one recheck of the clock after a refusal,    *)
(* the fallbacks between the services) and the RTSP DESCRIBE of a direct   *)
(* stream.  The camera answers as it likes; an honest one checks the       *)
(* digest and the time in the message and may have its clock set once.     *)
(* Time is a number of exchanges; 0 is the host's clock.                   *)
(***************************************************************************)
EXTENDS Integers, FiniteSets

CONSTANTS Nonces, Clocks,     \* what the camera may use
          NumProfiles,
          Budget              \* bound: exchanges before the deadline

VARIABLES
  step,       \* which request of the probe
  secure,     \* require_secure
  honest,     \* whether the camera is
  at,         \* within a request: "send", "answer", "again" (sends once more), "refused"
  attempt,    \* 0 or 1
  code,       \* what _request came to
  media,      \* the media service: "own" scheme, "http", "https" or "foreign"
  challenge,  \* nonce of the last challenge, 0 for none
  nonceCount, \* nonce_count
  clockKnown, measured,   \* _camera_clock
  recheckUsed,\* _clock_recheck_used
  left,       \* exchanges before the deadline
  camClock, camNonce,     \* the camera
  changes,    \* times its clock was set
  excused,    \* history: the clock was not readable when rechecked, or was set after the refusal
  sent,       \* history: <<nonce, count>> of every authorization sent
  replayed,   \* history: one of them was sent twice
  exposed,    \* history: the account went where it must not
  listed,     \* profiles with an address
  result

camera == <<camClock, camNonce, changes>>
memory == <<challenge, nonceCount, clockKnown, measured, recheckUsed>>
history == <<excused, sent, replayed, exposed>>
place == <<step, at, attempt, code, media>>
probevars == <<place, secure, honest, memory, left, camera, history, listed, result>>

Steps == {"clock", "capabilities", "profiles", "services", "profiles2", "uri", "describe", "done"}

ProbeInit ==
  /\ step \in {"clock", "describe"} /\ secure \in BOOLEAN
  /\ honest \in IF step = "clock" THEN BOOLEAN ELSE {FALSE}
  /\ at = "send" /\ attempt = 0 /\ code = "none" /\ media = "own"
  /\ challenge = 0 /\ nonceCount = 0 /\ clockKnown = FALSE /\ measured = 0 /\ recheckUsed = FALSE
  /\ left = Budget /\ camClock \in Clocks /\ camNonce = 0 /\ changes = 0
  /\ excused = FALSE /\ sent = {} /\ replayed = FALSE /\ exposed = FALSE
  /\ listed = 0 /\ result = "none"

-----------------------------------------------------------------------------
(* The camera.                                                             *)

ClockSet == /\ changes = 0 /\ result = "none" /\ step # "describe"
            /\ \E c \in Clocks \ {camClock} : camClock' = c
            /\ changes' = 1 /\ excused' = (excused \/ recheckUsed \/ code = "auth_failed")
            /\ UNCHANGED <<place, secure, honest, memory, left, camNonce, sent, replayed, exposed, listed, result>>

\* _created_at: the time put into a message.
CreatedAt == IF clockKnown THEN measured ELSE 0
NoAnswer == {"unreachable", "invalid_response"}
Refusals == {"auth_failed", "unsupported"} \cup NoAnswer

-----------------------------------------------------------------------------
(* synchronize_clock, anonymous: at the start and when rechecked.          *)

ReadClock(ok) == /\ clockKnown' = (clockKnown \/ ok) /\ measured' = IF ok THEN camClock ELSE measured
Clock == /\ step = "clock" /\ left > 0 /\ left' = left - 1
         /\ \E ok \in BOOLEAN : ReadClock(ok)
         /\ step' = "capabilities" /\ at' = "send" /\ attempt' = 0
         /\ UNCHANGED <<code, media, secure, honest, challenge, nonceCount, recheckUsed, camera, history,
                        listed, result>>

-----------------------------------------------------------------------------
(* _request: at most two attempts, the second after a digest challenge.    *)

\* require_secure, and _endpoint for an address the camera gave.
Admitted == ~(secure /\ media = "http")
Target == IF step \in {"profiles", "profiles2", "uri"} THEN media ELSE "own"
NextCount(n) == nonceCount + 1
\* A message with the account, and an authorization once there is a challenge.
Sends == /\ exposed' = (exposed \/ Target = "foreign" \/ (secure /\ Target = "http"))
         /\ IF challenge = 0 THEN UNCHANGED <<nonceCount, sent, replayed>>
            ELSE LET use == <<challenge, NextCount(challenge)>>
                 IN /\ nonceCount' = use[2] /\ sent' = sent \cup {use}
                    /\ replayed' = (replayed \/ use \in sent)
Accepts == challenge = camNonce /\ challenge # 0 /\ CreatedAt = camClock
Challenged == /\ attempt = 0 /\ attempt' = 1 /\ UNCHANGED <<at, code>>
              /\ \E n \in Nonces : challenge' = n /\ camNonce' = n
Ends(c) == at' = "answer" /\ code' = c /\ UNCHANGED <<attempt, challenge, camNonce>>
CameraAnswers ==
  \/ /\ honest /\ Accepts
     /\ Ends("ok") \/ (step # "uri" /\ Ends("unsupported"))
  \/ honest /\ ~Accepts /\ (challenge # camNonce \/ challenge = 0) /\ Challenged
  \/ honest /\ ~Accepts /\ challenge = camNonce /\ challenge # 0 /\ Ends("auth_failed")
  \/ ~honest /\ (Challenged \/ \E c \in {"ok"} \cup Refusals : Ends(c))
Request == /\ step \in Steps \ {"clock", "describe", "done"} /\ at \in {"send", "again"}
           /\ IF left = 0 \/ (Target = media /\ ~Admitted)
              THEN /\ Ends(IF left = 0 THEN "unreachable" ELSE "invalid_response")
                   /\ UNCHANGED <<left, nonceCount, sent, replayed, exposed>>
              ELSE left' = left - 1 /\ Sends /\ CameraAnswers
           /\ UNCHANGED <<step, media, secure, honest, clockKnown, measured, recheckUsed, camClock, changes, excused,
                          listed, result>>

\* request: a refusal is looked at again once per probe, if the clock has moved.
NeverRecheck == FALSE
MayRecheck == code = "auth_failed" /\ ~recheckUsed
Recheck == /\ at = "answer" /\ step # "done" /\ MayRecheck /\ recheckUsed' = TRUE
           /\ IF left = 0 THEN /\ at' = "refused" /\ excused' = TRUE /\ UNCHANGED <<left, clockKnown, measured>>
              ELSE /\ left' = left - 1
                   /\ \E ok \in BOOLEAN :
                        /\ ReadClock(ok) /\ excused' = (excused \/ ~ok)
                        /\ at' = IF ok /\ camClock # CreatedAt THEN "again" ELSE "refused"
           /\ attempt' = 0 /\ code' = "auth_failed"
           /\ UNCHANGED <<step, media, secure, honest, challenge, nonceCount, camera, sent, replayed, exposed,
                          listed, result>>

-----------------------------------------------------------------------------
(* _probe_profiles: what each answer leads to.                             *)

Settled == at = "refused" \/ (at = "answer" /\ ~MayRecheck)
Goes(s, m) == step' = s /\ media' = m /\ at' = "send" /\ attempt' = 0 /\ code' = "none" /\ UNCHANGED <<listed, result>>
Fails(c) == step' = "done" /\ result' = c /\ UNCHANGED <<media, at, attempt, code, listed>>
\* _endpoint refuses an address that is not the camera's.
Given(s, own) == \/ Goes(s, own)
                 \/ \E m \in {"http", "https"} : Goes(s, m)
                 \/ Fails("invalid_response")
Capabilities == /\ step = "capabilities" /\ \/ code = "ok" /\ Given("profiles", "own")
                                            \/ code = "unsupported" /\ Goes("profiles", "own")
                                            \/ code \notin {"ok", "unsupported"} /\ Fails(code)
Profiles == /\ step = "profiles" /\ \/ code = "ok" /\ Goes("uri", media)
                                    \/ code = "unsupported" /\ Goes("services", "own")
                                    \/ code \notin {"ok", "unsupported"} /\ Fails(code)
Services == /\ step = "services" /\ \/ code = "ok" /\ Given("profiles2", "own")
                                    \/ code = "unsupported" /\ Goes("profiles2", "own")
                                    \/ code \notin {"ok", "unsupported"} /\ Fails(code)
Profiles2 == /\ step = "profiles2" /\ \/ code = "ok" /\ Goes("uri", media)
                                      \/ code # "ok" /\ Fails(code)
\* GetStreamUri for each profile; one without an address is skipped.
StreamUri == /\ step = "uri"
             /\ IF code \notin {"ok", "unsupported"} THEN Fails(code)
                ELSE \/ /\ listed' = IF code = "ok" THEN listed + 1 ELSE listed
                        /\ listed' < NumProfiles /\ at' = "send" /\ attempt' = 0 /\ code' = "none"
                        /\ UNCHANGED <<step, media, result>>
                     \/ /\ listed' = IF code = "ok" THEN listed + 1 ELSE listed
                        /\ step' = "done" /\ result' = IF listed' = 0 THEN "unsupported" ELSE "profiles"
                        /\ UNCHANGED <<media, at, attempt, code>>
                     \/ code = "ok" /\ Fails("invalid_response")
Proceed == /\ Settled /\ (Capabilities \/ Profiles \/ Services \/ Profiles2 \/ StreamUri)
           /\ UNCHANGED <<secure, honest, memory, left, camera, history>>

-----------------------------------------------------------------------------
(* RtspConnector.probe: one connection, two requests at most.              *)

\* _authorization of a digest challenge of a server that asks for one.
DescribeAuthorized == \E n \in Nonces : challenge' = n /\ camNonce' = n
Describe == /\ step = "describe" /\ at = "send"
            /\ IF left = 0 THEN /\ step' = "done" /\ result' = "unreachable"
                                /\ UNCHANGED <<at, attempt, left, nonceCount, sent, replayed, exposed, challenge,
                                               camNonce>>
               ELSE /\ left' = left - 1 /\ Sends
                    /\ \/ /\ attempt = 0 /\ attempt' = 1 /\ UNCHANGED <<step, result, at>>
                          /\ DescribeAuthorized
                       \/ /\ \E r \in {"profiles"} \cup Refusals : result' = r
                          /\ step' = "done" /\ UNCHANGED <<at, attempt, challenge, camNonce>>
            /\ UNCHANGED <<code, media, secure, honest, clockKnown, measured, recheckUsed, camClock, changes,
                           excused, listed>>

ProbeNext == ClockSet \/ Clock \/ Request \/ Recheck \/ Proceed \/ Describe
ProbeSpec == ProbeInit /\ [][ProbeNext]_probevars

-----------------------------------------------------------------------------
(* Properties.                                                             *)

\* A camera that knows the account is not reported as refusing it because its
\* clock was set during the probe or differs from the host's, as long as the
\* clock can be read when the refusal is looked at again and is not set after the refusal.
HonestNotRefused == honest /\ ~excused => result # "auth_failed"

\* No digest authorization is sent twice, although a nonce is used for several
\* requests and a camera may hand out the same nonce again.
NoAuthorizationReplayed == ~replayed

\* With require_secure the account only travels over TLS, whatever address the
\* camera gives for its media service.
AccountProtected == ~exposed

-----------------------------------------------------------------------------
(* What makes them inductive.                                              *)

ProbeType ==
  /\ secure \in BOOLEAN /\ honest \in BOOLEAN /\ clockKnown \in BOOLEAN /\ recheckUsed \in BOOLEAN
  /\ excused \in BOOLEAN /\ replayed \in BOOLEAN /\ exposed \in BOOLEAN
  /\ media \in {"own", "http", "https"} /\ nonceCount \in Nat
  /\ step = "describe" => ~honest
\* A camera that behaves refuses only a time that is not its own, and after the clock
\* was read again there is none.
RefusalsExplained ==
  honest /\ ~excused =>
    /\ at # "refused"
    /\ at = "answer" /\ code = "auth_failed" => ~recheckUsed /\ CreatedAt # camClock
    /\ recheckUsed => clockKnown /\ measured = camClock
\* The counts used so far are those below the counter.
CountsUsed == \A use \in sent : use[2] \in 1..nonceCount
ProbeInv ==
  /\ ProbeType /\ RefusalsExplained /\ CountsUsed
  /\ HonestNotRefused /\ NoAuthorizationReplayed /\ AccountProtected
=============================================================================

---------------------------- MODULE SecondFactor ----------------------------
(***************************************************************************)
(* The second factor of one account: enrolment of an authenticator app,    *)
(* sign-ins with its codes or with recovery codes, and their end.          *)
(*                                                                         *)
(* The handlers never await: each is one step of the loop. Two of them     *)
(* change the account in one transaction and sign its browsers out in      *)
(* another; they hold the loop in between, and may be cut off there.       *)
(* An app's code is <<secret, time step>>, a recovery code <<set, number>>; *)
(* secrets and sets share the numbers 1, 2, ...                            *)
(***************************************************************************)
EXTENDS Integers, FiniteSets

CONSTANTS
    Steps,          \* time steps (periods of 30 seconds), 0 .. some number
    MaxMade,        \* secrets and sets of recovery codes ever made
    RecoveryCodes,  \* RECOVERY_CODE_COUNT
    MaxAttempts,    \* CHALLENGE_MAX_ATTEMPTS
    Browsers,       \* where the user signs in
    Challenges      \* password accepted, code pending

ASSUME StepsAreNumbers == Steps \subseteq Nat
ASSUME MaxMadeType == MaxMade \in Nat
ASSUME AttemptsPositive == MaxAttempts \in Nat \ {0}

VARIABLES
    now,            \* the time step of the server's clock
    factor,         \* totp_enabled, totp_secret, totp_last_step, recovery_codes
    made,           \* secrets and sets made so far
    challenge,      \* ChallengeStore: wrong codes so far, or none
    browser,        \* the session of each browser, by what it was started with
    pending,        \* browsers that the handler on the loop has yet to sign out
    used, again     \* codes accepted so far; one was accepted twice (history)

factorVars == <<now, factor, made, challenge, browser, pending, used, again>>
signedIn == <<challenge, browser, pending>>
history == <<used, again>>

NoChallenge == -1
NoStep == -1
Off == [on |-> FALSE, secret |-> 0, last |-> NoStep, set |-> 0, left |-> {}]
Numbers == 1 .. RecoveryCodes

Factor == [on : BOOLEAN, secret : 0 .. MaxMade, last : Int, set : 0 .. MaxMade, left : SUBSET Numbers]

\* "left" is that of a browser that the handler enabling the factor was cut off from ending.
SessionKind == {"none", "password", "code", "left"}

\* Handlers run one at a time.
LoopFree == pending = {}

FactorTypeOK ==
    /\ now \in Steps
    /\ factor \in Factor
    /\ made \in 0 .. MaxMade
    /\ challenge \in [Challenges -> NoChallenge .. MaxAttempts - 1]
    /\ browser \in [Browsers -> SessionKind]
    /\ pending \subseteq Browsers
    /\ used \subseteq (1 .. MaxMade) \X Int
    /\ again \in BOOLEAN

\* matching_step: the codes of the last, this and the next step, later than `last`
Matches(c, last) == c \in now - 1 .. now + 1 /\ c > last

Accepts(code) ==
    /\ again' = (again \/ code \in used)
    /\ used' = used \cup {code}

\* Mutant of AppCode: records the step of the clock.
AppCodeNow(c) ==
    /\ factor.on /\ Matches(c, factor.last)
    /\ factor' = [factor EXCEPT !.last = now]
    /\ Accepts(<<factor.secret, c>>)

\* check_second_factor with a code of the app: claim_totp_step
AppCode(c) ==
    /\ factor.on /\ Matches(c, factor.last)
    /\ factor' = [factor EXCEPT !.last = c]
    /\ Accepts(<<factor.secret, c>>)

\* use_recovery_code
RecoveryCode(k) ==
    /\ factor.on /\ k \in factor.left
    /\ factor' = [factor EXCEPT !.left = @ \ {k}]
    /\ Accepts(<<factor.set, k>>)

SecondFactorChecked == (\E c \in now - 1 .. now + 1 : AppCode(c)) \/ (\E k \in Numbers : RecoveryCode(k))

-----------------------------------------------------------------------------
(* Signing in. *)

PasswordAlone(b) ==
    /\ ~factor.on
    /\ browser' = [browser EXCEPT ![b] = "password"]
    /\ UNCHANGED <<now, factor, made, challenge, pending, history>>

PasswordFirst(h) ==
    /\ factor.on /\ challenge[h] = NoChallenge
    /\ challenge' = [challenge EXCEPT ![h] = 0]
    /\ UNCHANGED <<now, factor, made, browser, pending, history>>

\* login_second_factor
CodeSecond(h, b) ==
    /\ challenge[h] # NoChallenge
    /\ SecondFactorChecked
    /\ challenge' = [challenge EXCEPT ![h] = NoChallenge]
    /\ browser' = [browser EXCEPT ![b] = "code"]
    /\ UNCHANGED <<now, made, pending>>

\* A code that is wrong, was used before, or comes after the factor was turned off.
WrongCode(h) ==
    /\ challenge[h] # NoChallenge
    /\ challenge' = [challenge EXCEPT ![h] = IF @ + 1 >= MaxAttempts THEN NoChallenge ELSE @ + 1]
    /\ UNCHANGED <<now, factor, made, browser, pending, history>>

\* CHALLENGE_TTL
ChallengeExpires(h) ==
    /\ challenge[h] # NoChallenge
    /\ challenge' = [challenge EXCEPT ![h] = NoChallenge]
    /\ UNCHANGED <<now, factor, made, browser, pending, history>>

SignsOut(b) ==
    /\ browser[b] # "none"
    /\ browser' = [browser EXCEPT ![b] = "none"]
    /\ UNCHANGED <<now, factor, made, challenge, pending, history>>

SigningIn ==
    /\ LoopFree
    /\ \/ \E b \in Browsers : PasswordAlone(b) \/ SignsOut(b)
       \/ \E h \in Challenges : PasswordFirst(h) \/ WrongCode(h) \/ ChallengeExpires(h)
       \/ \E h \in Challenges, b \in Browsers : CodeSecond(h, b)

-----------------------------------------------------------------------------
(* One's own second factor, from a browser that is signed in. *)

\* set_pending_totp; a setup started again replaces the secret.
StartTwoFactor(b) ==
    /\ browser[b] # "none" /\ ~factor.on /\ made < MaxMade
    /\ made' = made + 1
    /\ factor' = [factor EXCEPT !.secret = made + 1]
    /\ UNCHANGED <<now, signedIn, history>>

Enabled(c) == [factor EXCEPT !.on = TRUE, !.last = c, !.set = made + 1, !.left = Numbers]

\* Mutant of EnableTwoFactor: other browsers stay signed in.
EnableQuietly(b, c) ==
    /\ browser[b] # "none" /\ ~factor.on /\ factor.secret # 0 /\ made < MaxMade
    /\ Matches(c, NoStep)
    /\ factor' = Enabled(c) /\ made' = made + 1
    /\ Accepts(<<factor.secret, c>>)
    /\ browser' = [browser EXCEPT ![b] = "code"]
    /\ UNCHANGED <<now, challenge, pending>>

\* enable_totp; the other browsers are next.
EnableTwoFactor(b, c) ==
    /\ browser[b] # "none" /\ ~factor.on /\ factor.secret # 0 /\ made < MaxMade
    /\ Matches(c, NoStep)
    /\ factor' = Enabled(c) /\ made' = made + 1
    /\ Accepts(<<factor.secret, c>>)
    /\ browser' = [browser EXCEPT ![b] = "code"]
    /\ pending' = Browsers \ {b}
    /\ UNCHANGED <<now, challenge>>

RegenerateRecoveryCodes(b) ==
    /\ browser[b] # "none" /\ factor.on /\ made < MaxMade
    /\ factor' = [factor EXCEPT !.set = made + 1, !.left = Numbers] /\ made' = made + 1
    /\ UNCHANGED <<now, signedIn, history>>

\* disable_totp, after a code
DisableTwoFactor(b) ==
    /\ browser[b] # "none" /\ factor.on
    /\ \/ \E c \in now - 1 .. now + 1 : Matches(c, factor.last) /\ Accepts(<<factor.secret, c>>)
       \/ \E k \in factor.left : Accepts(<<factor.set, k>>)
    /\ factor' = Off
    /\ UNCHANGED <<now, made, signedIn>>

\* disable_totp by an administrator; all browsers are next.
ResetUserTwoFactor ==
    /\ factor' = Off
    /\ pending' = Browsers
    /\ UNCHANGED <<now, made, challenge, browser, history>>

Changing ==
    /\ LoopFree
    /\ \/ \E b \in Browsers :
             \/ StartTwoFactor(b) \/ RegenerateRecoveryCodes(b) \/ DisableTwoFactor(b)
             \/ \E c \in now - 1 .. now + 1 : EnableTwoFactor(b, c)
       \/ ResetUserTwoFactor

\* delete_user_sessions
SignedOut ==
    /\ ~LoopFree /\ pending' = {}
    /\ browser' = [b \in Browsers |-> IF b \in pending THEN "none" ELSE browser[b]]
    /\ UNCHANGED <<now, factor, made, challenge, history>>

\* What becomes of the browsers when it fails, or the process is killed before it.
CutOff ==
    /\ pending' = {}
    /\ browser' = [b \in Browsers |->
          IF factor.on /\ b \in pending /\ browser[b] = "password" THEN "left" ELSE browser[b]]

SignOutFails ==
    /\ ~LoopFree /\ CutOff
    /\ UNCHANGED <<now, factor, made, challenge, history>>

-----------------------------------------------------------------------------
\* The clock may be set back.
ClockMoves ==
    /\ now' \in Steps
    /\ UNCHANGED <<factor, made, signedIn, history>>

CodeComes == (\E h \in Challenges : challenge[h] # NoChallenge) \/ (\E b \in Browsers : browser[b] # "none")

\* The store of challenges is in memory. The process may be killed in a handler: before it signs
\* browsers out, or between claiming a code and what the code was for.
Restart ==
    /\ challenge' = [h \in Challenges |-> NoChallenge]
    /\ CutOff
    /\ UNCHANGED <<factor, history>> \/ (LoopFree /\ CodeComes /\ SecondFactorChecked)
    /\ UNCHANGED <<now, made>>

FactorInit ==
    /\ now \in Steps
    /\ factor = Off /\ made = 0
    /\ challenge = [h \in Challenges |-> NoChallenge]
    /\ browser = [b \in Browsers |-> "none"] /\ pending = {}
    /\ used = {} /\ again = FALSE

FactorNext == SigningIn \/ Changing \/ SignedOut \/ SignOutFails \/ ClockMoves \/ Restart

FactorSpec == FactorInit /\ [][FactorNext]_factorVars

-----------------------------------------------------------------------------
(* Properties. *)

\* No code is accepted twice: not the one that enabled the factor, not a code of the
\* step before after one of the next, not after a restart or a clock set back, and not
\* to turn the factor off (totp.py: matching_step, check_second_factor).
CodesOnce == ~again

\* While the factor is on, whoever is signed in gave a code: no sign-in gets past it, over
\* restarts and resets, and those who were signed in before are signed out by the request that
\* turned it on, unless that was cut off between its two transactions (users.py: enable_two_factor).
OnlyWithCode == factor.on /\ LoopFree => \A b \in Browsers : browser[b] # "password"
=============================================================================

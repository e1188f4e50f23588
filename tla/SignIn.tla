------------------------------- MODULE SignIn -------------------------------
(***************************************************************************)
(* Signing in to one account: its password, sessions, reset links,         *)
(* two-factor codes, passkeys and recovery codes.  A request is a handler  *)
(* of the website at work for a browser; it runs one statement or one      *)
(* transaction at a time, keeps what it has read in between, and answers   *)
(* by changing the cookies of its browser.                                 *)
(*                                                                         *)
(* Passwords and codes are not written out: a step that compares one is    *)
(* taken by somebody who knows the right one, or is refused.  Whether the  *)
(* password has changed since it was compared is what "age" keeps.         *)
(***************************************************************************)
EXTENDS Naturals, FiniteSets

CONSTANTS Browser,          \* the browsers, each with one cookie jar
          Request,          \* handlers that may be at work at the same time
          BrowserOf,        \* the browser a handler answers
          LoginSession,     \* the secrets of sessions
          Challenge,        \* the secrets of sign-ins that wait for a code
          Ceremony,         \* the secrets of WebAuthn ceremonies
          ResetLink,        \* the secrets of password reset links
          AppSecret,        \* secrets of authenticator apps
          Passkey,          \* passkeys the user may register
          RecoveryCode,     \* the codes of one set of recovery codes
          MaxCodeAttempts,  \* codes one challenge accepts (5 in the code)
          MaxCodeFailures,  \* wrong codes an hour that pause sign-ins (10)
          MaxPasskeys,      \* passkeys an account may have (10)
          MaxStep,          \* bound: the last time step of authenticator codes
          None              \* no secret, no cookie

ASSUME SignInConstants ==
  /\ BrowserOf \in [Request -> Browser]
  /\ MaxCodeAttempts \in Nat /\ MaxCodeFailures \in Nat /\ MaxPasskeys \in Nat /\ MaxStep \in Nat
  /\ None \notin LoginSession \cup Challenge \cup Ceremony \cup ResetLink \cup AppSecret
  /\ IsFiniteSet(Passkey) /\ IsFiniteSet(Request)
  /\ RecoveryCode \cap (1..MaxStep) = {}

VARIABLES alive,      \* the account's row in table users
          logins,     \* table sessions
          challenge,  \* table login_challenges
          ceremony,   \* table webauthn_ceremonies
          reset,      \* table password_resets
          pending,    \* the row of email_verifications for a new address
          app,        \* users.totp_secret, totp_enabled_at, totp_last_step (and two histories)
          passkey,    \* table passkeys
          recovery,   \* table recovery_codes
          failed,     \* wrong codes of the last hour in audit_log
          step,       \* the current time step
          cookie,     \* the cookies of each browser
          request,    \* what each handler is doing
          tried,      \* codes compared for each challenge
          uses        \* history: how often each code was accepted since the
                      \* app was turned on, or the recovery codes given out

factorVars == <<app, passkey, recovery, uses>>
pendingVars == <<challenge, ceremony, reset, pending, failed, tried>>
signInVars == <<alive, logins, pendingVars, factorVars, step, cookie, request>>

-----------------------------------------------------------------------------
(* Rows and requests.                                                      *)

\* "new": since the last change of the password; "kept": the session that
\* changed it; "late": its request had compared the old one when it changed;
\* "old": it was there before the change.
Age == {"new", "kept", "late", "old"}
NoChallenge == [age |-> "none", attempts |-> 0]
Kinds == {"register", "login", "second-factor"}
NoRequest == [at |-> "idle"]
NoCookies == [session |-> None, challenge |-> None, ceremony |-> None]

\* What a verified code is for.
Purpose == {"login", "disable", "delete"}
Ch == Challenge \cup {None}

Doing ==
  {NoRequest}
  \cup [at : {"signIn"}, twoFactor : BOOLEAN, late : BOOLEAN]
  \cup [at : {"count", "verify", "useRecovery", "wrong", "verified"}, for : Purpose, ch : Ch, late : BOOLEAN]
  \cup [at : {"useCode"}, for : Purpose, ch : Ch, late : BOOLEAN, code : 1..MaxStep]
  \cup [at : {"startSession", "passkeyChecked"}, ch : Ch, late : BOOLEAN]
  \cup [at : {"takeFactor", "assert"}, ch : Ch, late : BOOLEAN]
  \cup [at : {"reset", "register", "signOut"}]
  \cup [at : {"change"}, session : LoginSession]
  \cup [at : {"changeEmail"}, late : BOOLEAN]
  \cup [at : {"newSecret"}, secret : AppSecret]
  \cup [at : {"confirm"}, secret : AppSecret, code : 1..MaxStep]
  \cup [at : {"deletePasskey"}, key : Passkey]

Jar(r) == cookie[BrowserOf[r]]
\* The session cookie of r is that of an open session.
SignedIn(r) == Jar(r).session \in LoginSession /\ logins[Jar(r).session] # "none"
TwoFactor == app.on \/ passkey # {}

Goes(r, doing) == request' = [request EXCEPT ![r] = doing]
Answers(r, name, value) == cookie' = [cookie EXCEPT ![BrowserOf[r]] = [@ EXCEPT ![name] = value]]

\* A fresh secret is one that neither a table, a cookie nor a handler holds.
FreshSession(s) ==
  /\ logins[s] = "none"
  /\ \A b \in Browser : cookie[b].session # s
  /\ \A r \in Request : request[r].at = "change" => request[r].session # s
FreshChallenge(c) ==
  /\ challenge[c] = NoChallenge
  /\ \A b \in Browser : cookie[b].challenge # c
  /\ \A r \in Request : "ch" \in DOMAIN request[r] => request[r].ch # c
FreshCeremony(c) == ceremony[c] = "none" /\ \A b \in Browser : cookie[b].ceremony # c

-----------------------------------------------------------------------------
(* Password, then a session or a challenge.                                *)

\* The right password: one SELECT reads the hash and the second factors.
Login(r) ==
  /\ request[r] = NoRequest
  /\ alive
  /\ Goes(r, [at |-> "signIn", twoFactor |-> TwoFactor, late |-> FALSE])
  /\ UNCHANGED <<alive, logins, pendingVars, factorVars, step, cookie>>

CreateChallenge(r) ==
  /\ request[r].at = "signIn" /\ request[r].twoFactor
  /\ alive
  /\ \E c \in Challenge :
       /\ FreshChallenge(c)
       /\ challenge' = [challenge EXCEPT ![c] = [age |-> IF request[r].late THEN "late" ELSE "new", attempts |-> 0]]
       /\ tried' = [tried EXCEPT ![c] = 0]
       /\ Answers(r, "challenge", c)
  /\ Goes(r, NoRequest)
  /\ UNCHANGED <<alive, logins, ceremony, reset, pending, failed, factorVars, step>>

\* Mutant of StartSession: the session's row has no foreign key.
StartSessionAnyway(r) ==
  /\ \/ request[r].at = "signIn" /\ ~request[r].twoFactor
     \/ request[r].at = "startSession"
  /\ \E s \in LoginSession :
       /\ FreshSession(s)
       /\ logins' = [logins EXCEPT ![s] = "new"]
       /\ Answers(r, "session", s)
  /\ Goes(r, NoRequest)
  /\ UNCHANGED <<alive, pendingVars, factorVars, step>>

\* A sign-in with a challenge takes its cookie back.
ChallengeAfter(r) == IF request[r].at = "startSession" /\ request[r].ch # None THEN None ELSE Jar(r).challenge

\* The row has a foreign key: without the account the statement fails.
StartSession(r) ==
  /\ \/ request[r].at = "signIn" /\ ~request[r].twoFactor
     \/ request[r].at = "startSession"
  /\ alive
  /\ \E s \in LoginSession :
       /\ FreshSession(s)
       /\ logins' = [logins EXCEPT ![s] = IF request[r].late THEN "late" ELSE "new"]
       /\ cookie' = [cookie EXCEPT ![BrowserOf[r]] = [@ EXCEPT !.session = s, !.challenge = ChallengeAfter(r)]]
  /\ Goes(r, NoRequest)
  /\ UNCHANGED <<alive, pendingVars, factorVars, step>>

Logout(r) ==
  /\ request[r] = NoRequest
  /\ Jar(r).session # None
  /\ logins' = [logins EXCEPT ![Jar(r).session] = "none"]
  /\ Answers(r, "session", None)
  /\ UNCHANGED <<alive, pendingVars, factorVars, step, request>>

\* The cookie or the row of a session expires.
SessionExpires(s) ==
  /\ logins[s] # "none"
  /\ logins' = [logins EXCEPT ![s] = "none"]
  /\ UNCHANGED <<alive, pendingVars, factorVars, step, cookie, request>>

-----------------------------------------------------------------------------
(* The second step of a sign-in: a code.                                   *)

\* Mutant: an attempt is not counted before the code is compared.
CountLater(r) ==
  LET c == Jar(r).challenge IN
  /\ request[r] = NoRequest
  /\ c # None
  /\ challenge[c].age # "none" /\ challenge[c].attempts < MaxCodeAttempts
  /\ Goes(r, [at |-> "count", for |-> "login", ch |-> c, late |-> challenge[c].age = "late"])
  /\ UNCHANGED <<alive, logins, pendingVars, factorVars, step, cookie>>

\* Mutant: the attempt is counted whether or not it was allowed.
CountAnyway(r) ==
  LET c == Jar(r).challenge IN
  /\ request[r] = NoRequest
  /\ c # None
  /\ challenge[c].age # "none"
  /\ challenge' = [challenge EXCEPT ![c].attempts = @ + 1]
  /\ Goes(r, [at |-> "count", for |-> "login", ch |-> c, late |-> challenge[c].age = "late"])
  /\ UNCHANGED <<alive, logins, ceremony, reset, pending, failed, tried, factorVars, step, cookie>>

\* One statement counts the attempt and finds out whether it was allowed.
CountAttempt(r) ==
  LET c == Jar(r).challenge IN
  /\ request[r] = NoRequest
  /\ c # None
  /\ challenge[c].age # "none" /\ challenge[c].attempts < MaxCodeAttempts
  /\ challenge' = [challenge EXCEPT ![c].attempts = @ + 1]
  /\ Goes(r, [at |-> "count", for |-> "login", ch |-> c, late |-> challenge[c].age = "late"])
  /\ UNCHANGED <<alive, logins, ceremony, reset, pending, failed, tried, factorVars, step, cookie>>

\* No attempts left, or no such challenge: the row and the cookie go.
ChallengeIsOver(r) ==
  LET c == Jar(r).challenge IN
  /\ request[r] = NoRequest
  /\ c # None
  /\ challenge[c].age = "none" \/ challenge[c].attempts >= MaxCodeAttempts
  /\ challenge' = [challenge EXCEPT ![c] = NoChallenge]
  /\ Answers(r, "challenge", None)
  /\ UNCHANGED <<alive, logins, ceremony, reset, pending, failed, tried, factorVars, step, request>>

CountFailures(r) ==
  /\ request[r].at = "count"
  /\ IF failed >= MaxCodeFailures
       THEN Goes(r, NoRequest) /\ Answers(r, "challenge", None) /\ tried' = tried
       ELSE /\ Goes(r, [request[r] EXCEPT !.at = "verify"])
            /\ tried' = [tried EXCEPT ![request[r].ch] = @ + 1]
            /\ cookie' = cookie
  /\ UNCHANGED <<alive, logins, challenge, ceremony, reset, pending, failed, factorVars, step>>

\* The steps whose codes are accepted: one either side of now, after the last.
MatchTOTP(last) == {t \in 1..MaxStep : t \in {step - 1, step, step + 1} /\ t > last}

\* The row of the account is read, and the code compared with what it says.
VerifySecondFactor(r) ==
  /\ request[r].at = "verify"
  /\ alive
  /\ \/ app.on /\ \E t \in MatchTOTP(app.last) :
          Goes(r, [at |-> "useCode", for |-> request[r].for, ch |-> request[r].ch, late |-> request[r].late, code |-> t])
     \/ TwoFactor /\ Goes(r, [request[r] EXCEPT !.at = "useRecovery"])
     \/ ~TwoFactor /\ Goes(r, [request[r] EXCEPT !.at = "wrong"])
  /\ UNCHANGED <<alive, logins, pendingVars, factorVars, step, cookie>>

\* What an accepted or a wrong code leads to.
Verdict(r, ok) ==
  Goes(r, [at |-> IF ok THEN "verified" ELSE "wrong",
           for |-> request[r].for, ch |-> request[r].ch, late |-> request[r].late])

\* Mutant: the step is stored without looking at the last one.
UseCodeAlways(r) ==
  /\ request[r].at = "useCode"
  /\ alive
  /\ app' = [app EXCEPT !.last = request[r].code]
  /\ uses' = [uses EXCEPT ![request[r].code] = @ + 1]
  /\ Verdict(r, TRUE)
  /\ UNCHANGED <<alive, logins, pendingVars, passkey, recovery, step, cookie>>

\* The guarded UPDATE that stores the step a code was for.
UseCode(r) ==
  /\ request[r].at = "useCode"
  /\ alive
  /\ IF app.last < request[r].code
       THEN /\ app' = [app EXCEPT !.last = request[r].code]
            /\ uses' = [uses EXCEPT ![request[r].code] = @ + 1]
            /\ Verdict(r, TRUE)
       ELSE Verdict(r, FALSE) /\ UNCHANGED <<app, uses>>
  /\ UNCHANGED <<alive, logins, pendingVars, passkey, recovery, step, cookie>>

\* The guarded UPDATE that uses up a recovery code, or finds none to.
UseRecoveryCode(r) ==
  /\ request[r].at = "useRecovery"
  /\ alive
  /\ \/ \E c \in recovery.unused :
          /\ recovery' = [recovery EXCEPT !.unused = @ \ {c}]
          /\ uses' = [uses EXCEPT ![c] = @ + 1]
          /\ Verdict(r, TRUE)
     \/ Verdict(r, FALSE) /\ UNCHANGED <<recovery, uses>>
  /\ UNCHANGED <<alive, logins, pendingVars, app, passkey, step, cookie>>

\* A wrong code: sign-ins record it, the browser may try again.
WrongCode(r) ==
  /\ request[r].at = "wrong"
  /\ failed' = IF request[r].for = "login" THEN failed + 1 ELSE failed
  /\ Goes(r, NoRequest)
  /\ UNCHANGED <<alive, logins, challenge, ceremony, reset, pending, tried, factorVars, step, cookie>>

FailureExpires ==
  /\ failed > 0
  /\ failed' = failed - 1
  /\ UNCHANGED <<alive, logins, challenge, ceremony, reset, pending, tried, factorVars, step, cookie, request>>

\* A right code for a sign-in: its challenge is deleted, then it starts a session.
CompleteLogin(r) ==
  /\ request[r].at = "verified" /\ request[r].for = "login"
  /\ challenge' = [challenge EXCEPT ![request[r].ch] = NoChallenge]
  /\ Goes(r, [at |-> "startSession", ch |-> request[r].ch, late |-> request[r].late])
  /\ UNCHANGED <<alive, logins, ceremony, reset, pending, failed, tried, factorVars, step, cookie>>

ChallengeExpires(c) ==
  /\ challenge[c] # NoChallenge
  /\ challenge' = [challenge EXCEPT ![c] = NoChallenge]
  /\ UNCHANGED <<alive, logins, ceremony, reset, pending, failed, tried, factorVars, step, cookie, request>>

-----------------------------------------------------------------------------
(* Changing the password.                                                  *)

\* Reset links go to the account's address; earlier ones stop working.
RequestPasswordReset(r) ==
  /\ request[r] = NoRequest
  /\ alive
  /\ \E l \in ResetLink : reset' = {l}
  /\ UNCHANGED <<alive, logins, challenge, ceremony, pending, failed, tried, factorVars, step, cookie, request>>

ResetExpires ==
  /\ reset # {}
  /\ reset' = {}
  /\ UNCHANGED <<alive, logins, challenge, ceremony, pending, failed, tried, factorVars, step, cookie, request>>

\* The link is read before the transaction that uses it up.
ReadResetLink(r) ==
  /\ request[r] = NoRequest
  /\ alive
  /\ reset # {}
  /\ Goes(r, [at |-> "reset"])
  /\ UNCHANGED <<alive, logins, pendingVars, factorVars, step, cookie>>

CheckCurrentPassword(r) ==
  /\ request[r] = NoRequest
  /\ alive
  /\ SignedIn(r)
  /\ Goes(r, [at |-> "change", session |-> Jar(r).session])
  /\ UNCHANGED <<alive, logins, pendingVars, factorVars, step, cookie>>

\* Mutant of ChallengesAfter: the statement is left out.
ChallengesStay == challenge

\* What the statements of setPassword leave: no session but one, no sign-in
\* that waits for a code and no unconfirmed email change.
SessionsAfter(keep) == [s \in LoginSession |-> IF s = keep THEN logins[s] ELSE "none"]
ChallengesAfter == [x \in Challenge |-> NoChallenge]
PendingAfter == "none"

\* Whatever is left of before is old by then.
Older(age) == IF age = "none" THEN "none" ELSE "old"

\* The transaction of setPassword.  Requests that have compared the old
\* password, and are still at work, go on.
SetPassword(r, keep) ==
  /\ alive
  /\ logins' = [s \in LoginSession |-> IF s = keep /\ logins[s] # "none" THEN "kept" ELSE Older(SessionsAfter(keep)[s])]
  /\ reset' = {}
  /\ challenge' = [x \in Challenge |-> [ChallengesAfter[x] EXCEPT !.age = Older(@)]]
  /\ pending' = Older(PendingAfter)
  /\ request' = [q \in Request |->
                   IF q = r THEN NoRequest
                   ELSE IF "late" \in DOMAIN request[q] THEN [request[q] EXCEPT !.late = TRUE]
                   ELSE request[q]]
  /\ UNCHANGED <<alive, ceremony, failed, tried, factorVars, step>>

ResetPassword(r) ==
  /\ request[r].at = "reset"
  /\ SetPassword(r, None)
  /\ Answers(r, "session", None)

ChangePassword(r) ==
  /\ request[r].at = "change"
  /\ SetPassword(r, request[r].session)
  /\ cookie' = cookie

\* Two statements: the sessions, then an email change they may have asked for.
SignOutOthers(r) ==
  /\ request[r] = NoRequest
  /\ SignedIn(r)
  /\ logins' = [s \in LoginSession |-> IF s = Jar(r).session THEN logins[s] ELSE "none"]
  /\ Goes(r, [at |-> "signOut"])
  /\ UNCHANGED <<alive, pendingVars, factorVars, step, cookie>>

DropEmailChange(r) ==
  /\ request[r].at = "signOut"
  /\ pending' = "none"
  /\ Goes(r, NoRequest)
  /\ UNCHANGED <<alive, logins, challenge, ceremony, reset, failed, tried, factorVars, step, cookie>>

CheckEmailChange(r) ==
  /\ request[r] = NoRequest
  /\ alive
  /\ SignedIn(r)
  /\ Goes(r, [at |-> "changeEmail", late |-> FALSE])
  /\ UNCHANGED <<alive, logins, pendingVars, factorVars, step, cookie>>

RequestEmailChange(r) ==
  /\ request[r].at = "changeEmail"
  /\ alive
  /\ pending' = IF request[r].late THEN "late" ELSE "new"
  /\ Goes(r, NoRequest)
  /\ UNCHANGED <<alive, logins, challenge, ceremony, reset, failed, tried, factorVars, step, cookie>>

\* The link is opened, the change is cancelled, or the link expires.
EmailChangeEnds ==
  /\ pending # "none"
  /\ pending' = "none"
  /\ UNCHANGED <<alive, logins, challenge, ceremony, reset, failed, tried, factorVars, step, cookie, request>>

-----------------------------------------------------------------------------
(* The authenticator app and recovery codes.                               *)

\* Histories: the secret a code of which was confirmed, and how often
\* totp_last_step was set back since the app was turned on.
NoApp == [secret |-> None, on |-> FALSE, last |-> 0, proven |-> None, lowered |-> 0]
NoCodes == [issued |-> FALSE, unused |-> {}]

\* These codes are new: none was accepted yet.
Unspent(codes) == [c \in DOMAIN uses |-> IF c \in codes THEN 0 ELSE uses[c]]

\* totp_last_step becomes t.
Lowered(t) == IF t < app.last THEN app.lowered + 1 ELSE app.lowered

\* The page shows the secret there is; otherwise it makes one to store.
BeginTOTP(r) ==
  /\ request[r] = NoRequest
  /\ SignedIn(r)
  /\ ~app.on /\ app.secret = None
  /\ \E x \in AppSecret :
       /\ \A q \in Request : "secret" \in DOMAIN request[q] => request[q].secret # x
       /\ Goes(r, [at |-> "newSecret", secret |-> x])
  /\ UNCHANGED <<alive, logins, pendingVars, factorVars, step, cookie>>

StoreSecret(r) ==
  /\ request[r].at = "newSecret"
  /\ app' = IF alive /\ ~app.on THEN [app EXCEPT !.secret = request[r].secret] ELSE app
  /\ Goes(r, NoRequest)
  /\ UNCHANGED <<alive, logins, pendingVars, passkey, recovery, uses, step, cookie>>

\* The user's app has the stored secret and shows a code of it.
MatchSetupCode(r) ==
  /\ request[r] = NoRequest
  /\ SignedIn(r)
  /\ app.secret # None /\ ~app.on
  /\ \E t \in MatchTOTP(0) : Goes(r, [at |-> "confirm", secret |-> app.secret, code |-> t])
  /\ UNCHANGED <<alive, logins, pendingVars, factorVars, step, cookie>>

\* The UPDATE asks neither whether the app is on by now nor for its secret:
\* a second request sets totp_last_step again, to the step of its own code.
ConfirmTOTP(r) ==
  /\ request[r].at = "confirm"
  /\ alive
  /\ app' = [app EXCEPT !.on = TRUE, !.last = request[r].code, !.proven = request[r].secret,
                         !.lowered = IF app.on THEN Lowered(request[r].code) ELSE 0]
  /\ recovery' = [issued |-> TRUE, unused |-> RecoveryCode]
  /\ uses' = Unspent(IF app.on THEN RecoveryCode ELSE DOMAIN uses)
  /\ Goes(r, NoRequest)
  /\ UNCHANGED <<alive, logins, pendingVars, passkey, step, cookie>>

\* Turning the app off needs a code.
CheckDisableTOTP(r) ==
  /\ request[r] = NoRequest
  /\ SignedIn(r)
  /\ Goes(r, [at |-> "verify", for |-> "disable", ch |-> None, late |-> FALSE])
  /\ UNCHANGED <<alive, logins, pendingVars, factorVars, step, cookie>>

\* Mutant: the codes go with the app although passkeys remain.
CodesWithoutApp == NoCodes
\* Recovery codes stay while passkeys remain.
CodesAfterApp == IF passkey = {} THEN NoCodes ELSE recovery

DisableTOTP(r) ==
  /\ request[r].at = "verified" /\ request[r].for = "disable"
  /\ alive
  /\ app' = [NoApp EXCEPT !.lowered = Lowered(0)]
  /\ recovery' = CodesAfterApp
  /\ Goes(r, NoRequest)
  /\ UNCHANGED <<alive, logins, pendingVars, passkey, uses, step, cookie>>

-----------------------------------------------------------------------------
(* Passkeys.                                                               *)

StartCeremony(r, kind) ==
  \E c \in Ceremony :
    /\ FreshCeremony(c)
    /\ ceremony' = [ceremony EXCEPT ![c] = kind]
    /\ Answers(r, "ceremony", c)

\* takeCeremony: one DELETE ... RETURNING redeems it, and the cookie goes.
TakeCeremony(r, kind) ==
  LET c == Jar(r).ceremony IN
  /\ c # None
  /\ ceremony[c] = kind
  /\ ceremony' = [ceremony EXCEPT ![c] = "none"]
  /\ Answers(r, "ceremony", None)

\* The cookie is for no ceremony of the kind: the browser starts again.
NoCeremony(r) ==
  /\ request[r] = NoRequest
  /\ Jar(r).ceremony # None
  /\ Answers(r, "ceremony", None)
  /\ UNCHANGED <<alive, logins, pendingVars, factorVars, step, request>>

CeremonyExpires(c) ==
  /\ ceremony[c] # "none"
  /\ ceremony' = [ceremony EXCEPT ![c] = "none"]
  /\ UNCHANGED <<alive, logins, challenge, reset, pending, failed, tried, factorVars, step, cookie, request>>

BeginPasskeyRegistration(r) ==
  /\ request[r] = NoRequest
  /\ alive
  /\ SignedIn(r)
  /\ Cardinality(passkey) < MaxPasskeys
  /\ StartCeremony(r, "register")
  /\ UNCHANGED <<alive, logins, challenge, reset, pending, failed, tried, factorVars, step, request>>

AnswerRegistration(r) ==
  /\ request[r] = NoRequest
  /\ SignedIn(r)
  /\ TakeCeremony(r, "register")
  /\ Goes(r, [at |-> "register"])
  /\ UNCHANGED <<alive, logins, challenge, reset, pending, failed, tried, factorVars, step>>

BelowPasskeyLimit == Cardinality(passkey) < MaxPasskeys

\* The transaction counts again, and gives codes to who has none left.
FinishPasskeyRegistration(r) ==
  /\ request[r].at = "register"
  /\ alive
  /\ BelowPasskeyLimit
  /\ \E k \in Passkey \ passkey :
       /\ \A q \in Request : "key" \in DOMAIN request[q] => request[q].key # k
       /\ passkey' = passkey \cup {k}
  /\ IF recovery.unused = {}
       THEN recovery' = [issued |-> TRUE, unused |-> RecoveryCode] /\ uses' = Unspent(RecoveryCode)
       ELSE UNCHANGED <<recovery, uses>>
  /\ Goes(r, NoRequest)
  /\ UNCHANGED <<alive, logins, pendingVars, app, step, cookie>>

CheckDeletePasskey(r) ==
  /\ request[r] = NoRequest
  /\ SignedIn(r)
  /\ \E k \in passkey : Goes(r, [at |-> "deletePasskey", key |-> k])
  /\ UNCHANGED <<alive, logins, pendingVars, factorVars, step, cookie>>

\* Without passkeys and an app there is nothing left to recover.
CodesAfterKeys(left) == IF left = {} /\ ~app.on THEN NoCodes ELSE recovery

DeletePasskey(r) ==
  /\ request[r].at = "deletePasskey"
  /\ alive
  /\ request[r].key \in passkey
  /\ passkey' = passkey \ {request[r].key}
  /\ recovery' = CodesAfterKeys(passkey')
  /\ Goes(r, NoRequest)
  /\ UNCHANGED <<alive, logins, pendingVars, app, uses, step, cookie>>

BeginPasskeyLogin(r) ==
  /\ request[r] = NoRequest
  /\ StartCeremony(r, "login")
  /\ UNCHANGED <<alive, logins, challenge, reset, pending, failed, tried, factorVars, step, request>>

FinishPasskeyLogin(r) ==
  /\ request[r] = NoRequest
  /\ TakeCeremony(r, "login")
  /\ Goes(r, [at |-> "assert", ch |-> None, late |-> FALSE])
  /\ UNCHANGED <<alive, logins, challenge, reset, pending, failed, tried, factorVars, step>>

\* The challenge in the browser's cookie still waits for a second factor.
ChallengeWaits(r) ==
  LET c == Jar(r).challenge IN
  c # None /\ challenge[c].age # "none" /\ challenge[c].attempts < MaxCodeAttempts

BeginPasskeySecondFactor(r) ==
  /\ request[r] = NoRequest
  /\ ChallengeWaits(r)
  /\ passkey # {}
  /\ StartCeremony(r, "second-factor")
  /\ UNCHANGED <<alive, logins, challenge, reset, pending, failed, tried, factorVars, step, request>>

ChallengeUser(r) ==
  /\ request[r] = NoRequest
  /\ ChallengeWaits(r)
  /\ Goes(r, [at |-> "takeFactor", ch |-> Jar(r).challenge, late |-> challenge[Jar(r).challenge].age = "late"])
  /\ UNCHANGED <<alive, logins, pendingVars, factorVars, step, cookie>>

TakeSecondFactor(r) ==
  /\ request[r].at = "takeFactor"
  /\ TakeCeremony(r, "second-factor")
  /\ Goes(r, [request[r] EXCEPT !.at = "assert"])
  /\ UNCHANGED <<alive, logins, challenge, reset, pending, failed, tried, factorVars, step>>

\* The user's passkeys are loaded and the answer verifies with one of them.
UsePasskey(r) ==
  /\ request[r].at = "assert"
  /\ passkey # {}
  /\ Goes(r, [request[r] EXCEPT !.at = "passkeyChecked"])
  /\ UNCHANGED <<alive, logins, pendingVars, factorVars, step, cookie>>

FinishPasskeySecondFactor(r) ==
  /\ request[r].at = "passkeyChecked"
  /\ challenge' = IF request[r].ch = None THEN challenge ELSE [challenge EXCEPT ![request[r].ch] = NoChallenge]
  /\ Goes(r, [request[r] EXCEPT !.at = "startSession"])
  /\ UNCHANGED <<alive, logins, ceremony, reset, pending, failed, tried, factorVars, step, cookie>>

-----------------------------------------------------------------------------
(* The end of the account, and of a request.                               *)

\* The user's row is deleted, and with it the rows that refer to it.
DeleteUser(r) ==
  /\ alive' = FALSE
  /\ logins' = [s \in LoginSession |-> "none"]
  /\ challenge' = [c \in Challenge |-> NoChallenge]
  /\ ceremony' = [c \in Ceremony |-> IF ceremony[c] = "login" THEN "login" ELSE "none"]
  /\ reset' = {}
  /\ pending' = "none"
  /\ app' = NoApp
  /\ passkey' = {}
  /\ recovery' = NoCodes
  /\ failed' = 0
  /\ uses' = Unspent(1..MaxStep)
  /\ Answers(r, "session", None)
  /\ Goes(r, NoRequest)
  /\ UNCHANGED <<tried, step>>

\* The password, and with two factors a code.
CheckDeletion(r) ==
  /\ request[r] = NoRequest
  /\ SignedIn(r)
  /\ Goes(r, [at |-> IF TwoFactor THEN "verify" ELSE "verified", for |-> "delete", ch |-> None, late |-> FALSE])
  /\ UNCHANGED <<alive, logins, pendingVars, factorVars, step, cookie>>

DeleteOwnAccount(r) ==
  /\ request[r].at = "verified" /\ request[r].for = "delete"
  /\ alive
  /\ DeleteUser(r)

\* A statement fails, or its request is cancelled: the handler answers with
\* an error and what it has done so far stays done.
RequestFails(r) ==
  /\ request[r] # NoRequest
  /\ Goes(r, NoRequest)
  /\ UNCHANGED <<alive, logins, pendingVars, factorVars, step, cookie>>

Tick ==
  /\ step < MaxStep
  /\ step' = step + 1
  /\ UNCHANGED <<alive, logins, pendingVars, factorVars, cookie, request>>

Expires ==
  \/ \E s \in LoginSession : SessionExpires(s)
  \/ \E c \in Challenge : ChallengeExpires(c)
  \/ \E c \in Ceremony : CeremonyExpires(c)
  \/ ResetExpires \/ EmailChangeEnds \/ FailureExpires

\* Nobody is signed in, and nothing is under way.
SignedOut ==
  /\ alive = TRUE
  /\ logins = [s \in LoginSession |-> "none"]
  /\ challenge = [c \in Challenge |-> NoChallenge]
  /\ ceremony = [c \in Ceremony |-> "none"]
  /\ reset = {}
  /\ pending = "none"
  /\ passkey = {}
  /\ failed = 0
  /\ step = 1
  /\ cookie = [b \in Browser |-> NoCookies]
  /\ request = [r \in Request |-> NoRequest]
  /\ tried = [c \in Challenge |-> 0]
  /\ uses = [c \in (1..MaxStep) \cup RecoveryCode |-> 0]

SignInInit == SignedOut /\ app = NoApp /\ recovery = NoCodes

\* What signs in and out; what codes a request checks; the app; passkeys.
PasswordStep(r) == Login(r) \/ CreateChallenge(r) \/ StartSession(r) \/ Logout(r)
CodeStep(r) ==
  \/ CountAttempt(r) \/ ChallengeIsOver(r) \/ CountFailures(r) \/ VerifySecondFactor(r)
  \/ UseCode(r) \/ UseRecoveryCode(r) \/ WrongCode(r) \/ CompleteLogin(r)
ChangeStep(r) ==
  \/ RequestPasswordReset(r) \/ ReadResetLink(r) \/ ResetPassword(r) \/ CheckCurrentPassword(r) \/ ChangePassword(r)
  \/ SignOutOthers(r) \/ DropEmailChange(r) \/ CheckEmailChange(r) \/ RequestEmailChange(r)
AppStep(r) ==
  \/ BeginTOTP(r) \/ StoreSecret(r) \/ MatchSetupCode(r) \/ ConfirmTOTP(r)
  \/ CheckDisableTOTP(r) \/ DisableTOTP(r)
PasskeyStep(r) ==
  \/ NoCeremony(r) \/ BeginPasskeyRegistration(r) \/ AnswerRegistration(r) \/ FinishPasskeyRegistration(r)
  \/ CheckDeletePasskey(r) \/ DeletePasskey(r) \/ BeginPasskeyLogin(r) \/ FinishPasskeyLogin(r)
  \/ BeginPasskeySecondFactor(r) \/ ChallengeUser(r) \/ TakeSecondFactor(r) \/ UsePasskey(r) \/ FinishPasskeySecondFactor(r)
EndStep(r) == CheckDeletion(r) \/ DeleteOwnAccount(r) \/ RequestFails(r)

SignInNext ==
  \/ \E r \in Request : PasswordStep(r) \/ CodeStep(r) \/ ChangeStep(r) \/ AppStep(r) \/ PasskeyStep(r) \/ EndStep(r)
  \/ Expires \/ Tick

SignInSpec == SignInInit /\ [][SignInNext]_signInVars

-----------------------------------------------------------------------------
(* Properties.                                                             *)

SignInTypeOK ==
  /\ alive \in BOOLEAN
  /\ logins \in [LoginSession -> {"none"} \cup Age]
  /\ challenge \in [Challenge -> [age : {"none"} \cup Age, attempts : 0..MaxCodeAttempts]]
  /\ ceremony \in [Ceremony -> {"none"} \cup Kinds]
  /\ reset \subseteq ResetLink
  /\ pending \in {"none"} \cup Age
  /\ app \in [secret : AppSecret \cup {None}, on : BOOLEAN, last : 0..MaxStep,
               proven : AppSecret \cup {None}, lowered : Nat]
  /\ passkey \subseteq Passkey
  /\ recovery \in [issued : BOOLEAN, unused : SUBSET RecoveryCode]
  /\ failed \in Nat
  /\ step \in Nat
  /\ cookie \in [Browser -> [session : LoginSession \cup {None}, challenge : Ch, ceremony : Ceremony \cup {None}]]
  /\ request \in [Request -> Doing]
  /\ tried \in [Challenge -> Nat]
  /\ uses \in [(1..MaxStep) \cup RecoveryCode -> Nat]

\* No recovery code of the present set is accepted twice, however many
\* requests offer it at the same time; and a code of the authenticator app is
\* accepted once more only when totp_last_step was set back in between, by a
\* second confirmation or by turning the app off (verifySecondFactor).
CodesAreUsedOnce ==
  /\ \A c \in RecoveryCode : uses[c] <= 1
  /\ \A t \in 1..MaxStep : uses[t] <= 1 + app.lowered

\* accounts/security.go:386: a code of the authenticator app that is set up
\* is accepted "never the same one twice".
CodesAreNotReused == app.on => \A t \in 1..MaxStep : uses[t] <= 1

\* However many requests work on one challenge, no more than
\* MaxCodeAttempts codes are compared for it (CompleteLogin).
AttemptsAreLimited == \A c \in Challenge : tried[c] <= MaxCodeAttempts

\* Whoever signs in with two factors was given recovery codes, and nobody
\* else has any: the app, passkeys and codes change in different handlers
\* (ConfirmTOTP, DisableTOTP, FinishPasskeyRegistration, DeletePasskey).
RecoveryGoesWithTwoFactor == recovery.issued <=> TwoFactor

\* The second factor holds: codes and guesses at them are counted, and
\* recovery codes come and go with it.
SecondFactorHolds == CodesAreUsedOnce /\ AttemptsAreLimited /\ RecoveryGoesWithTwoFactor

\* What was begun with the old password ends with it: after a change of the
\* password there is no session, no sign-in that waits for a code and no
\* unconfirmed email change of before, but for the session that made the
\* change and for requests that had compared the old password by then.
OldPasswordEnds ==
  /\ \A s \in LoginSession : logins[s] # "old"
  /\ \A c \in Challenge : challenge[c].age # "old"
  /\ pending # "old"

\* A deleted account leaves nothing behind, and no handler that is still at
\* work for it adds anything.
GoneIsGone ==
  ~alive =>
    /\ \A s \in LoginSession : logins[s] = "none"
    /\ \A c \in Challenge : challenge[c] = NoChallenge
    /\ reset = {} /\ pending = "none" /\ passkey = {} /\ app = NoApp /\ ~recovery.issued

\* A password change, and the end of the account, end what was begun before,
\* whatever the handlers that are at work do next.
EndedIsOver == OldPasswordEnds /\ GoneIsGone

\* The app that is asked for codes is the one whose code was confirmed.
EnabledAppWasConfirmed == app.on => app.secret = app.proven
=============================================================================

--------------------------- MODULE AccountsProofs ---------------------------
(***************************************************************************)
(* What SignIn, Emails and Tokens promise of accounts and of trusted       *)
(* publishing, for any number of users, names, links, codes, publishers,   *)
(* tokens and requests at the same time; and that with the tables of       *)
(* Access everything they keep is well formed.                             *)
(***************************************************************************)
EXTENDS Accounts, AccessProofs, FiniteSetTheorems, TLAPS

-----------------------------------------------------------------------------
(* Signing in: what handlers do.                                           *)

\* A handler that checks a code, and one that signs in with a challenge.
CodeDoing == [at : {"count", "verify", "useRecovery", "wrong", "verified"}, for : Purpose, ch : Ch, late : BOOLEAN]
UseDoing == [at : {"useCode"}, for : Purpose, ch : Ch, late : BOOLEAN, code : 1..MaxStep]
SessionDoing == [at : {"startSession", "passkeyChecked"}, ch : Ch, late : BOOLEAN]
FactorDoing == [at : {"takeFactor", "assert"}, ch : Ch, late : BOOLEAN]
PasswordDoing == [at : {"signIn"}, twoFactor : BOOLEAN, late : BOOLEAN]
AddressDoing == [at : {"changeEmail"}, late : BOOLEAN]
ConfirmDoing == [at : {"confirm"}, secret : AppSecret, code : 1..MaxStep]

\* All of these are things a handler does, and so is nothing.
LEMMA DoingParts ==
  /\ CodeDoing \subseteq Doing /\ UseDoing \subseteq Doing /\ SessionDoing \subseteq Doing /\ FactorDoing \subseteq Doing
  /\ PasswordDoing \subseteq Doing /\ AddressDoing \subseteq Doing /\ ConfirmDoing \subseteq Doing
  /\ NoRequest \in Doing /\ NoRequest.at = "idle"
  /\ \A x \in {"reset", "register", "signOut"} : [at |-> x] \in Doing
  /\ \A s \in LoginSession : [at |-> "change", session |-> s] \in Doing
  /\ \A x \in AppSecret : [at |-> "newSecret", secret |-> x] \in Doing
  /\ \A k \in Passkey : [at |-> "deletePasskey", key |-> k] \in Doing
  BY DEF Doing, CodeDoing, UseDoing, SessionDoing, FactorDoing, PasswordDoing, AddressDoing, ConfirmDoing, NoRequest

\* What is read off a handler's state.
LEMMA DoingRows ==
  ASSUME NEW d \in Doing
  PROVE  /\ d.at \in {"count", "verify", "useRecovery", "wrong", "verified"} => d \in CodeDoing
         /\ d.at = "useCode" => d \in UseDoing
         /\ d.at \in {"startSession", "passkeyChecked"} => d \in SessionDoing
         /\ d.at \in {"takeFactor", "assert"} => d \in FactorDoing
         /\ d.at = "signIn" => d \in PasswordDoing
         /\ d.at = "changeEmail" => d \in AddressDoing
         /\ d.at = "confirm" => d \in ConfirmDoing
         /\ d.at = "change" => d.session \in LoginSession
         /\ d.at = "newSecret" => d.secret \in AppSecret
         /\ d.at = "deletePasskey" => d.key \in Passkey
  BY DEF Doing, CodeDoing, UseDoing, SessionDoing, FactorDoing, PasswordDoing, AddressDoing, ConfirmDoing, NoRequest

\* A handler goes from one step of its work to the next.
LEMMA DoingMoves ==
  /\ \A d \in CodeDoing : \A x \in {"verify", "useRecovery", "wrong"} : [d EXCEPT !.at = x] \in CodeDoing
  /\ \A d \in FactorDoing : [d EXCEPT !.at = "assert"] \in FactorDoing
  /\ \A d \in FactorDoing : [d EXCEPT !.at = "passkeyChecked"] \in SessionDoing
  /\ \A d \in SessionDoing : [d EXCEPT !.at = "startSession"] \in SessionDoing
  BY DEF CodeDoing, FactorDoing, SessionDoing

\* A handler learns that the password it has compared was changed.
LEMMA DoingLate ==
  ASSUME NEW d \in Doing, "late" \in DOMAIN d
  PROVE  /\ [d EXCEPT !.late = TRUE] \in Doing /\ [d EXCEPT !.late = TRUE].at = d.at
         /\ d.at = "count" => [d EXCEPT !.late = TRUE].ch = d.ch
  <1>1. CASE d \in CodeDoing
    <2>1. [d EXCEPT !.late = TRUE] \in CodeDoing /\ [d EXCEPT !.late = TRUE].at = d.at /\ [d EXCEPT !.late = TRUE].ch = d.ch
      BY <1>1 DEF CodeDoing
    <2> QED
      BY <2>1, DoingParts
  <1>2. CASE d \in UseDoing
    <2>1. [d EXCEPT !.late = TRUE] \in UseDoing /\ [d EXCEPT !.late = TRUE].at = d.at /\ d.at # "count"
      BY <1>2 DEF UseDoing
    <2> QED
      BY <2>1, DoingParts
  <1>3. CASE d \in SessionDoing
    <2>1. [d EXCEPT !.late = TRUE] \in SessionDoing /\ [d EXCEPT !.late = TRUE].at = d.at /\ d.at # "count"
      BY <1>3 DEF SessionDoing
    <2> QED
      BY <2>1, DoingParts
  <1>4. CASE d \in FactorDoing
    <2>1. [d EXCEPT !.late = TRUE] \in FactorDoing /\ [d EXCEPT !.late = TRUE].at = d.at /\ d.at # "count"
      BY <1>4 DEF FactorDoing
    <2> QED
      BY <2>1, DoingParts
  <1>5. CASE d \in PasswordDoing
    <2>1. [d EXCEPT !.late = TRUE] \in PasswordDoing /\ [d EXCEPT !.late = TRUE].at = d.at /\ d.at # "count"
      BY <1>5 DEF PasswordDoing
    <2> QED
      BY <2>1, DoingParts
  <1>6. CASE d \in AddressDoing
    <2>1. [d EXCEPT !.late = TRUE] \in AddressDoing /\ [d EXCEPT !.late = TRUE].at = d.at /\ d.at # "count"
      BY <1>6 DEF AddressDoing
    <2> QED
      BY <2>1, DoingParts
  <1>7. \/ d \in CodeDoing \/ d \in UseDoing \/ d \in SessionDoing \/ d \in FactorDoing \/ d \in PasswordDoing
        \/ d \in AddressDoing
    <2>1. \/ d = NoRequest \/ d \in PasswordDoing \/ d \in CodeDoing \/ d \in UseDoing \/ d \in SessionDoing
          \/ d \in FactorDoing \/ d \in [at : {"reset", "register", "signOut"}]
          \/ d \in [at : {"change"}, session : LoginSession] \/ d \in AddressDoing
          \/ d \in [at : {"newSecret"}, secret : AppSecret] \/ d \in ConfirmDoing
          \/ d \in [at : {"deletePasskey"}, key : Passkey]
      BY DEF Doing, CodeDoing, UseDoing, SessionDoing, FactorDoing, PasswordDoing, AddressDoing, ConfirmDoing
    <2>2. d # NoRequest
      BY DEF NoRequest
    <2>3. d \notin [at : {"reset", "register", "signOut"}]
      OBVIOUS
    <2>4. d \notin [at : {"change"}, session : LoginSession]
      OBVIOUS
    <2>5. d \notin [at : {"newSecret"}, secret : AppSecret]
      OBVIOUS
    <2>6. d \notin [at : {"deletePasskey"}, key : Passkey] /\ d \notin ConfirmDoing
      BY DEF ConfirmDoing
    <2> QED
      BY <2>1, <2>2, <2>3, <2>4, <2>5, <2>6
  <1> QED
    BY <1>1, <1>2, <1>3, <1>4, <1>5, <1>6, <1>7

\* A handler goes on: the others stay where they are.
LEMMA GoesWell ==
  ASSUME SignInTypeOK, NEW r \in Request, NEW d \in Doing, Goes(r, d)
  PROVE  request' \in [Request -> Doing] /\ request'[r] = d /\ \A q \in Request : q # r => request'[q] = request[q]
  BY DEF SignInTypeOK, Goes

\* An answer puts one cookie into the browser's jar.
LEMMA AnswersWell ==
  ASSUME SignInTypeOK, NEW r \in Request, NEW v,
         \/ Answers(r, "session", v) /\ v \in LoginSession \cup {None}
         \/ Answers(r, "challenge", v) /\ v \in Ch
         \/ Answers(r, "ceremony", v) /\ v \in Ceremony \cup {None}
  PROVE  cookie' \in [Browser -> [session : LoginSession \cup {None}, challenge : Ch, ceremony : Ceremony \cup {None}]]
  <1> DEFINE J == [session : LoginSession \cup {None}, challenge : Ch, ceremony : Ceremony \cup {None}]
  <1>1. cookie \in [Browser -> J] /\ BrowserOf[r] \in Browser
    BY SignInConstants DEF SignInTypeOK
  <1>2. PICK j : j \in J /\ j = cookie[BrowserOf[r]]
    BY <1>1
  <1>3. CASE Answers(r, "session", v) /\ v \in LoginSession \cup {None}
    <2>1. [j EXCEPT !["session"] = v] \in J
      BY <1>2, <1>3
    <2> QED
      BY <1>1, <1>2, <1>3, <2>1 DEF Answers
  <1>4. CASE Answers(r, "challenge", v) /\ v \in Ch
    <2>1. [j EXCEPT !["challenge"] = v] \in J
      BY <1>2, <1>4
    <2> QED
      BY <1>1, <1>2, <1>4, <2>1 DEF Answers
  <1>5. CASE Answers(r, "ceremony", v) /\ v \in Ceremony \cup {None}
    <2>1. [j EXCEPT !["ceremony"] = v] \in J
      BY <1>2, <1>5
    <2> QED
      BY <1>1, <1>2, <1>5, <2>1 DEF Answers
  <1> QED
    BY <1>3, <1>4, <1>5

\* What is in the jar of a request's browser.
LEMMA JarWell ==
  ASSUME SignInTypeOK, NEW r \in Request
  PROVE  Jar(r).session \in LoginSession \cup {None} /\ Jar(r).challenge \in Ch /\ Jar(r).ceremony \in Ceremony \cup {None}
  BY SignInConstants DEF SignInTypeOK, Jar

-----------------------------------------------------------------------------
(* The types, one kind of variable at a time.                              *)

\* The next statement of a handler that checks a code.
LEMMA CodeStepsGoWell ==
  ASSUME SignInTypeOK, NEW r \in Request, CodeStep(r)
  PROVE  request' \in [Request -> Doing]
  <1> SUFFICES request' = request \/ \E d \in Doing : Goes(r, d)
    BY GoesWell DEF SignInTypeOK
  <1>1. request[r] \in Doing
    BY DEF SignInTypeOK
  <1>2. CASE CountAttempt(r)
    <2>1. \A c \in Ch, l \in BOOLEAN : [at |-> "count", for |-> "login", ch |-> c, late |-> l] \in CodeDoing
      BY DEF CodeDoing, Purpose
    <2> QED
      BY <1>2, <2>1, JarWell, DoingParts DEF CountAttempt
  <1>3. CASE ChallengeIsOver(r)
    BY <1>3 DEF ChallengeIsOver
  <1>4. CASE CountFailures(r)
    <2>1. [request[r] EXCEPT !.at = "verify"] \in Doing
      BY <1>1, <1>4, DoingRows, DoingMoves, DoingParts DEF CountFailures
    <2> QED
      BY <1>4, <2>1, DoingParts DEF CountFailures
  <1>5. CASE VerifySecondFactor(r)
    <2>1. request[r] \in CodeDoing
      BY <1>1, <1>5, DoingRows DEF VerifySecondFactor
    <2>2. [request[r] EXCEPT !.at = "useRecovery"] \in Doing /\ [request[r] EXCEPT !.at = "wrong"] \in Doing
      BY <2>1, DoingMoves, DoingParts
    <2>3. \A t \in 1..MaxStep :
            [at |-> "useCode", for |-> request[r].for, ch |-> request[r].ch, late |-> request[r].late, code |-> t] \in UseDoing
      BY <2>1 DEF CodeDoing, UseDoing
    <2>4. \A t \in MatchTOTP(app.last) : t \in 1..MaxStep
      BY DEF MatchTOTP
    <2> QED
      BY <1>5, <2>2, <2>3, <2>4, DoingParts DEF VerifySecondFactor
  <1>6. ASSUME NEW x \in CodeDoing \cup UseDoing, NEW at \in {"verified", "wrong"}
        PROVE  [at |-> at, for |-> x.for, ch |-> x.ch, late |-> x.late] \in CodeDoing
    BY DEF CodeDoing, UseDoing
  <1>7. CASE UseCode(r) \/ UseRecoveryCode(r)
    <2>1. request[r] \in CodeDoing \cup UseDoing
      BY <1>1, <1>7, DoingRows DEF UseCode, UseRecoveryCode
    <2>2. Verdict(r, TRUE) \/ Verdict(r, FALSE)
      BY <1>7 DEF UseCode, UseRecoveryCode
    <2>3. \E at \in {"verified", "wrong"} :
            Goes(r, [at |-> at, for |-> request[r].for, ch |-> request[r].ch, late |-> request[r].late])
      BY <2>2 DEF Verdict
    <2> QED
      BY <1>6, <2>1, <2>3, DoingParts
  <1>8. CASE WrongCode(r)
    BY <1>8, DoingParts DEF WrongCode
  <1>9. CASE CompleteLogin(r)
    <2>1. request[r] \in CodeDoing
      BY <1>1, <1>9, DoingRows DEF CompleteLogin
    <2>2. [at |-> "startSession", ch |-> request[r].ch, late |-> request[r].late] \in SessionDoing
      BY <2>1 DEF CodeDoing, SessionDoing
    <2> QED
      BY <1>9, <2>2, DoingParts DEF CompleteLogin
  <1> QED
    BY <1>2, <1>3, <1>4, <1>5, <1>7, <1>8, <1>9 DEF CodeStep

\* That of a passkey's ceremony.
LEMMA PasskeyStepsGoWell ==
  ASSUME SignInTypeOK, NEW r \in Request, PasskeyStep(r)
  PROVE  request' \in [Request -> Doing]
  <1> SUFFICES request' = request \/ \E d \in Doing : Goes(r, d)
    BY GoesWell DEF SignInTypeOK
  <1>1. request[r] \in Doing
    BY DEF SignInTypeOK
  <1>2. CASE NoCeremony(r) \/ BeginPasskeyRegistration(r) \/ BeginPasskeyLogin(r) \/ BeginPasskeySecondFactor(r)
    BY <1>2 DEF NoCeremony, BeginPasskeyRegistration, BeginPasskeyLogin, BeginPasskeySecondFactor
  <1>3. CASE AnswerRegistration(r) \/ FinishPasskeyRegistration(r) \/ DeletePasskey(r)
    BY <1>3, DoingParts DEF AnswerRegistration, FinishPasskeyRegistration, DeletePasskey
  <1>4. CASE CheckDeletePasskey(r)
    <2>1. passkey \subseteq Passkey
      BY DEF SignInTypeOK
    <2> QED
      BY <1>4, <2>1, DoingParts DEF CheckDeletePasskey
  <1>5. \A c \in Ch, l \in BOOLEAN, x \in {"takeFactor", "assert"} : [at |-> x, ch |-> c, late |-> l] \in FactorDoing
    BY DEF FactorDoing
  <1>6. CASE FinishPasskeyLogin(r)
    <2>1. None \in Ch
      BY DEF Ch
    <2> QED
      BY <1>5, <1>6, <2>1, DoingParts DEF FinishPasskeyLogin
  <1>7. CASE ChallengeUser(r)
    <2>1. Jar(r).challenge \in Ch
      BY JarWell
    <2> QED
      BY <1>5, <1>7, <2>1, DoingParts DEF ChallengeUser
  <1>8. CASE TakeSecondFactor(r)
    <2>1. [request[r] EXCEPT !.at = "assert"] \in Doing
      BY <1>1, <1>8, DoingRows, DoingMoves, DoingParts DEF TakeSecondFactor
    <2> QED
      BY <1>8, <2>1 DEF TakeSecondFactor
  <1>9. CASE UsePasskey(r)
    <2>1. [request[r] EXCEPT !.at = "passkeyChecked"] \in Doing
      BY <1>1, <1>9, DoingRows, DoingMoves, DoingParts DEF UsePasskey
    <2> QED
      BY <1>9, <2>1 DEF UsePasskey
  <1>10. CASE FinishPasskeySecondFactor(r)
    <2>1. [request[r] EXCEPT !.at = "startSession"] \in Doing
      BY <1>1, <1>10, DoingRows, DoingMoves, DoingParts DEF FinishPasskeySecondFactor
    <2> QED
      BY <1>10, <2>1 DEF FinishPasskeySecondFactor
  <1> QED
    BY <1>2, <1>3, <1>4, <1>6, <1>7, <1>8, <1>9, <1>10 DEF PasskeyStep

\* What setPassword does to the requests at work.
LEMMA PasswordIsSet ==
  ASSUME SignInTypeOK, NEW r \in Request, NEW keep, SetPassword(r, keep)
  PROVE  /\ request' \in [Request -> Doing]
         /\ \A q \in Request : request'[q].at = "count" => request[q].at = "count" /\ request'[q].ch = request[q].ch
  <1>1. ASSUME NEW q \in Request
        PROVE  /\ request'[q] \in Doing
               /\ request'[q].at = "count" => request[q].at = "count" /\ request'[q].ch = request[q].ch
    <2>1. request[q] \in Doing
      BY DEF SignInTypeOK
    <2>2. CASE q = r
      BY <2>2, DoingParts DEF SetPassword
    <2>3. CASE q # r /\ "late" \in DOMAIN request[q]
      <3>1. request'[q] = [request[q] EXCEPT !.late = TRUE]
        BY <2>3 DEF SetPassword
      <3> QED
        BY <2>1, <2>3, <3>1, DoingLate
    <2>4. CASE q # r /\ "late" \notin DOMAIN request[q]
      BY <2>1, <2>4 DEF SetPassword
    <2> QED
      BY <2>2, <2>3, <2>4
  <1>2. request' = [q \in Request |-> request'[q]]
    BY DEF SetPassword
  <1> QED
    BY <1>1, <1>2

\* That of every other handler.
LEMMA OtherStepsGoWell ==
  ASSUME SignInTypeOK, NEW r \in Request, PasswordStep(r) \/ ChangeStep(r) \/ AppStep(r) \/ EndStep(r)
  PROVE  request' \in [Request -> Doing]
  <1>0. request \in [Request -> Doing] /\ request[r] \in Doing
    BY DEF SignInTypeOK
  <1>1. CASE ResetPassword(r) \/ ChangePassword(r)
    BY <1>1, PasswordIsSet DEF ResetPassword, ChangePassword
  <1>2. TwoFactor \in BOOLEAN
    BY DEF TwoFactor, SignInTypeOK
  <1>3. CASE Login(r)
    <2>1. [at |-> "signIn", twoFactor |-> TwoFactor, late |-> FALSE] \in PasswordDoing
      BY <1>2 DEF PasswordDoing
    <2> QED
      BY <1>3, <2>1, DoingParts, GoesWell DEF Login
  <1>4. CASE Logout(r) \/ RequestPasswordReset(r)
    BY <1>0, <1>4 DEF Logout, RequestPasswordReset
  <1>5. CASE CheckCurrentPassword(r)
    <2>1. Jar(r).session \in LoginSession
      BY <1>5 DEF CheckCurrentPassword, SignedIn
    <2> QED
      BY <1>5, <2>1, DoingParts, GoesWell DEF CheckCurrentPassword
  <1>6. CASE CheckEmailChange(r)
    <2>1. [at |-> "changeEmail", late |-> FALSE] \in AddressDoing
      BY DEF AddressDoing
    <2> QED
      BY <1>6, <2>1, DoingParts, GoesWell DEF CheckEmailChange
  <1>7. CASE ReadResetLink(r) \/ SignOutOthers(r)
    BY <1>7, DoingParts, GoesWell DEF ReadResetLink, SignOutOthers
  <1>8. CASE BeginTOTP(r)
    BY <1>8, DoingParts, GoesWell DEF BeginTOTP
  <1>9. CASE MatchSetupCode(r)
    <2>1. app.secret \in AppSecret
      BY <1>9 DEF MatchSetupCode, SignInTypeOK
    <2>2. PICK t \in 1..MaxStep : Goes(r, [at |-> "confirm", secret |-> app.secret, code |-> t])
      BY <1>9 DEF MatchSetupCode, MatchTOTP
    <2>3. [at |-> "confirm", secret |-> app.secret, code |-> t] \in ConfirmDoing
      BY <2>1 DEF ConfirmDoing
    <2> QED
      BY <2>2, <2>3, DoingParts, GoesWell
  <1>10. \A x \in {"verify", "verified"}, p \in Purpose : [at |-> x, for |-> p, ch |-> None, late |-> FALSE] \in CodeDoing
    BY DEF CodeDoing, Ch
  <1>11. CASE CheckDisableTOTP(r)
    <2>1. "disable" \in Purpose
      BY DEF Purpose
    <2> QED
      BY <1>10, <1>11, <2>1, DoingParts, GoesWell DEF CheckDisableTOTP
  <1>12. CASE CheckDeletion(r)
    <2>1. "delete" \in Purpose
      BY DEF Purpose
    <2>2. \E x \in {"verify", "verified"} : Goes(r, [at |-> x, for |-> "delete", ch |-> None, late |-> FALSE])
      BY <1>12 DEF CheckDeletion
    <2> QED
      BY <1>10, <2>1, <2>2, DoingParts, GoesWell
  <1>13. CASE Goes(r, NoRequest)
    BY <1>13, DoingParts, GoesWell
  <1> QED
    BY <1>1, <1>3, <1>4, <1>5, <1>6, <1>7, <1>8, <1>9, <1>11, <1>12, <1>13
    DEF PasswordStep, ChangeStep, AppStep, EndStep, CreateChallenge, StartSession, DropEmailChange, RequestEmailChange,
        StoreSecret, ConfirmTOTP, DisableTOTP, DeleteOwnAccount, DeleteUser, RequestFails

\* Browsers keep what they are given.
LEMMA CookiesWell ==
  ASSUME SignInTypeOK, SignInNext
  PROVE  cookie' \in [Browser -> [session : LoginSession \cup {None}, challenge : Ch, ceremony : Ceremony \cup {None}]]
  <1>1. CASE cookie' = cookie
    BY <1>1 DEF SignInTypeOK
  <1>2. ASSUME NEW r \in Request, NEW v,
               \/ Answers(r, "session", v) /\ v \in LoginSession \cup {None}
               \/ Answers(r, "challenge", v) /\ v \in Ch
               \/ Answers(r, "ceremony", v) /\ v \in Ceremony \cup {None}
        PROVE  cookie' \in [Browser -> [session : LoginSession \cup {None}, challenge : Ch, ceremony : Ceremony \cup {None}]]
    BY <1>2, AnswersWell
  <1>3. ASSUME NEW r \in Request, StartSession(r)
        PROVE  cookie' \in [Browser -> [session : LoginSession \cup {None}, challenge : Ch, ceremony : Ceremony \cup {None}]]
    <2> DEFINE J == [session : LoginSession \cup {None}, challenge : Ch, ceremony : Ceremony \cup {None}]
    <2>1. cookie \in [Browser -> J] /\ BrowserOf[r] \in Browser
      BY SignInConstants DEF SignInTypeOK
    <2>2. PICK j \in J : j = cookie[BrowserOf[r]]
      BY <2>1
    <2>3. PICK c \in Ch : c = ChallengeAfter(r)
      BY JarWell DEF ChallengeAfter, Ch
    <2>4. PICK s \in LoginSession : cookie' = [cookie EXCEPT ![BrowserOf[r]] = [j EXCEPT !.session = s, !.challenge = c]]
      BY <1>3, <2>1, <2>2, <2>3 DEF StartSession
    <2>5. [j EXCEPT !.session = s, !.challenge = c] \in J
      BY <2>2, <2>3
    <2> QED
      BY <2>1, <2>4, <2>5
  <1>4. \A x \in Challenge \cup {None} : x \in Ch
    BY DEF Ch
  <1>5. ASSUME NEW r \in Request, CreateChallenge(r) \/ ChallengeIsOver(r) \/ CountFailures(r)
        PROVE  cookie' = cookie \/ \E v \in Ch : Answers(r, "challenge", v)
    BY <1>4, <1>5 DEF CreateChallenge, ChallengeIsOver, CountFailures
  <1>6. ASSUME NEW r \in Request, Logout(r) \/ ResetPassword(r) \/ ChangePassword(r) \/ DeleteOwnAccount(r)
        PROVE  cookie' = cookie \/ \E v \in LoginSession \cup {None} : Answers(r, "session", v)
    BY <1>6 DEF Logout, ResetPassword, ChangePassword, DeleteOwnAccount, DeleteUser
  <1>7. ASSUME NEW r \in Request, PasskeyStep(r)
        PROVE  cookie' = cookie \/ \E v \in Ceremony \cup {None} : Answers(r, "ceremony", v)
    BY <1>7 DEF PasskeyStep, NoCeremony, BeginPasskeyRegistration, AnswerRegistration, FinishPasskeyRegistration,
                CheckDeletePasskey, DeletePasskey, BeginPasskeyLogin, FinishPasskeyLogin, BeginPasskeySecondFactor,
                ChallengeUser, TakeSecondFactor, UsePasskey, FinishPasskeySecondFactor, StartCeremony, TakeCeremony
  <1>8. ASSUME NEW r \in Request, CodeStep(r)
        PROVE  cookie' = cookie \/ ChallengeIsOver(r) \/ CountFailures(r)
    BY <1>8 DEF CodeStep, CountAttempt, VerifySecondFactor, UseCode, UseRecoveryCode, WrongCode, CompleteLogin
  <1>9. ASSUME NEW r \in Request, PasswordStep(r) \/ ChangeStep(r) \/ AppStep(r) \/ EndStep(r)
        PROVE  \/ cookie' = cookie \/ StartSession(r) \/ CreateChallenge(r)
               \/ Logout(r) \/ ResetPassword(r) \/ ChangePassword(r) \/ DeleteOwnAccount(r)
    BY <1>9 DEF PasswordStep, ChangeStep, AppStep, EndStep, Login, RequestPasswordReset, ReadResetLink,
                CheckCurrentPassword, SignOutOthers, DropEmailChange, CheckEmailChange, RequestEmailChange, BeginTOTP,
                StoreSecret, MatchSetupCode, ConfirmTOTP, CheckDisableTOTP, DisableTOTP, CheckDeletion, RequestFails
  <1>10. CASE Expires \/ Tick
    BY <1>1, <1>10 DEF Expires, Tick, SessionExpires, ChallengeExpires, CeremonyExpires, ResetExpires, EmailChangeEnds,
                FailureExpires
  <1> QED
    BY <1>1, <1>2, <1>3, <1>5, <1>6, <1>7, <1>8, <1>9, <1>10 DEF SignInNext

\* What is left of the types when cookies and requests are taken away.
TablesOK ==
  /\ alive \in BOOLEAN
  /\ logins \in [LoginSession -> {"none"} \cup Age]
  /\ challenge \in [Challenge -> [age : {"none"} \cup Age, attempts : 0..MaxCodeAttempts]]
  /\ ceremony \in [Ceremony -> {"none"} \cup Kinds]
  /\ reset \subseteq ResetLink
  /\ pending \in {"none"} \cup Age
  /\ failed \in Nat
  /\ step \in Nat
  /\ tried \in [Challenge -> Nat]

\* What is stored of the app, with the histories.
AppRow == [secret : AppSecret \cup {None}, on : BOOLEAN, last : 0..MaxStep,
           proven : AppSecret \cup {None}, lowered : Nat]

FactorsOK ==
  /\ app \in AppRow
  /\ passkey \subseteq Passkey
  /\ recovery \in [issued : BOOLEAN, unused : SUBSET RecoveryCode]
  /\ uses \in [(1..MaxStep) \cup RecoveryCode -> Nat]

\* The actions that change what the second factor is.
FactorsChange(r) ==
  \/ UseCode(r) \/ UseRecoveryCode(r) \/ StoreSecret(r) \/ ConfirmTOTP(r) \/ DisableTOTP(r)
  \/ FinishPasskeyRegistration(r) \/ DeletePasskey(r) \/ DeleteOwnAccount(r)

\* No other step changes the factors of the account.
LEMMA FactorsOrNot ==
  SignInNext => UNCHANGED factorVars \/ \E r \in Request : FactorsChange(r)
  <1> SUFFICES ASSUME SignInNext PROVE UNCHANGED factorVars \/ \E r \in Request : FactorsChange(r)
    OBVIOUS
  <1>1. CASE Expires \/ Tick
    BY <1>1 DEF Expires, Tick, SessionExpires, ChallengeExpires, CeremonyExpires, ResetExpires, EmailChangeEnds,
                FailureExpires
  <1>2. ASSUME NEW r \in Request, PasskeyStep(r) PROVE UNCHANGED factorVars \/ FactorsChange(r)
    BY <1>2 DEF FactorsChange, PasskeyStep, NoCeremony, BeginPasskeyRegistration, AnswerRegistration, CheckDeletePasskey,
                BeginPasskeyLogin, FinishPasskeyLogin, BeginPasskeySecondFactor, ChallengeUser, TakeSecondFactor,
                UsePasskey, FinishPasskeySecondFactor
  <1>3. ASSUME NEW r \in Request, CodeStep(r) PROVE UNCHANGED factorVars \/ FactorsChange(r)
    BY <1>3 DEF FactorsChange, CodeStep, CountAttempt, ChallengeIsOver, CountFailures, VerifySecondFactor, WrongCode,
                CompleteLogin
  <1>4. ASSUME NEW r \in Request, PasswordStep(r) \/ ChangeStep(r) \/ AppStep(r) \/ EndStep(r)
        PROVE  UNCHANGED factorVars \/ FactorsChange(r)
    BY <1>4 DEF FactorsChange, PasswordStep, ChangeStep, AppStep, EndStep, Login, CreateChallenge, StartSession, Logout,
                RequestPasswordReset, ReadResetLink, ResetPassword, ChangePassword, SetPassword, CheckCurrentPassword,
                SignOutOthers, DropEmailChange, CheckEmailChange, RequestEmailChange, BeginTOTP, MatchSetupCode,
                CheckDisableTOTP, CheckDeletion, RequestFails
  <1> QED
    BY <1>1, <1>2, <1>3, <1>4 DEF SignInNext

\* What a code may have been accepted, up to the last step and after it.
StepsMarked ==
  \A t \in 1..MaxStep : uses[t] <= 1 + app.lowered /\ (t > app.last => uses[t] <= app.lowered)

\* A code is marked when it is accepted, and the mark is gone when the last
\* step is set back; recovery codes come with two factors.
FactorsInv ==
  /\ StepsMarked
  /\ \A c \in RecoveryCode : uses[c] <= 1 /\ (uses[c] = 1 => c \notin recovery.unused)
  /\ RecoveryGoesWithTwoFactor
  /\ recovery.unused # {} => recovery.issued

\* Without second factor there is no app and there are no codes.
LEMMA NoFactors == NoApp \in AppRow
                   /\ NoCodes \in [issued : BOOLEAN, unused : SUBSET RecoveryCode]
  BY SignInConstants DEF NoApp, NoCodes, AppRow

\* Setting the last step back is counted.
LEMMA LoweredIs ==
  ASSUME FactorsOK, NEW t \in 0..MaxStep
  PROVE  /\ Lowered(t) \in Nat /\ app.lowered \in Nat /\ app.last \in 0..MaxStep
         /\ app.lowered <= Lowered(t) /\ (t < app.last => Lowered(t) = app.lowered + 1)
  BY SignInConstants DEF FactorsOK, AppRow, Lowered

\* Steps stay marked when the last one becomes t and that is counted.
LEMMA LoweringMarks ==
  ASSUME FactorsOK, StepsMarked, NEW t \in 0..MaxStep, uses' \in [(1..MaxStep) \cup RecoveryCode -> Nat],
         \A x \in 1..MaxStep : uses'[x] <= uses[x], app'.last = t, app'.lowered = Lowered(t)
  PROVE  StepsMarked'
  <1> SUFFICES ASSUME NEW x \in 1..MaxStep
               PROVE  uses'[x] <= 1 + Lowered(t) /\ (x > t => uses'[x] <= Lowered(t))
    BY DEF StepsMarked
  <1>1. /\ uses[x] \in Nat /\ uses'[x] \in Nat /\ uses'[x] <= uses[x]
        /\ uses[x] <= 1 + app.lowered /\ (x > app.last => uses[x] <= app.lowered)
    BY DEF FactorsOK, StepsMarked
  <1> QED
    BY <1>1, LoweredIs, SignInConstants

\* What is new was not used.
LEMMA NewCodes ==
  ASSUME FactorsOK, NEW codes
  PROVE  /\ Unspent(codes) \in [(1..MaxStep) \cup RecoveryCode -> Nat]
         /\ \A c \in (1..MaxStep) \cup RecoveryCode : Unspent(codes)[c] = IF c \in codes THEN 0 ELSE uses[c]
         /\ DOMAIN uses = (1..MaxStep) \cup RecoveryCode
  BY DEF FactorsOK, Unspent

\* A step that changes the factors keeps what is so of them: a code is marked
\* in the statement that accepts it.
LEMMA FactorsStep ==
  ASSUME SignInTypeOK, FactorsInv, NEW r \in Request, FactorsChange(r)
  PROVE  FactorsOK' /\ FactorsInv'
  <1>0. FactorsOK /\ request[r] \in Doing
    BY DEF SignInTypeOK, FactorsOK, AppRow
  <1>1. CASE UseCode(r)
    <2>1. request[r].code \in 1..MaxStep
      BY <1>0, <1>1, DoingRows DEF UseCode, UseDoing
    <2>2. CASE app.last < request[r].code
      <3>1. app' = [app EXCEPT !.last = request[r].code] /\ uses' = [uses EXCEPT ![request[r].code] = @ + 1]
            /\ UNCHANGED <<passkey, recovery>>
        BY <1>1, <2>2 DEF UseCode
      <3>2. /\ app' \in AppRow /\ app.lowered \in Nat /\ app.last \in 0..MaxStep
            /\ app'.last = request[r].code /\ app'.on = app.on /\ app'.lowered = app.lowered
        BY <1>0, <2>1, <3>1, SignInConstants DEF FactorsOK, AppRow
      <3>3. /\ uses' \in [(1..MaxStep) \cup RecoveryCode -> Nat] /\ uses'[request[r].code] = uses[request[r].code] + 1
            /\ \A c \in (1..MaxStep) \cup RecoveryCode : c # request[r].code => uses'[c] = uses[c]
        BY <1>0, <2>1, <3>1 DEF FactorsOK
      <3>4. uses[request[r].code] \in Nat /\ uses[request[r].code] <= app.lowered
        BY <1>0, <2>1, <2>2, <3>2 DEF FactorsOK, FactorsInv, StepsMarked
      <3>5. StepsMarked'
        <4> SUFFICES ASSUME NEW t \in 1..MaxStep
                     PROVE  uses'[t] <= 1 + app'.lowered /\ (t > app'.last => uses'[t] <= app'.lowered)
          BY DEF StepsMarked
        <4>1. CASE t = request[r].code
          BY <2>1, <3>2, <3>3, <3>4, <4>1
        <4>2. CASE t # request[r].code
          <5>1. uses'[t] = uses[t] /\ uses[t] \in Nat
            BY <1>0, <3>3, <4>2 DEF FactorsOK
          <5>2. uses[t] <= 1 + app.lowered /\ (t > app.last => uses[t] <= app.lowered)
            BY DEF FactorsInv, StepsMarked
          <5> QED
            BY <2>1, <2>2, <3>2, <5>1, <5>2, SignInConstants
        <4> QED
          BY <4>1, <4>2
      <3>6. \A c \in RecoveryCode : uses'[c] = uses[c]
        BY <2>1, <3>3, SignInConstants
      <3>7. FactorsOK'
        BY <1>0, <3>1, <3>2, <3>3 DEF FactorsOK
      <3>8. RecoveryGoesWithTwoFactor'
        BY <3>1, <3>2 DEF FactorsInv, RecoveryGoesWithTwoFactor, TwoFactor
      <3> QED
        BY <3>1, <3>5, <3>6, <3>7, <3>8 DEF FactorsInv
    <2>3. CASE ~(app.last < request[r].code)
      BY <1>0, <1>1, <2>3 DEF UseCode, FactorsOK, FactorsInv, StepsMarked, RecoveryGoesWithTwoFactor, TwoFactor
    <2> QED
      BY <2>2, <2>3
  <1>2. CASE UseRecoveryCode(r)
    <2>1. UNCHANGED <<app, passkey>>
      BY <1>2 DEF UseRecoveryCode
    <2>2. CASE UNCHANGED <<recovery, uses>>
      BY <1>0, <2>1, <2>2 DEF FactorsOK, FactorsInv, StepsMarked, RecoveryGoesWithTwoFactor, TwoFactor
    <2>3. ASSUME NEW c \in recovery.unused, recovery' = [recovery EXCEPT !.unused = @ \ {c}], uses' = [uses EXCEPT ![c] = @ + 1]
          PROVE  FactorsOK' /\ FactorsInv'
      <3>1. c \in RecoveryCode /\ c \notin 1..MaxStep
        BY <1>0, <2>3, SignInConstants DEF FactorsOK
      <3>2. /\ recovery' \in [issued : BOOLEAN, unused : SUBSET RecoveryCode]
            /\ recovery'.unused = recovery.unused \ {c} /\ recovery'.issued = recovery.issued
        BY <1>0, <2>3 DEF FactorsOK
      <3>3. /\ uses' \in [(1..MaxStep) \cup RecoveryCode -> Nat] /\ uses'[c] = uses[c] + 1
            /\ \A x \in (1..MaxStep) \cup RecoveryCode : x # c => uses'[x] = uses[x]
        BY <1>0, <2>3, <3>1 DEF FactorsOK
      <3>4. uses[c] = 0
        BY <1>0, <2>3, <3>1 DEF FactorsInv, FactorsOK
      <3>5. FactorsOK'
        BY <1>0, <2>1, <3>2, <3>3 DEF FactorsOK
      <3>6. RecoveryGoesWithTwoFactor' /\ (recovery'.unused # {} => recovery'.issued)
        BY <2>1, <3>2 DEF FactorsInv, RecoveryGoesWithTwoFactor, TwoFactor
      <3>7. StepsMarked'
        BY <2>1, <3>1, <3>3 DEF FactorsInv, StepsMarked
      <3>8. \A x \in RecoveryCode : uses'[x] <= 1 /\ (uses'[x] = 1 => x \notin recovery'.unused)
        <4> SUFFICES ASSUME NEW x \in RecoveryCode PROVE uses'[x] <= 1 /\ (uses'[x] = 1 => x \notin recovery'.unused)
          OBVIOUS
        <4>1. CASE x = c
          BY <3>2, <3>3, <3>4, <4>1
        <4>2. CASE x # c
          <5>1. uses'[x] = uses[x]
            BY <3>3, <4>2
          <5> QED
            BY <3>2, <5>1 DEF FactorsInv
        <4> QED
          BY <4>1, <4>2
      <3> QED
        BY <3>5, <3>6, <3>7, <3>8 DEF FactorsInv
    <2> QED
      BY <1>2, <2>2, <2>3 DEF UseRecoveryCode
  <1>3. CASE StoreSecret(r)
    <2>1. UNCHANGED <<passkey, recovery, uses>>
      BY <1>3 DEF StoreSecret
    <2>2. /\ app' \in AppRow
          /\ app'.on = app.on /\ app'.last = app.last /\ app'.lowered = app.lowered
      BY <1>0, <1>3, DoingRows DEF StoreSecret, FactorsOK, AppRow
    <2> QED
      BY <1>0, <2>1, <2>2 DEF FactorsOK, FactorsInv, StepsMarked, RecoveryGoesWithTwoFactor, TwoFactor
  <1>4. CASE ConfirmTOTP(r)
    <2>1. request[r].code \in 1..MaxStep /\ request[r].secret \in AppSecret
      BY <1>0, <1>4, DoingRows DEF ConfirmTOTP, ConfirmDoing
    <2> DEFINE counted == IF app.on THEN Lowered(request[r].code) ELSE 0
    <2>2. counted \in Nat /\ request[r].code \in 0..MaxStep
      BY <1>0, <2>1, LoweredIs, SignInConstants
    <2> HIDE DEF counted
    <2>3. /\ app' \in AppRow
          /\ app'.on = TRUE /\ app'.last = request[r].code /\ app'.lowered = counted
      <3>1. app' = [app EXCEPT !.on = TRUE, !.last = request[r].code, !.proven = request[r].secret, !.lowered = counted]
        BY <1>4 DEF ConfirmTOTP, counted
      <3> QED
        BY <1>0, <2>1, <2>2, <3>1 DEF FactorsOK, AppRow
    <2>4. recovery' = [issued |-> TRUE, unused |-> RecoveryCode] /\ UNCHANGED passkey
          /\ uses' = Unspent(IF app.on THEN RecoveryCode ELSE DOMAIN uses)
      BY <1>4 DEF ConfirmTOTP
    <2>5. /\ uses' \in [(1..MaxStep) \cup RecoveryCode -> Nat]
          /\ \A c \in RecoveryCode : uses'[c] = 0
          /\ \A t \in 1..MaxStep : uses'[t] = IF app.on THEN uses[t] ELSE 0
      BY <1>0, <2>4, NewCodes, SignInConstants
    <2>6. recovery'.issued = TRUE /\ recovery' \in [issued : BOOLEAN, unused : SUBSET RecoveryCode]
      BY <2>4
    <2>7. FactorsOK'
      BY <1>0, <2>3, <2>4, <2>5, <2>6 DEF FactorsOK
    <2>8. RecoveryGoesWithTwoFactor'
      BY <2>3, <2>6 DEF RecoveryGoesWithTwoFactor, TwoFactor
    <2>9. StepsMarked'
      <3>1. CASE app.on
        <4>1. \A t \in 1..MaxStep : uses'[t] <= uses[t]
          BY <1>0, <2>5, <3>1 DEF FactorsOK
        <4>2. app'.lowered = Lowered(request[r].code)
          BY <2>3, <3>1 DEF counted
        <4> QED
          BY <1>0, <2>2, <2>3, <2>5, <4>1, <4>2, LoweringMarks DEF FactorsInv
      <3>2. CASE ~app.on
        BY <2>2, <2>3, <2>5, <3>2 DEF StepsMarked
      <3> QED
        BY <3>1, <3>2
    <2> QED
      BY <2>5, <2>6, <2>7, <2>8, <2>9 DEF FactorsInv
  <1>5. CASE DisableTOTP(r)
    <2>1. app' = [NoApp EXCEPT !.lowered = Lowered(0)] /\ recovery' = CodesAfterApp /\ UNCHANGED <<passkey, uses>>
      BY <1>5 DEF DisableTOTP
    <2>2. 0 \in 0..MaxStep /\ Lowered(0) \in Nat
      BY <1>0, LoweredIs, SignInConstants
    <2>3. app' \in AppRow /\ app'.on = FALSE /\ app'.last = 0 /\ app'.lowered = Lowered(0)
      BY <2>1, <2>2, SignInConstants DEF NoApp, AppRow
    <2>4. recovery' = IF passkey = {} THEN NoCodes ELSE recovery
      BY <2>1 DEF CodesAfterApp
    <2>5. FactorsOK'
      BY <1>0, <2>1, <2>3, <2>4, NoFactors DEF FactorsOK
    <2>6. StepsMarked'
      <3>1. /\ uses' \in [(1..MaxStep) \cup RecoveryCode -> Nat]
            /\ \A x \in 1..MaxStep : uses'[x] <= uses[x]
        BY <1>0, <2>1 DEF FactorsOK
      <3> QED
        BY <1>0, <2>2, <2>3, <3>1, LoweringMarks DEF FactorsInv
    <2> QED
      BY <2>1, <2>3, <2>4, <2>5, <2>6 DEF FactorsInv, RecoveryGoesWithTwoFactor, TwoFactor, NoCodes
  <1>6. CASE FinishPasskeyRegistration(r)
    <2>1. passkey' \subseteq Passkey /\ passkey' # {} /\ UNCHANGED app
      BY <1>0, <1>6 DEF FinishPasskeyRegistration, FactorsOK
    <2>2. CASE recovery.unused = {}
      <3>1. recovery' = [issued |-> TRUE, unused |-> RecoveryCode] /\ uses' = Unspent(RecoveryCode)
        BY <1>6, <2>2 DEF FinishPasskeyRegistration
      <3>2. uses' \in [(1..MaxStep) \cup RecoveryCode -> Nat] /\ (\A c \in RecoveryCode : uses'[c] = 0)
            /\ \A t \in 1..MaxStep : uses'[t] = uses[t]
        BY <1>0, <3>1, NewCodes, SignInConstants
      <3> QED
        BY <1>0, <2>1, <3>1, <3>2 DEF FactorsOK, FactorsInv, StepsMarked, RecoveryGoesWithTwoFactor, TwoFactor
    <2>3. CASE recovery.unused # {}
      <3>1. UNCHANGED <<recovery, uses>>
        BY <1>6, <2>3 DEF FinishPasskeyRegistration
      <3> QED
        BY <1>0, <2>1, <2>3, <3>1 DEF FactorsOK, FactorsInv, StepsMarked, RecoveryGoesWithTwoFactor, TwoFactor
    <2> QED
      BY <2>2, <2>3
  <1>7. CASE DeletePasskey(r)
    <2>1. passkey' \subseteq passkey /\ passkey # {} /\ UNCHANGED <<app, uses>>
          /\ recovery' = IF passkey' = {} /\ ~app.on THEN NoCodes ELSE recovery
      BY <1>7 DEF DeletePasskey, CodesAfterKeys
    <2> QED
      BY <1>0, <2>1, NoFactors DEF FactorsOK, FactorsInv, StepsMarked, RecoveryGoesWithTwoFactor, TwoFactor, NoCodes
  <1>8. CASE DeleteOwnAccount(r)
    <2>1. app' = NoApp /\ recovery' = NoCodes /\ uses' = Unspent(1..MaxStep) /\ passkey' = {}
      BY <1>8 DEF DeleteOwnAccount, DeleteUser
    <2>2. uses' \in [(1..MaxStep) \cup RecoveryCode -> Nat] /\ (\A t \in 1..MaxStep : uses'[t] = 0)
          /\ \A c \in RecoveryCode : uses'[c] = uses[c]
      BY <1>0, <2>1, NewCodes, SignInConstants
    <2>3. FactorsOK'
      BY <2>1, <2>2, NoFactors DEF FactorsOK
    <2> QED
      BY <2>1, <2>2, <2>3, SignInConstants DEF FactorsInv, StepsMarked, RecoveryGoesWithTwoFactor, TwoFactor, NoCodes, NoApp
  <1> QED
    BY <1>1, <1>2, <1>3, <1>4, <1>5, <1>6, <1>7, <1>8 DEF FactorsChange

-----------------------------------------------------------------------------
(* The tables; what a change of the password and the end of the account    *)
(* leave in them.                                                          *)

tableVars == <<alive, logins, challenge, ceremony, reset, pending, failed, step, tried>>

GoneTables ==
  ~alive =>
    /\ \A s \in LoginSession : logins[s] = "none"
    /\ \A c \in Challenge : challenge[c] = NoChallenge
    /\ reset = {} /\ pending = "none"
GoneFactors == ~alive => passkey = {} /\ app = NoApp /\ ~recovery.issued

TablesInv == TablesOK /\ OldPasswordEnds /\ GoneTables

TablesChange(r) ==
  \/ CreateChallenge(r) \/ StartSession(r) \/ Logout(r) \/ CountAttempt(r) \/ ChallengeIsOver(r) \/ CountFailures(r)
  \/ WrongCode(r) \/ CompleteLogin(r) \/ RequestPasswordReset(r) \/ ResetPassword(r) \/ ChangePassword(r)
  \/ SignOutOthers(r) \/ DropEmailChange(r) \/ RequestEmailChange(r) \/ BeginPasskeyRegistration(r)
  \/ AnswerRegistration(r) \/ BeginPasskeyLogin(r) \/ FinishPasskeyLogin(r) \/ BeginPasskeySecondFactor(r)
  \/ TakeSecondFactor(r) \/ FinishPasskeySecondFactor(r) \/ DeleteOwnAccount(r)

\* No other step changes sessions, challenges, links or ceremonies.
LEMMA TablesOrNot ==
  SignInNext => UNCHANGED tableVars \/ Expires \/ Tick \/ \E r \in Request : TablesChange(r)
  <1> SUFFICES ASSUME NEW r \in Request,
                      PasswordStep(r) \/ CodeStep(r) \/ ChangeStep(r) \/ AppStep(r) \/ PasskeyStep(r) \/ EndStep(r)
               PROVE  UNCHANGED tableVars \/ TablesChange(r)
    BY DEF SignInNext
  <1>1. CASE PasswordStep(r) \/ AppStep(r) \/ EndStep(r)
    BY <1>1 DEF PasswordStep, AppStep, EndStep, TablesChange, tableVars, pendingVars, Login, BeginTOTP, StoreSecret,
                MatchSetupCode, ConfirmTOTP, CheckDisableTOTP, DisableTOTP, CheckDeletion, RequestFails
  <1>2. CASE CodeStep(r)
    BY <1>2 DEF CodeStep, TablesChange, tableVars, pendingVars, VerifySecondFactor, UseCode, UseRecoveryCode
  <1>3. CASE ChangeStep(r)
    BY <1>3 DEF ChangeStep, TablesChange, tableVars, pendingVars, ReadResetLink, CheckCurrentPassword, CheckEmailChange
  <1>4. CASE PasskeyStep(r)
    BY <1>4 DEF PasskeyStep, TablesChange, tableVars, pendingVars, NoCeremony, FinishPasskeyRegistration,
                CheckDeletePasskey, DeletePasskey, ChallengeUser, UsePasskey
  <1> QED
    BY <1>1, <1>2, <1>3, <1>4

\* No challenge is a row as well.
LEMMA NoChallengeWell == NoChallenge \in [age : {"none"} \cup Age, attempts : 0..MaxCodeAttempts] /\ NoChallenge.age = "none"
  BY SignInConstants DEF NoChallenge

\* A row of login_challenges that is written, or goes.
LEMMA ChallengeWritten ==
  ASSUME TablesInv, NEW c, NEW row \in [age : {"none"} \cup Age, attempts : 0..MaxCodeAttempts], row.age # "old",
         ~alive => row = NoChallenge,
         challenge' = [challenge EXCEPT ![c] = row], UNCHANGED <<alive, logins, ceremony, reset, pending, failed, step>>,
         tried' \in [Challenge -> Nat]
  PROVE  TablesInv'
  BY DEF TablesInv, TablesOK, OldPasswordEnds, GoneTables

\* A step that changes the tables leaves nothing old behind: a password change
\* takes what was begun with the one before.
LEMMA TablesStep ==
  ASSUME SignInTypeOK, TablesInv, NEW r \in Request, TablesChange(r)
  PROVE  TablesInv'
  <1>0. Jar(r).challenge \in Ch /\ request[r] \in Doing
    BY JarWell DEF SignInTypeOK
  <1>1. CASE CreateChallenge(r)
    <2>1. PICK c \in Challenge :
            /\ challenge' = [challenge EXCEPT ![c] = [age |-> IF request[r].late THEN "late" ELSE "new", attempts |-> 0]]
            /\ tried' = [tried EXCEPT ![c] = 0]
      BY <1>1 DEF CreateChallenge
    <2>2. PICK row \in [age : {"none"} \cup Age, attempts : 0..MaxCodeAttempts] :
            row.age # "old" /\ row = [age |-> IF request[r].late THEN "late" ELSE "new", attempts |-> 0]
      <3>1. \A x \in {"late", "new"} : [age |-> x, attempts |-> 0] \in [age : {"none"} \cup Age, attempts : 0..MaxCodeAttempts]
        BY SignInConstants DEF Age
      <3> QED
        BY <3>1
    <2>3. tried' \in [Challenge -> Nat]
      BY <2>1 DEF TablesInv, TablesOK
    <2>4. alive /\ UNCHANGED <<alive, logins, ceremony, reset, pending, failed, step>>
      BY <1>1 DEF CreateChallenge
    <2> QED
      BY <2>1, <2>2, <2>3, <2>4, ChallengeWritten
  <1>2. CASE CountAttempt(r)
    <2> DEFINE c == Jar(r).challenge
    <2>1. c \in Challenge /\ challenge[c].age # "none" /\ challenge[c].attempts < MaxCodeAttempts
      BY <1>0, <1>2 DEF CountAttempt, Ch
    <2>2. PICK row : row = challenge[c] /\ row \in [age : {"none"} \cup Age, attempts : 0..MaxCodeAttempts]
      BY <2>1 DEF TablesInv, TablesOK
    <2>3. PICK new : new = [row EXCEPT !.attempts = @ + 1]
      OBVIOUS
    <2>4. new \in [age : {"none"} \cup Age, attempts : 0..MaxCodeAttempts] /\ new.age = row.age
      BY <2>1, <2>2, <2>3, SignInConstants
    <2>5. challenge' = [challenge EXCEPT ![c] = new]
      BY <1>2, <2>2, <2>3 DEF CountAttempt
    <2>6. row.age # "old" /\ alive
      BY <2>1, <2>2, NoChallengeWell DEF TablesInv, OldPasswordEnds, GoneTables
    <2>7. UNCHANGED <<alive, logins, ceremony, reset, pending, failed, tried, step>> /\ tried \in [Challenge -> Nat]
      BY <1>2 DEF CountAttempt, TablesInv, TablesOK
    <2> HIDE DEF c
    <2> QED
      BY <2>4, <2>5, <2>6, <2>7, ChallengeWritten
  <1>3. CASE ChallengeIsOver(r) \/ CompleteLogin(r)
    <2>1. \E c : challenge' = [challenge EXCEPT ![c] = NoChallenge]
      BY <1>3 DEF ChallengeIsOver, CompleteLogin
    <2>2. UNCHANGED <<alive, logins, ceremony, reset, pending, failed, tried, step>> /\ tried \in [Challenge -> Nat]
      BY <1>3 DEF ChallengeIsOver, CompleteLogin, TablesInv, TablesOK
    <2> QED
      BY <2>1, <2>2, NoChallengeWell, ChallengeWritten
  <1>4. CASE FinishPasskeySecondFactor(r)
    <2>1. challenge' = challenge \/ \E c : challenge' = [challenge EXCEPT ![c] = NoChallenge]
      BY <1>4 DEF FinishPasskeySecondFactor
    <2>2. UNCHANGED <<alive, logins, ceremony, reset, pending, failed, tried, step>> /\ tried \in [Challenge -> Nat]
      BY <1>4 DEF FinishPasskeySecondFactor, TablesInv, TablesOK
    <2>3. CASE challenge' = challenge
      BY <2>2, <2>3 DEF TablesInv, TablesOK, OldPasswordEnds, GoneTables
    <2> QED
      BY <2>1, <2>2, <2>3, NoChallengeWell, ChallengeWritten
  <1>5. CASE CountFailures(r)
    <2>1. UNCHANGED <<alive, logins, challenge, ceremony, reset, pending, failed, step>> /\ tried' \in [Challenge -> Nat]
      BY <1>5 DEF CountFailures, TablesInv, TablesOK
    <2> QED
      BY <2>1 DEF TablesInv, TablesOK, OldPasswordEnds, GoneTables
  <1>6. CASE WrongCode(r)
    <2>1. UNCHANGED <<alive, logins, challenge, ceremony, reset, pending, tried, step>> /\ failed' \in Nat
      BY <1>6 DEF WrongCode, TablesInv, TablesOK
    <2> QED
      BY <2>1 DEF TablesInv, TablesOK, OldPasswordEnds, GoneTables
  <1>7. CASE StartSession(r)
    <2>1. alive /\ UNCHANGED <<alive, challenge, ceremony, reset, pending, failed, tried, step>>
      BY <1>7 DEF StartSession, pendingVars
    <2>2. PICK s \in LoginSession, x \in {"late", "new"} : logins' = [logins EXCEPT ![s] = x]
      BY <1>7 DEF StartSession
    <2>3. logins' \in [LoginSession -> {"none"} \cup Age] /\ \A t \in LoginSession : logins'[t] # "old"
      BY <2>2 DEF TablesInv, TablesOK, OldPasswordEnds, Age
    <2> QED
      BY <2>1, <2>3 DEF TablesInv, TablesOK, OldPasswordEnds, GoneTables
  <1>8. CASE Logout(r) \/ SignOutOthers(r)
    <2>1. UNCHANGED <<alive, challenge, ceremony, reset, pending, failed, tried, step>>
      BY <1>8 DEF Logout, SignOutOthers, pendingVars
    <2>2. logins' \in [LoginSession -> {"none"} \cup Age] /\ \A s \in LoginSession : logins'[s] \in {"none", logins[s]}
      BY <1>8 DEF Logout, SignOutOthers, TablesInv, TablesOK
    <2> QED
      BY <2>1, <2>2 DEF TablesInv, TablesOK, OldPasswordEnds, GoneTables
  <1>9. CASE RequestPasswordReset(r)
    <2>1. alive /\ reset' \subseteq ResetLink /\ UNCHANGED <<alive, logins, challenge, ceremony, pending, failed, tried, step>>
      BY <1>9 DEF RequestPasswordReset
    <2> QED
      BY <2>1 DEF TablesInv, TablesOK, OldPasswordEnds, GoneTables
  <1>10. ASSUME NEW keep, SetPassword(r, keep) PROVE TablesInv'
    <2>1. alive /\ reset' = {} /\ pending' = "none" /\ UNCHANGED <<alive, ceremony, failed, tried, step>>
      BY <1>10 DEF SetPassword, PendingAfter, Older
    <2>2. logins' \in [LoginSession -> {"none"} \cup Age] /\ \A s \in LoginSession : logins'[s] # "old"
      <3>1. \A s \in LoginSession : logins'[s] = IF s = keep /\ logins[s] # "none" THEN "kept" ELSE Older(SessionsAfter(keep)[s])
        BY <1>10 DEF SetPassword
      <3>2. \A s \in LoginSession : logins'[s] \in {"kept", "none"}
        BY <3>1 DEF SessionsAfter, Older
      <3>3. logins' = [s \in LoginSession |-> logins'[s]]
        BY <1>10 DEF SetPassword
      <3> QED
        BY <3>2, <3>3 DEF Age
    <2>3. /\ challenge' \in [Challenge -> [age : {"none"} \cup Age, attempts : 0..MaxCodeAttempts]]
          /\ \A c \in Challenge : challenge'[c].age # "old"
      <3>1. challenge' = [x \in Challenge |-> [NoChallenge EXCEPT !.age = "none"]]
        BY <1>10, NoChallengeWell DEF SetPassword, ChallengesAfter, Older
      <3>2. [NoChallenge EXCEPT !.age = "none"] = NoChallenge
        BY DEF NoChallenge
      <3> QED
        BY <3>1, <3>2, NoChallengeWell
    <2> QED
      BY <2>1, <2>2, <2>3 DEF TablesInv, TablesOK, OldPasswordEnds, GoneTables
  <1>11. CASE ResetPassword(r) \/ ChangePassword(r)
    BY <1>10, <1>11 DEF ResetPassword, ChangePassword
  <1>12. CASE DropEmailChange(r) \/ RequestEmailChange(r)
    <2>1. UNCHANGED <<alive, logins, challenge, ceremony, reset, failed, tried, step>>
          /\ pending' \in {"none", "new", "late"} /\ (~alive => pending' = "none")
      BY <1>12 DEF DropEmailChange, RequestEmailChange
    <2> QED
      BY <2>1 DEF TablesInv, TablesOK, OldPasswordEnds, GoneTables, Age
  <1>13. CASE \/ BeginPasskeyRegistration(r) \/ AnswerRegistration(r) \/ BeginPasskeyLogin(r) \/ FinishPasskeyLogin(r)
              \/ BeginPasskeySecondFactor(r) \/ TakeSecondFactor(r)
    <2>1. UNCHANGED <<alive, logins, challenge, reset, pending, failed, tried, step>>
      BY <1>13 DEF BeginPasskeyRegistration, AnswerRegistration, BeginPasskeyLogin, FinishPasskeyLogin,
                   BeginPasskeySecondFactor, TakeSecondFactor
    <2>2. \E c : \E kind \in {"none"} \cup Kinds : ceremony' = [ceremony EXCEPT ![c] = kind]
      BY <1>13 DEF BeginPasskeyRegistration, AnswerRegistration, BeginPasskeyLogin, FinishPasskeyLogin,
                   BeginPasskeySecondFactor, TakeSecondFactor, StartCeremony, TakeCeremony, Kinds
    <2>3. ceremony' \in [Ceremony -> {"none"} \cup Kinds]
      BY <2>2 DEF TablesInv, TablesOK
    <2> QED
      BY <2>1, <2>3 DEF TablesInv, TablesOK, OldPasswordEnds, GoneTables
  <1>14. CASE DeleteOwnAccount(r)
    <2>1. /\ alive' = FALSE /\ logins' = [s \in LoginSession |-> "none"] /\ challenge' = [c \in Challenge |-> NoChallenge]
          /\ ceremony' = [c \in Ceremony |-> IF ceremony[c] = "login" THEN "login" ELSE "none"]
          /\ reset' = {} /\ pending' = "none" /\ failed' = 0 /\ UNCHANGED <<tried, step>>
      BY <1>14 DEF DeleteOwnAccount, DeleteUser
    <2> QED
      BY <2>1, NoChallengeWell DEF TablesInv, TablesOK, OldPasswordEnds, GoneTables, Age, Kinds
  <1> QED
    BY <1>1, <1>2, <1>3, <1>4, <1>5, <1>6, <1>7, <1>8, <1>9, <1>11, <1>12, <1>13, <1>14 DEF TablesChange

\* What expires only goes away.
LEMMA TablesExpire ==
  ASSUME TablesInv, Expires \/ Tick
  PROVE  TablesInv'
  <1>1. CASE Tick
    BY <1>1 DEF Tick, pendingVars, TablesInv, TablesOK, OldPasswordEnds, GoneTables
  <1>2. ASSUME NEW s \in LoginSession, SessionExpires(s) PROVE TablesInv'
    BY <1>2 DEF SessionExpires, pendingVars, TablesInv, TablesOK, OldPasswordEnds, GoneTables
  <1>3. ASSUME NEW c \in Challenge, ChallengeExpires(c) PROVE TablesInv'
    <2>1. UNCHANGED <<alive, logins, ceremony, reset, pending, failed, tried, step>> /\ tried \in [Challenge -> Nat]
      BY <1>3 DEF ChallengeExpires, TablesInv, TablesOK
    <2> QED
      BY <1>3, <2>1, NoChallengeWell, ChallengeWritten DEF ChallengeExpires
  <1>4. ASSUME NEW c \in Ceremony, CeremonyExpires(c) PROVE TablesInv'
    BY <1>4 DEF CeremonyExpires, TablesInv, TablesOK, OldPasswordEnds, GoneTables
  <1>5. CASE ResetExpires \/ EmailChangeEnds
    BY <1>5 DEF ResetExpires, EmailChangeEnds, TablesInv, TablesOK, OldPasswordEnds, GoneTables
  <1>6. CASE FailureExpires
    <2>1. UNCHANGED <<alive, logins, challenge, ceremony, reset, pending, tried, step>> /\ failed' \in Nat
      BY <1>6 DEF FailureExpires, TablesInv, TablesOK
    <2> QED
      BY <2>1 DEF TablesInv, TablesOK, OldPasswordEnds, GoneTables
  <1> QED
    BY <1>1, <1>2, <1>3, <1>4, <1>5, <1>6 DEF Expires

-----------------------------------------------------------------------------
(* Attempts: what a handler has counted, and is still to compare, counts.  *)

Counting(c) == {r \in Request : request[r].at = "count" /\ request[r].ch = c}
AttemptsInv ==
  \A c \in Challenge :
    /\ tried[c] + Cardinality(Counting(c)) <= MaxCodeAttempts
    /\ challenge[c].age # "none" => tried[c] + Cardinality(Counting(c)) <= challenge[c].attempts

\* A handler that does something else than count.
GoesOn(r) == request' = request \/ \E d : Goes(r, d) /\ d.at # "count"

\* A handler that does not come to count goes on.
LEMMA GoesOnIf == \A r, d : Goes(r, d) /\ d.at # "count" => GoesOn(r)
  BY DEF GoesOn

\* Handlers that count an attempt can be counted.
LEMMA CountingIsFinite ==
  ASSUME NEW c
  PROVE  IsFiniteSet(Counting(c)) /\ Cardinality(Counting(c)) \in Nat
  <1>1. Counting(c) \subseteq Request
    BY DEF Counting
  <1> QED
    BY <1>1, FS_Subset, FS_CardinalityType, SignInConstants

\* Only CountAttempt counts, of the steps of a code,
LEMMA CodeStepsGoOn ==
  ASSUME SignInTypeOK, NEW r \in Request, CodeStep(r), ~CountAttempt(r)
  PROVE  GoesOn(r)
  <1>1. request[r] \in Doing
    BY DEF SignInTypeOK
  <1>2. CASE ChallengeIsOver(r)
    BY <1>2 DEF ChallengeIsOver, GoesOn
  <1>3. CASE CountFailures(r)
    <2>1. [request[r] EXCEPT !.at = "verify"].at # "count"
      BY <1>1, <1>3, DoingRows DEF CountFailures, CodeDoing
    <2> QED
      BY <1>3, <2>1, DoingParts DEF CountFailures, GoesOn
  <1>4. CASE VerifySecondFactor(r)
    <2>1. [request[r] EXCEPT !.at = "useRecovery"].at # "count" /\ [request[r] EXCEPT !.at = "wrong"].at # "count"
      BY <1>1, <1>4, DoingRows DEF VerifySecondFactor, CodeDoing
    <2>2. CASE \/ Goes(r, [request[r] EXCEPT !.at = "useRecovery"])
               \/ Goes(r, [request[r] EXCEPT !.at = "wrong"])
      BY <2>1, <2>2, GoesOnIf
    <2>3. ASSUME NEW t, Goes(r, [at |-> "useCode", for |-> request[r].for, ch |-> request[r].ch, late |-> request[r].late, code |-> t])
          PROVE  GoesOn(r)
      BY <2>3, GoesOnIf
    <2> QED
      BY <1>4, <2>2, <2>3 DEF VerifySecondFactor
  <1>5. CASE UseCode(r) \/ UseRecoveryCode(r)
    BY <1>5 DEF UseCode, UseRecoveryCode, Verdict, GoesOn
  <1>6. CASE WrongCode(r) \/ CompleteLogin(r)
    BY <1>6, DoingParts DEF WrongCode, CompleteLogin, GoesOn
  <1> QED
    BY <1>2, <1>3, <1>4, <1>5, <1>6 DEF CodeStep

\* and no step of a passkey,
LEMMA PasskeyStepsGoOn ==
  ASSUME SignInTypeOK, NEW r \in Request, PasskeyStep(r)
  PROVE  GoesOn(r)
  <1>1. request[r] \in Doing
    BY DEF SignInTypeOK
  <1>2. CASE NoCeremony(r) \/ BeginPasskeyRegistration(r) \/ BeginPasskeyLogin(r) \/ BeginPasskeySecondFactor(r)
    BY <1>2 DEF NoCeremony, BeginPasskeyRegistration, BeginPasskeyLogin, BeginPasskeySecondFactor, GoesOn
  <1>3. CASE FinishPasskeyRegistration(r) \/ DeletePasskey(r)
    BY <1>3, DoingParts DEF FinishPasskeyRegistration, DeletePasskey, GoesOn
  <1>4. CASE AnswerRegistration(r) \/ CheckDeletePasskey(r) \/ FinishPasskeyLogin(r) \/ ChallengeUser(r)
    BY <1>4, GoesOnIf DEF AnswerRegistration, CheckDeletePasskey, FinishPasskeyLogin, ChallengeUser
  <1>5. CASE TakeSecondFactor(r) \/ UsePasskey(r)
    <2>1. request[r] \in FactorDoing
      BY <1>1, <1>5, DoingRows DEF TakeSecondFactor, UsePasskey
    <2>2. [request[r] EXCEPT !.at = "assert"].at # "count" /\ [request[r] EXCEPT !.at = "passkeyChecked"].at # "count"
      BY <2>1 DEF FactorDoing
    <2> QED
      BY <1>5, <2>2 DEF TakeSecondFactor, UsePasskey, GoesOn
  <1>6. CASE FinishPasskeySecondFactor(r)
    <2>1. [request[r] EXCEPT !.at = "startSession"].at # "count"
      BY <1>1, <1>6, DoingRows DEF FinishPasskeySecondFactor, SessionDoing
    <2> QED
      BY <1>6, <2>1 DEF FinishPasskeySecondFactor, GoesOn
  <1> QED
    BY <1>2, <1>3, <1>4, <1>5, <1>6 DEF PasskeyStep

\* and no other one; a new password takes the challenges away.
LEMMA OtherStepsGoOn ==
  ASSUME NEW r \in Request, PasswordStep(r) \/ ChangeStep(r) \/ AppStep(r) \/ EndStep(r)
  PROVE  GoesOn(r) \/ \E keep : SetPassword(r, keep)
  <1>1. CASE Login(r) \/ Logout(r) \/ RequestPasswordReset(r) \/ ReadResetLink(r) \/ CheckCurrentPassword(r)
             \/ CheckEmailChange(r) \/ SignOutOthers(r)
    BY <1>1 DEF Login, Logout, RequestPasswordReset, ReadResetLink, CheckCurrentPassword, CheckEmailChange, SignOutOthers,
                GoesOn
  <1>2. CASE BeginTOTP(r) \/ MatchSetupCode(r) \/ CheckDisableTOTP(r) \/ CheckDeletion(r)
    BY <1>2, GoesOnIf DEF BeginTOTP, MatchSetupCode, CheckDisableTOTP, CheckDeletion
  <1>3. CASE ResetPassword(r) \/ ChangePassword(r)
    BY <1>3 DEF ResetPassword, ChangePassword
  <1>4. CASE Goes(r, NoRequest)
    BY <1>4, DoingParts DEF GoesOn
  <1> QED
    BY <1>1, <1>2, <1>3, <1>4
    DEF PasswordStep, ChangeStep, AppStep, EndStep, CreateChallenge, StartSession, DropEmailChange, RequestEmailChange,
        StoreSecret, ConfirmTOTP, DisableTOTP, DeleteOwnAccount, DeleteUser, RequestFails

\* Only CountAttempt adds to what is counted.
LEMMA CountingFalls ==
  ASSUME SignInTypeOK, SignInNext
  PROVE  (\A c : Counting(c)' \subseteq Counting(c)) \/ \E r \in Request : CountAttempt(r)
  <1>1. CASE Expires \/ Tick
    <2>1. request' = request
      BY <1>1 DEF Expires, Tick, SessionExpires, ChallengeExpires, CeremonyExpires, ResetExpires, EmailChangeEnds,
                  FailureExpires
    <2> QED
      BY <2>1 DEF Counting
  <1>2. ASSUME NEW r \in Request, GoesOn(r) PROVE \A c : Counting(c)' \subseteq Counting(c)
    BY <1>2 DEF GoesOn, Goes, Counting, SignInTypeOK
  <1>3. ASSUME NEW r \in Request, NEW keep, SetPassword(r, keep) PROVE \A c : Counting(c)' \subseteq Counting(c)
    BY <1>3, PasswordIsSet DEF Counting
  <1> QED
    BY <1>1, <1>2, <1>3, CodeStepsGoOn, PasskeyStepsGoOn, OtherStepsGoOn DEF SignInNext

\* Rows go, or stay as they are; no code is compared and none is counted.
LEMMA AttemptsKept ==
  ASSUME AttemptsInv, TablesOK, UNCHANGED tried, NEW c \in Challenge, Counting(c)' \subseteq Counting(c),
         challenge'[c].age = "none" \/ challenge'[c] = challenge[c]
  PROVE  /\ tried'[c] + Cardinality(Counting(c)') <= MaxCodeAttempts
         /\ challenge'[c].age # "none" => tried'[c] + Cardinality(Counting(c)') <= challenge'[c].attempts
  <1>1. Cardinality(Counting(c)') <= Cardinality(Counting(c)) /\ Cardinality(Counting(c)') \in Nat /\ Cardinality(Counting(c)) \in Nat
    BY CountingIsFinite, FS_Subset, FS_CardinalityType
  <1>2. tried[c] \in Nat /\ tried' = tried /\ challenge[c].attempts \in Nat
    BY SignInConstants DEF TablesOK
  <1> QED
    BY <1>1, <1>2, SignInConstants DEF AttemptsInv

\* An attempt is counted before its code is compared.
LEMMA AttemptsStep ==
  ASSUME SignInTypeOK, TablesInv, AttemptsInv, SignInNext
  PROVE  AttemptsInv'
  <1>0. TablesOK /\ request \in [Request -> Doing] /\ challenge \in [Challenge -> [age : {"none"} \cup Age, attempts : 0..MaxCodeAttempts]]
    BY DEF TablesInv, SignInTypeOK
  <1>1. ASSUME NEW r \in Request, CountAttempt(r) PROVE AttemptsInv'
    <2>1. PICK c \in Challenge : c = Jar(r).challenge /\ challenge[c].age # "none" /\ challenge[c].attempts < MaxCodeAttempts
      BY <1>1, JarWell DEF CountAttempt, Ch
    <2>2. PICK d \in Doing : Goes(r, d) /\ d.at = "count" /\ d.ch = c
      <3>1. \A l \in BOOLEAN : [at |-> "count", for |-> "login", ch |-> c, late |-> l] \in CodeDoing
        BY <2>1 DEF CodeDoing, Purpose, Ch
      <3> QED
        BY <1>1, <2>1, <3>1, DoingParts DEF CountAttempt
    <2>3. /\ request' \in [Request -> Doing] /\ request'[r].at = "count" /\ request'[r].ch = c
          /\ (\A q \in Request : q # r => request'[q] = request[q]) /\ request[r].at = "idle"
      BY <1>1, <2>2, GoesWell, DoingParts DEF CountAttempt
    <2>4. tried' = tried /\ challenge' = [challenge EXCEPT ![c].attempts = @ + 1]
      BY <1>1, <2>1 DEF CountAttempt
    <2>5. challenge'[c].attempts = challenge[c].attempts + 1 /\ \A x \in Challenge : x # c => challenge'[x] = challenge[x]
      BY <1>0, <2>1, <2>4
    <2>6. Counting(c)' = Counting(c) \cup {r} /\ r \notin Counting(c)
      BY <2>3 DEF Counting
    <2>7. Cardinality(Counting(c)') = Cardinality(Counting(c)) + 1 /\ Cardinality(Counting(c)) \in Nat
      <3>1. PICK S : S = Counting(c)
        OBVIOUS
      <3>2. Cardinality(S \cup {r}) = Cardinality(S) + 1
        BY <2>6, <3>1, CountingIsFinite, FS_AddElement
      <3> QED
        BY <2>6, <3>1, <3>2, CountingIsFinite
    <2>8. tried[c] \in Nat /\ challenge[c].attempts \in Nat /\ tried[c] + Cardinality(Counting(c)) <= challenge[c].attempts
      BY <1>0, <2>1, SignInConstants DEF TablesOK, AttemptsInv
    <2>9. ASSUME NEW x \in Challenge, x # c
          PROVE  /\ tried'[x] + Cardinality(Counting(x)') <= MaxCodeAttempts
                 /\ challenge'[x].age # "none" => tried'[x] + Cardinality(Counting(x)') <= challenge'[x].attempts
      <3>1. Counting(x)' = Counting(x)
        BY <2>3, <2>9 DEF Counting
      <3> QED
        BY <1>0, <2>4, <2>5, <2>9, <3>1, AttemptsKept
    <2> QED
      BY <2>1, <2>4, <2>5, <2>7, <2>8, <2>9, SignInConstants DEF AttemptsInv
  <1>2. ASSUME NEW r \in Request, CreateChallenge(r) PROVE AttemptsInv'
    <2>1. PICK c \in Challenge :
            /\ FreshChallenge(c) /\ tried' = [tried EXCEPT ![c] = 0]
            /\ challenge' = [challenge EXCEPT ![c] = [age |-> IF request[r].late THEN "late" ELSE "new", attempts |-> 0]]
      BY <1>2 DEF CreateChallenge
    <2>2. /\ tried'[c] = 0 /\ challenge'[c].attempts = 0
          /\ \A x \in Challenge : x # c => tried'[x] = tried[x] /\ challenge'[x] = challenge[x]
      BY <1>0, <2>1 DEF TablesOK
    <2>3. GoesOn(r) /\ \A x : Counting(x)' \subseteq Counting(x)
      <3>1. Goes(r, NoRequest)
        BY <1>2 DEF CreateChallenge
      <3> QED
        BY <1>0, <3>1, DoingParts DEF GoesOn, Goes, Counting
    <2>4. Cardinality(Counting(c)') = 0
      <3>1. ASSUME NEW q \in Counting(c) PROVE FALSE
        <4>1. q \in Request /\ request[q].at = "count" /\ request[q].ch = c /\ request[q] \in Doing
          BY <1>0 DEF Counting
        <4>2. "ch" \in DOMAIN request[q]
          BY <4>1, DoingRows DEF CodeDoing
        <4> QED
          BY <2>1, <4>1, <4>2 DEF FreshChallenge
      <3>2. Counting(c)' = {}
        BY <2>3, <3>1
      <3> QED
        BY <3>2, FS_EmptySet
    <2>5. ASSUME NEW x \in Challenge, x # c
          PROVE  /\ tried'[x] + Cardinality(Counting(x)') <= MaxCodeAttempts
                 /\ challenge'[x].age # "none" => tried'[x] + Cardinality(Counting(x)') <= challenge'[x].attempts
      <3>1. Cardinality(Counting(x)') <= Cardinality(Counting(x)) /\ Cardinality(Counting(x)') \in Nat /\ Cardinality(Counting(x)) \in Nat
        BY <2>3, CountingIsFinite, FS_Subset, FS_CardinalityType
      <3>2. tried[x] \in Nat /\ challenge[x].attempts \in Nat /\ tried'[x] = tried[x] /\ challenge'[x] = challenge[x]
        BY <1>0, <2>2, <2>5, SignInConstants DEF TablesOK
      <3> QED
        BY <3>1, <3>2, SignInConstants DEF AttemptsInv
    <2> QED
      BY <2>2, <2>4, <2>5, SignInConstants DEF AttemptsInv
  <1>3. ASSUME NEW r \in Request, CountFailures(r), tried' # tried PROVE AttemptsInv'
    <2>0. PICK c : c = request[r].ch
      OBVIOUS
    <2>1. request[r] \in CodeDoing /\ request[r].at = "count" /\ UNCHANGED challenge
      BY <1>0, <1>3, DoingRows DEF CountFailures
    <2>2. Goes(r, [request[r] EXCEPT !.at = "verify"]) /\ tried' = [tried EXCEPT ![c] = @ + 1]
      BY <1>3, <2>0 DEF CountFailures
    <2>3. PICK d \in Doing : d = [request[r] EXCEPT !.at = "verify"] /\ d.at = "verify"
      <3>1. [request[r] EXCEPT !.at = "verify"].at = "verify"
        BY <2>1 DEF CodeDoing
      <3> QED
        BY <2>1, <3>1, DoingMoves, DoingParts
    <2>4. request'[r].at = "verify" /\ \A q \in Request : q # r => request'[q] = request[q]
      BY <2>2, <2>3, GoesWell
    <2>5. \A x \in Challenge : x # c => tried'[x] = tried[x] /\ Counting(x)' = Counting(x)
      BY <1>0, <2>0, <2>1, <2>2, <2>4 DEF TablesOK, Counting
    <2>6. c \in Challenge => tried'[c] = tried[c] + 1
      BY <1>0, <2>2 DEF TablesOK
    <2>7. Counting(c)' = Counting(c) \ {r} /\ r \in Counting(c)
      BY <2>0, <2>1, <2>4 DEF Counting
    <2>8. Cardinality(Counting(c)') = Cardinality(Counting(c)) - 1 /\ Cardinality(Counting(c)) \in Nat /\ Cardinality(Counting(c)') \in Nat
      <3>1. PICK S : S = Counting(c)
        OBVIOUS
      <3>2. Cardinality(S \ {r}) = Cardinality(S) - 1 /\ IsFiniteSet(S)
        BY <2>7, <3>1, CountingIsFinite, FS_RemoveElement
      <3> QED
        BY <2>7, <3>1, <3>2, CountingIsFinite, FS_RemoveElement, FS_CardinalityType
    <2>9. \A x \in Challenge : tried[x] \in Nat /\ challenge[x].attempts \in Nat
      BY <1>0, SignInConstants DEF TablesOK
    <2>10. ASSUME NEW x \in Challenge
           PROVE  tried'[x] + Cardinality(Counting(x)') = tried[x] + Cardinality(Counting(x))
      <3>1. CASE x = c
        BY <2>6, <2>8, <2>9, <3>1
      <3>2. CASE x # c
        BY <2>5, <3>2
      <3> QED
        BY <3>1, <3>2
    <2> QED
      BY <2>1, <2>10 DEF AttemptsInv
  <1>4. CASE tried' = tried /\ (\A c : Counting(c)' \subseteq Counting(c))
             /\ \A c \in Challenge : challenge'[c].age = "none" \/ challenge'[c] = challenge[c]
    BY <1>0, <1>4, AttemptsKept DEF AttemptsInv
  <1>5. ASSUME NEW r \in Request, TablesChange(r), ~CountAttempt(r), ~CreateChallenge(r)
        PROVE  tried' = tried \/ CountFailures(r)
    BY <1>5 DEF TablesChange, StartSession, Logout, ChallengeIsOver, WrongCode, CompleteLogin, RequestPasswordReset,
         ResetPassword, ChangePassword, SetPassword, SignOutOthers, DropEmailChange, RequestEmailChange,
         BeginPasskeyRegistration, AnswerRegistration, BeginPasskeyLogin, FinishPasskeyLogin, BeginPasskeySecondFactor,
         TakeSecondFactor, FinishPasskeySecondFactor, DeleteOwnAccount, DeleteUser, pendingVars
  <1>6. ASSUME NEW r \in Request, TablesChange(r), ~CountAttempt(r), ~CreateChallenge(r), NEW c \in Challenge
        PROVE  challenge'[c].age = "none" \/ challenge'[c] = challenge[c]
    <2>1. CASE ChallengeIsOver(r) \/ CompleteLogin(r) \/ FinishPasskeySecondFactor(r)
      BY <1>0, <2>1, NoChallengeWell DEF ChallengeIsOver, CompleteLogin, FinishPasskeySecondFactor
    <2>2. CASE ResetPassword(r) \/ ChangePassword(r)
      <3>1. challenge' = [x \in Challenge |-> [NoChallenge EXCEPT !.age = "none"]]
        BY <2>2, NoChallengeWell DEF ResetPassword, ChangePassword, SetPassword, ChallengesAfter, Older
      <3> QED
        BY <3>1 DEF NoChallenge
    <2>3. CASE DeleteOwnAccount(r)
      BY <2>3, NoChallengeWell DEF DeleteOwnAccount, DeleteUser
    <2>4. CASE UNCHANGED challenge
      BY <2>4
    <2> QED
      BY <1>6, <2>1, <2>2, <2>3, <2>4
      DEF TablesChange, StartSession, Logout, CountFailures, WrongCode, RequestPasswordReset, SignOutOthers, DropEmailChange,
          RequestEmailChange, BeginPasskeyRegistration, AnswerRegistration, BeginPasskeyLogin, FinishPasskeyLogin,
          BeginPasskeySecondFactor, TakeSecondFactor, pendingVars
  <1>7. CASE Expires \/ Tick
    <2>1. tried' = tried
      BY <1>7 DEF Expires, Tick, SessionExpires, ChallengeExpires, CeremonyExpires, ResetExpires, EmailChangeEnds,
                  FailureExpires, pendingVars
    <2>2. challenge' = challenge \/ \E c : challenge' = [challenge EXCEPT ![c] = NoChallenge]
      BY <1>7 DEF Expires, Tick, SessionExpires, ChallengeExpires, CeremonyExpires, ResetExpires, EmailChangeEnds,
                  FailureExpires, pendingVars
    <2>3. \A c \in Challenge : challenge'[c].age = "none" \/ challenge'[c] = challenge[c]
      BY <1>0, <2>2, NoChallengeWell
    <2>4. request' = request
      BY <1>7 DEF Expires, Tick, SessionExpires, ChallengeExpires, CeremonyExpires, ResetExpires, EmailChangeEnds,
                  FailureExpires
    <2>5. \A c : Counting(c)' \subseteq Counting(c)
      BY <2>4 DEF Counting
    <2> QED
      BY <1>4, <2>1, <2>3, <2>5
  <1>8. CASE UNCHANGED tableVars
    <2>1. tried' = tried /\ challenge' = challenge
      BY <1>8 DEF tableVars
    <2> QED
      BY <1>1, <1>4, <2>1, CountingFalls
  <1>9. ASSUME NEW r \in Request, TablesChange(r) PROVE AttemptsInv'
    <2>1. CASE CountAttempt(r) \/ CreateChallenge(r) \/ tried' # tried
      BY <1>1, <1>2, <1>3, <1>5, <1>9, <2>1
    <2>2. CASE ~CountAttempt(r) /\ ~CreateChallenge(r) /\ tried' = tried
      <3>1. \A c \in Challenge : challenge'[c].age = "none" \/ challenge'[c] = challenge[c]
        BY <1>6, <1>9, <2>2
      <3> QED
        BY <1>1, <1>4, <2>2, <3>1, CountingFalls
    <2> QED
      BY <2>1, <2>2
  <1> QED
    BY <1>7, <1>8, <1>9, TablesOrNot

-----------------------------------------------------------------------------
SignInInv == SignInTypeOK /\ OldPasswordEnds /\ GoneTables /\ GoneFactors /\ FactorsInv /\ AttemptsInv

\* All of it holds at first.
LEMMA SignInInitially == SignInInit => SignInInv
  <1> SUFFICES ASSUME SignInInit PROVE SignInInv
    OBVIOUS
  <1> USE DEF SignInInit, SignedOut
  <1>1. SignInTypeOK
    <2>1. request \in [Request -> Doing]
      BY DoingParts
    <2>2. challenge \in [Challenge -> [age : {"none"} \cup Age, attempts : 0..MaxCodeAttempts]]
      BY NoChallengeWell
    <2>3. cookie \in [Browser -> [session : LoginSession \cup {None}, challenge : Ch, ceremony : Ceremony \cup {None}]]
      BY DEF NoCookies, Ch
    <2> QED
      BY <2>1, <2>2, <2>3, NoFactors DEF SignInTypeOK, AppRow
  <1>2. OldPasswordEnds /\ GoneTables /\ GoneFactors
    BY NoChallengeWell DEF OldPasswordEnds, GoneTables, GoneFactors
  <1>3. FactorsInv
    BY SignInConstants DEF FactorsInv, StepsMarked, RecoveryGoesWithTwoFactor, TwoFactor, NoApp, NoCodes
  <1>4. AttemptsInv
    <2>1. \A c \in Challenge : Counting(c) = {}
      BY DEF Counting, NoRequest
    <2>2. Cardinality({}) = 0
      BY FS_EmptySet
    <2>3. \A c \in Challenge : tried[c] = 0 /\ challenge[c] = NoChallenge
      OBVIOUS
    <2> HIDE DEF SignInInit, SignedOut
    <2>4. \A c \in Challenge : Cardinality(Counting(c)) = 0
      BY <2>1, <2>2
    <2> QED
      BY <2>3, <2>4, NoChallengeWell, SignInConstants DEF AttemptsInv
  <1> QED
    BY <1>1, <1>2, <1>3, <1>4 DEF SignInInv

\* Every step keeps it.
LEMMA SignInStep == SignInInv /\ [SignInNext]_signInVars => SignInInv'
  <1> SUFFICES ASSUME SignInInv, [SignInNext]_signInVars PROVE SignInInv'
    OBVIOUS
  <1>1. CASE UNCHANGED signInVars
    BY <1>1 DEF signInVars, pendingVars, factorVars, SignInInv, SignInTypeOK, OldPasswordEnds, GoneTables, GoneFactors,
         FactorsInv, StepsMarked, RecoveryGoesWithTwoFactor, TwoFactor, AttemptsInv, Counting
  <1>2. CASE SignInNext
    <2>1. TablesInv /\ SignInTypeOK
      BY DEF SignInInv, TablesInv, TablesOK, SignInTypeOK
    <2>2. TablesInv'
      <3>1. CASE UNCHANGED tableVars
        BY <2>1, <3>1 DEF tableVars, TablesInv, TablesOK, OldPasswordEnds, GoneTables
      <3> QED
        BY <1>2, <2>1, <3>1, TablesOrNot, TablesStep, TablesExpire
    <2>3. FactorsOK' /\ FactorsInv'
      <3>1. CASE UNCHANGED factorVars
        BY <3>1 DEF factorVars, SignInInv, SignInTypeOK, FactorsOK, AppRow, FactorsInv, StepsMarked,
                    RecoveryGoesWithTwoFactor, TwoFactor
      <3> QED
        BY <1>2, <3>1, FactorsOrNot, FactorsStep DEF SignInInv
    <2>4. GoneFactors'
      <3>1. CASE UNCHANGED factorVars
        <4>1. alive' = alive \/ \E r \in Request : DeleteOwnAccount(r)
          <5>1. CASE UNCHANGED tableVars
            BY <5>1 DEF tableVars
          <5>2. CASE Expires \/ Tick
            BY <5>2 DEF Expires, Tick, SessionExpires, ChallengeExpires, CeremonyExpires, ResetExpires, EmailChangeEnds,
                        FailureExpires
          <5>3. ASSUME NEW r \in Request, TablesChange(r) PROVE alive' = alive \/ DeleteOwnAccount(r)
            BY <5>3 DEF TablesChange, CreateChallenge, StartSession, Logout, CountAttempt, ChallengeIsOver, CountFailures,
                 WrongCode, CompleteLogin, RequestPasswordReset, ResetPassword, ChangePassword, SetPassword, SignOutOthers,
                 DropEmailChange, RequestEmailChange, BeginPasskeyRegistration, AnswerRegistration, BeginPasskeyLogin,
                 FinishPasskeyLogin, BeginPasskeySecondFactor, TakeSecondFactor, FinishPasskeySecondFactor
          <5> QED
            BY <1>2, <5>1, <5>2, <5>3, TablesOrNot
        <4>2. ASSUME NEW r \in Request, DeleteOwnAccount(r) PROVE GoneFactors'
          BY <4>2 DEF DeleteOwnAccount, DeleteUser, GoneFactors, NoCodes
        <4> QED
          BY <3>1, <4>1, <4>2 DEF factorVars, SignInInv, GoneFactors
      <3>2. ASSUME NEW r \in Request, FactorsChange(r) PROVE GoneFactors'
        <4>1. CASE DeleteOwnAccount(r)
          BY <4>1 DEF DeleteOwnAccount, DeleteUser, GoneFactors, NoCodes
        <4>2. CASE StoreSecret(r) \/ DisableTOTP(r)
          BY <4>2 DEF StoreSecret, DisableTOTP, SignInInv, GoneFactors
        <4>3. CASE UseCode(r) \/ UseRecoveryCode(r) \/ ConfirmTOTP(r) \/ FinishPasskeyRegistration(r) \/ DeletePasskey(r)
          <5>1. alive /\ alive' = alive
            BY <4>3 DEF UseCode, UseRecoveryCode, ConfirmTOTP, FinishPasskeyRegistration, DeletePasskey
          <5> QED
            BY <5>1 DEF GoneFactors
        <4> QED
          BY <3>2, <4>1, <4>2, <4>3 DEF FactorsChange
      <3> QED
        BY <1>2, <3>1, <3>2, FactorsOrNot
    <2>5. AttemptsInv'
      BY <1>2, <2>1, AttemptsStep DEF SignInInv
    <2>6. request' \in [Request -> Doing]
      <3>1. CASE Expires \/ Tick
        <4>1. request' = request
          BY <3>1 DEF Expires, Tick, SessionExpires, ChallengeExpires, CeremonyExpires, ResetExpires, EmailChangeEnds,
                      FailureExpires
        <4> QED
          BY <2>1, <4>1 DEF SignInTypeOK
      <3> QED
        BY <1>2, <2>1, <3>1, CodeStepsGoWell, PasskeyStepsGoWell, OtherStepsGoWell DEF SignInNext
    <2>7. SignInTypeOK'
      BY <1>2, <2>1, <2>2, <2>3, <2>6, CookiesWell DEF SignInTypeOK, TablesInv, TablesOK, FactorsOK, AppRow
    <2> QED
      BY <2>2, <2>3, <2>4, <2>5, <2>7 DEF SignInInv, TablesInv
  <1> QED
    BY <1>1, <1>2

\* And it says what is promised.
LEMMA SignInInvMeans == SignInInv => SecondFactorHolds /\ EndedIsOver
  <1> SUFFICES ASSUME SignInInv PROVE SecondFactorHolds /\ EndedIsOver
    OBVIOUS
  <1>1. CodesAreUsedOnce
    <2>1. DOMAIN uses = (1..MaxStep) \cup RecoveryCode
      BY DEF SignInInv, SignInTypeOK
    <2> QED
      BY <2>1 DEF SignInInv, FactorsInv, StepsMarked, CodesAreUsedOnce
  <1>2. AttemptsAreLimited
    <2> SUFFICES ASSUME NEW c \in Challenge PROVE tried[c] <= MaxCodeAttempts
      BY DEF AttemptsAreLimited
    <2>1. tried[c] \in Nat /\ Cardinality(Counting(c)) \in Nat /\ tried[c] + Cardinality(Counting(c)) <= MaxCodeAttempts
      BY CountingIsFinite DEF SignInInv, SignInTypeOK, AttemptsInv
    <2> QED
      BY <2>1, SignInConstants
  <1>3. EndedIsOver
    BY DEF SignInInv, EndedIsOver, GoneIsGone, GoneTables, GoneFactors
  <1> QED
    BY <1>1, <1>2, <1>3 DEF SecondFactorHolds, SignInInv, FactorsInv

\* However many requests offer codes at the same time, each recovery code is
\* accepted once, each code of the app once more than totp_last_step was set
\* back, a sign-in has so many attempts, and recovery codes come and go with
\* the second factor (CountAttempt, UseCode, UseRecoveryCode, ConfirmTOTP).
THEOREM SecondFactorStays == SignInSpec => []SecondFactorHolds
  BY SignInInitially, SignInStep, SignInInvMeans, PTL DEF SignInSpec

\* A password change and the end of the account end what was begun before,
\* for any requests that are at work by then (SetPassword, DeleteUser).
THEOREM EndedStaysOver == SignInSpec => []EndedIsOver
  BY SignInInitially, SignInStep, SignInInvMeans, PTL DEF SignInSpec

-----------------------------------------------------------------------------
(* Names and addresses.                                                    *)

\* A link of an account went to the address it is for, and to no other.
LinksGoWhereTheyVerify ==
  /\ \A s \in LinkSecret, a \in Address : verification[s] # NoLink /\ s \in inbox[a] => verification[s].to = a
  /\ \A s \in LinkSecret : verification[s] # NoLink => Has(verification[s].of)

EmailsInv ==
  /\ EmailsTypeOK
  /\ LinksGoWhereTheyVerify
  /\ AddressesAreUnique
  /\ VerifiedWasProven
  /\ NamesBelongToSomebody

\* No account and no link is the empty row.
LEMMA EmailRows == (\A x \in Account : x # NoAccount) /\ (\A x \in Link : x # NoLink)
  <1>1. \A x \in Account : x # NoAccount
    BY EmailsConstants DEF Account, NoAccount
  <1>2. \A x \in Link : x # NoLink
    <2> SUFFICES ASSUME NEW x \in Link, x = NoLink PROVE FALSE
      OBVIOUS
    <2>1. "to" \in DOMAIN x
      BY DEF Link
    <2>2. DOMAIN NoLink = {"of"}
      BY DEF NoLink
    <2> QED
      BY <2>1, <2>2
  <1> QED
    BY <1>1, <1>2

\* It holds at first.
LEMMA EmailsInitially == EmailsInit => EmailsInv
  BY DEF EmailsInit, EmailsInv, EmailsTypeOK, LinksGoWhereTheyVerify, AddressesAreUnique, VerifiedWasProven,
         NamesBelongToSomebody, Has, NoAccount, Waiting

\* Links that stay, of accounts that do.
LEMMA LinksGo ==
  ASSUME EmailsInv, UNCHANGED <<inbox, accountRow>>,
         verification' \in [LinkSecret -> Link \cup {NoLink}],
         \A s \in LinkSecret : verification'[s] \in {NoLink, verification[s]}
  PROVE  LinksGoWhereTheyVerify'
  BY DEF EmailsInv, LinksGoWhereTheyVerify, Has

\* Every step keeps it: who takes an address or a name looks for it in the
\* statement that writes it.
LEMMA EmailsStep == EmailsInv /\ [EmailsNext]_emailVars => EmailsInv'
  <1> SUFFICES ASSUME EmailsInv, [EmailsNext]_emailVars PROVE EmailsInv'
    OBVIOUS
  <1> USE DEF EmailsInv
  <1>1. ASSUME NEW h \in Handler, NEW n \in Name, NEW a \in Address, Register(h, n, a) PROVE EmailsInv'
    <2>1. CASE Taken(a)
      <3>1. UNCHANGED emailVars
        BY <1>1, <2>1 DEF Register, RollBackName, emailVars
      <3> QED
        BY <3>1 DEF emailVars, EmailsTypeOK, LinksGoWhereTheyVerify, AddressesAreUnique, VerifiedWasProven,
                    NamesBelongToSomebody, Has
    <2>2. CASE ~Taken(a)
      <3>1. PICK row \in Account : row = [email |-> a, verified |-> FALSE]
        BY DEF Account
      <3>2. row # NoAccount /\ row.email = a /\ row.verified = FALSE
        BY <3>1, EmailRows
      <3>3. /\ namespace' \in [Name -> {"free", "user", "org"}]
            /\ namespace'[n] = "user" /\ \A m \in Name : m # n => namespace'[m] = namespace[m]
        BY <1>1, <2>2 DEF Register, EmailsTypeOK
      <3>4. /\ accountRow' \in [Name -> Account \cup {NoAccount}]
            /\ accountRow'[n] = row /\ \A m \in Name : m # n => accountRow'[m] = accountRow[m]
        <4>1. accountRow' = [accountRow EXCEPT ![n] = row]
          BY <1>1, <2>2, <3>1 DEF Register
        <4>2. accountRow \in [Name -> Account \cup {NoAccount}]
          BY DEF EmailsTypeOK
        <4> QED
          BY <4>1, <4>2
      <3>5. UNCHANGED <<verification, inbox, proven, deleted>> /\ Handles(h, [at |-> "send", user |-> n, to |-> a])
        BY <1>1, <2>2 DEF Register
      <3>6. EmailsTypeOK'
        BY <3>3, <3>4, <3>5 DEF EmailsTypeOK, Handles
      <3>7. \A m \in Name : Has(m) => Has(m)'
        BY <3>2, <3>4 DEF Has
      <3>8. LinksGoWhereTheyVerify'
        <4>1. \A s \in LinkSecret : verification[s] # NoLink => verification[s].of \in Name
          BY DEF EmailsTypeOK, Link
        <4> QED
          BY <3>5, <3>7, <4>1 DEF LinksGoWhereTheyVerify
      <3>9. AddressesAreUnique'
        BY <2>2, <3>2, <3>4 DEF AddressesAreUnique, Has, Taken
      <3>10. VerifiedWasProven'
        BY <3>2, <3>4, <3>5 DEF VerifiedWasProven
      <3>11. NamesBelongToSomebody'
        BY <3>2, <3>3, <3>4, <3>5, <3>7 DEF NamesBelongToSomebody, Has
      <3> QED
        BY <3>6, <3>8, <3>9, <3>10, <3>11
    <2> QED
      BY <2>1, <2>2
  <1>2. ASSUME NEW n \in Name, RegisterOrg(n) PROVE EmailsInv'
    BY <1>2 DEF RegisterOrg, EmailsTypeOK, LinksGoWhereTheyVerify, AddressesAreUnique, VerifiedWasProven,
                NamesBelongToSomebody, Has
  <1>3. ASSUME NEW n \in Name, DeleteNamedAccount(n) PROVE EmailsInv'
    <2>1. /\ accountRow' \in [Name -> Account \cup {NoAccount}]
          /\ accountRow'[n] = NoAccount /\ \A m \in Name : m # n => accountRow'[m] = accountRow[m]
      BY <1>3 DEF DeleteNamedAccount, EmailsTypeOK
    <2>2. /\ verification' = [s \in LinkSecret |-> IF s \in LinksOf(n) THEN NoLink ELSE verification[s]]
          /\ UNCHANGED <<namespace, inbox, handling>> /\ deleted' = deleted \cup {n}
          /\ proven' = [proven EXCEPT ![n] = {}]
      BY <1>3 DEF DeleteNamedAccount, ReserveName
    <2>3. \A s \in LinkSecret : verification'[s] # NoLink => verification'[s] = verification[s] /\ verification[s].of # n
      BY <2>2 DEF LinksOf
    <2>4. EmailsTypeOK'
      BY <2>1, <2>2 DEF EmailsTypeOK
    <2>5. LinksGoWhereTheyVerify'
      <3>1. \A s \in LinkSecret : verification[s] # NoLink => verification[s].of \in Name
        BY DEF EmailsTypeOK, Link
      <3> QED
        BY <2>1, <2>2, <2>3, <3>1 DEF LinksGoWhereTheyVerify, Has
    <2>6. AddressesAreUnique'
      BY <2>1, EmailRows, EmailsConstants DEF AddressesAreUnique, Has, EmailsTypeOK, Account, NoAccount
    <2>7. VerifiedWasProven'
      BY <2>1, <2>2 DEF VerifiedWasProven, EmailsTypeOK, NoAccount
    <2>8. NamesBelongToSomebody'
      BY <2>1, <2>2 DEF NamesBelongToSomebody, Has
    <2> QED
      BY <2>4, <2>5, <2>6, <2>7, <2>8
  <1>4. ASSUME NEW h \in Handler, NEW n \in Name, Resend(h, n) PROVE EmailsInv'
    <2>1. accountRow[n].email \in Address
      BY <1>4 DEF Resend, Has, EmailsTypeOK, Account
    <2>2. UNCHANGED <<namespace, accountRow, verification, inbox, proven, deleted>>
          /\ handling' = [handling EXCEPT ![h] = [at |-> "send", user |-> n, to |-> accountRow[n].email]]
      BY <1>4 DEF Resend, Handles
    <2> QED
      BY <2>1, <2>2 DEF EmailsTypeOK, LinksGoWhereTheyVerify, AddressesAreUnique, VerifiedWasProven, NamesBelongToSomebody, Has
  <1>5. ASSUME NEW h \in Handler, NEW n \in Name, NEW a \in Address, CheckNewAddress(h, n, a) PROVE EmailsInv'
    BY <1>5 DEF CheckNewAddress, Handles, EmailsTypeOK, LinksGoWhereTheyVerify, AddressesAreUnique, VerifiedWasProven,
                NamesBelongToSomebody, Has
  <1>6. ASSUME NEW h \in Handler, SendVerification(h) PROVE EmailsInv'
    <2> DEFINE n == handling[h].user
               a == handling[h].to
    <2>1. n \in Name /\ a \in Address
      BY <1>6 DEF SendVerification, EmailsTypeOK, Waiting
    <2>2. handling' \in [Handler -> {Waiting} \cup [at : {"send"}, user : Name, to : Address]]
          /\ UNCHANGED <<namespace, accountRow, proven, deleted>>
      BY <1>6 DEF SendVerification, Handles, EmailsTypeOK
    <2>3. verification' \in [LinkSecret -> Link \cup {NoLink}] /\ inbox' \in [Address -> SUBSET LinkSecret] /\ LinksGoWhereTheyVerify'
      <3>1. CASE UNCHANGED <<verification, inbox>>
        BY <2>2, <3>1 DEF LinksGoWhereTheyVerify, Has, EmailsTypeOK
      <3>2. ASSUME Has(n), NEW s \in LinkSecret, Unsent(s), inbox' = [inbox EXCEPT ![a] = @ \cup {s}],
                   verification' = [[x \in LinkSecret |-> IF x \in LinksOf(n) THEN NoLink ELSE verification[x]]
                                      EXCEPT ![s] = [of |-> n, to |-> a]]
            PROVE  verification' \in [LinkSecret -> Link \cup {NoLink}] /\ inbox' \in [Address -> SUBSET LinkSecret] /\ LinksGoWhereTheyVerify'
        <4>1. PICK link \in Link : link = [of |-> n, to |-> a] /\ link.of = n /\ link.to = a
          <5>1. [of |-> n, to |-> a] \in Link
            BY <2>1 DEF Link
          <5> QED
            BY <5>1
        <4> HIDE DEF n, a
        <4>2. /\ verification' \in [LinkSecret -> Link \cup {NoLink}] /\ verification'[s] = link
              /\ \A x \in LinkSecret : x # s => verification'[x] \in {NoLink, verification[x]}
          BY <3>2, <4>1 DEF EmailsTypeOK
        <4>3. /\ inbox' \in [Address -> SUBSET LinkSecret]
              /\ \A b \in Address, x \in LinkSecret : x \in inbox'[b] <=> x \in inbox[b] \/ (x = s /\ b = a)
          BY <2>1, <3>2 DEF EmailsTypeOK
        <4> QED
          BY <2>2, <3>2, <4>1, <4>2, <4>3 DEF LinksGoWhereTheyVerify, Has, Unsent
      <3> QED
        BY <1>6, <3>1, <3>2 DEF SendVerification
    <2>4. EmailsTypeOK'
      BY <2>2, <2>3 DEF EmailsTypeOK
    <2> QED
      BY <2>2, <2>3, <2>4 DEF AddressesAreUnique, VerifiedWasProven, NamesBelongToSomebody, Has
  <1>7. ASSUME NEW h \in Handler, SendFails(h) PROVE EmailsInv'
    BY <1>7 DEF SendFails, Handles, EmailsTypeOK, LinksGoWhereTheyVerify, AddressesAreUnique, VerifiedWasProven,
                NamesBelongToSomebody, Has
  <1>8. ASSUME NEW s \in LinkSecret, NEW a \in Address, VerifyEmail(a, s) PROVE EmailsInv'
    <2> DEFINE n == verification[s].of
    <2>1. n \in Name /\ verification[s].to = a /\ Has(n)
      BY <1>8 DEF VerifyEmail, LinksGoWhereTheyVerify, EmailsTypeOK, Link
    <2>2. PICK row \in Account : row = [email |-> a, verified |-> TRUE] /\ row.email = a /\ row.verified = TRUE /\ row # NoAccount
      <3>1. [email |-> a, verified |-> TRUE] \in Account
        BY DEF Account
      <3> QED
        BY <3>1, EmailRows
    <2>3. /\ accountRow' \in [Name -> Account \cup {NoAccount}]
          /\ accountRow'[n] = row /\ \A m \in Name : m # n => accountRow'[m] = accountRow[m]
      BY <1>8, <2>1, <2>2 DEF VerifyEmail, Confirm, EmailsTypeOK
    <2>4. /\ verification' = [x \in LinkSecret |-> IF x \in LinksOf(n) THEN NoLink ELSE verification[x]]
          /\ proven' = [proven EXCEPT ![n] = @ \cup {a}] /\ UNCHANGED <<namespace, inbox, handling, deleted>>
      BY <1>8 DEF VerifyEmail
    <2>5. verification' \in [LinkSecret -> Link \cup {NoLink}] /\ \A x \in LinkSecret : verification'[x] \in {NoLink, verification[x]}
      BY <2>4 DEF EmailsTypeOK
    <2>6. \A m \in Name : Has(m)' <=> Has(m)
      BY <2>1, <2>2, <2>3 DEF Has
    <2>7. LinksGoWhereTheyVerify'
      <3>1. \A x \in LinkSecret : verification[x] # NoLink => verification[x].of \in Name
        BY DEF EmailsTypeOK, Link
      <3> QED
        BY <2>4, <2>5, <2>6, <3>1 DEF LinksGoWhereTheyVerify
    <2>8. AddressesAreUnique'
      <3>1. \A m \in Name \ {n} : accountRow[m].email # a
        BY <1>8, <2>1 DEF VerifyEmail, NotAnothers
      <3> QED
        BY <2>2, <2>3, <2>6, <3>1 DEF AddressesAreUnique, Has
    <2>9. VerifiedWasProven'
      BY <2>1, <2>2, <2>3, <2>4 DEF VerifiedWasProven, EmailsTypeOK
    <2>10. NamesBelongToSomebody'
      BY <2>4, <2>6 DEF NamesBelongToSomebody
    <2>11. proven' \in [Name -> SUBSET Address]
      BY <2>1, <2>4 DEF EmailsTypeOK
    <2>12. EmailsTypeOK'
      BY <2>3, <2>4, <2>5, <2>11 DEF EmailsTypeOK
    <2> QED
      BY <2>7, <2>8, <2>9, <2>10, <2>12
  <1>9. ASSUME NEW n \in Name, CancelEmailChange(n) PROVE EmailsInv'
    <2>1. verification' \in [LinkSecret -> Link \cup {NoLink}] /\ \A x \in LinkSecret : verification'[x] \in {NoLink, verification[x]}
      BY <1>9 DEF CancelEmailChange, EmailsTypeOK
    <2>2. UNCHANGED <<namespace, accountRow, inbox, handling, proven, deleted>>
      BY <1>9 DEF CancelEmailChange
    <2> QED
      BY <2>1, <2>2, LinksGo DEF EmailsTypeOK, AddressesAreUnique, VerifiedWasProven, NamesBelongToSomebody, Has
  <1>10. ASSUME NEW s \in LinkSecret, LinkExpires(s) PROVE EmailsInv'
    <2>1. verification' \in [LinkSecret -> Link \cup {NoLink}] /\ \A x \in LinkSecret : verification'[x] \in {NoLink, verification[x]}
      BY <1>10 DEF LinkExpires, EmailsTypeOK
    <2>2. UNCHANGED <<namespace, accountRow, inbox, handling, proven, deleted>>
      BY <1>10 DEF LinkExpires
    <2> QED
      BY <2>1, <2>2, LinksGo DEF EmailsTypeOK, AddressesAreUnique, VerifiedWasProven, NamesBelongToSomebody, Has
  <1>11. CASE UNCHANGED emailVars
    BY <1>11 DEF emailVars, EmailsTypeOK, LinksGoWhereTheyVerify, AddressesAreUnique, VerifiedWasProven,
                 NamesBelongToSomebody, Has
  <1> QED
    BY <1>1, <1>2, <1>3, <1>4, <1>5, <1>6, <1>7, <1>8, <1>9, <1>10, <1>11 DEF EmailsNext

\* No action frees a name, and only Register, whose name is free, and links
\* of accounts there are write an account.
LEMMA NamesStep == EmailsInv /\ [EmailsNext]_emailVars => [NamesStay]_emailVars
  <1> SUFFICES ASSUME EmailsInv, EmailsNext, NEW n \in Name, namespace[n] # "free"
               PROVE  namespace'[n] = namespace[n] /\ (~Has(n) => ~Has(n)')
    BY DEF NamesStay
  <1> USE DEF EmailsInv, EmailsTypeOK
  <1>1. ASSUME NEW h \in Handler, NEW m \in Name, NEW a \in Address, Register(h, m, a)
        PROVE  namespace'[n] = namespace[n] /\ accountRow'[n] = accountRow[n]
    <2>1. CASE Taken(a)
      BY <1>1, <2>1 DEF Register, RollBackName
    <2>2. CASE ~Taken(a)
      BY <1>1, <2>2 DEF Register
    <2> QED
      BY <2>1, <2>2
  <1>2. ASSUME NEW m \in Name, RegisterOrg(m) PROVE namespace'[n] = namespace[n] /\ accountRow'[n] = accountRow[n]
    BY <1>2 DEF RegisterOrg
  <1>3. ASSUME NEW m \in Name, DeleteNamedAccount(m)
        PROVE  namespace'[n] = namespace[n] /\ accountRow'[n] \in {NoAccount, accountRow[n]}
    BY <1>3 DEF DeleteNamedAccount, ReserveName
  <1>4. ASSUME NEW s \in LinkSecret, NEW a \in Address, VerifyEmail(a, s)
        PROVE  namespace'[n] = namespace[n] /\ (~Has(n) => accountRow'[n] = accountRow[n])
    <2>1. Has(verification[s].of)
      BY <1>4 DEF VerifyEmail, LinksGoWhereTheyVerify
    <2> QED
      BY <1>4, <2>1 DEF VerifyEmail, Confirm, Has
  <1>5. CASE UNCHANGED <<namespace, accountRow>>
    BY <1>5 DEF Has
  <1> QED
    BY <1>1, <1>2, <1>3, <1>4, <1>5
    DEF EmailsNext, SendVerification, SendFails, Resend, CheckNewAddress, CancelEmailChange, LinkExpires, Has

\* An address is one account's, and verified by a link that was opened there,
\* whatever links are under way (VerifyEmail, SendVerification).
THEOREM AddressesStayProven == EmailsSpec => []AddressesAreProven
  <1>1. EmailsInv => AddressesAreProven
    BY DEF EmailsInv, AddressesAreProven
  <1> QED
    BY <1>1, EmailsInitially, EmailsStep, PTL DEF EmailsSpec

\* A name belongs to somebody, and to nobody else ever after (Register,
\* DeleteNamedAccount).
THEOREM NamesStayKept == EmailsSpec => NamesAreKept
  <1>1. EmailsInv => NamesBelongToSomebody
    BY DEF EmailsInv
  <1> QED
    BY <1>1, EmailsInitially, EmailsStep, NamesStep, PTL DEF EmailsSpec, NamesAreKept

-----------------------------------------------------------------------------
(* Trusted publishing and API tokens.                                      *)

\* A token that refers to a publisher is of the user who added it, and one
\* that was given to a workflow refers to one while it is active.
TokensOfTheirPublisher ==
  \A k \in ApiToken \ late : token[k] # NoToken =>
    /\ token[k].from # 0 => token[k].from \in Publishers /\ publisher[token[k].from].by = token[k].user
    /\ token[k].state = "active" /\ token[k].minted => token[k].from # 0

\* So is a request that has matched a publisher, unless that was removed.
CallsOfTheirPublisher ==
  \A c \in Caller : calling[c].at \in {"check", "mint"} /\ ~calling[c].late =>
    calling[c].id \in Publishers /\ publisher[calling[c].id].by = calling[c].user

\* What was exchanged is recorded, until it would not verify any more.
UsesAreRecorded ==
  \A i \in IdToken : exchanges[i] <= 1 /\ (exchanges[i] = 1 => i \in used \/ Claims[i].exp + KeepUse < now)
ExchangesVerify ==
  \A c \in Caller : calling[c].at = "exchange" => now <= Claims[calling[c].jti].exp + KeepUse

LimitsOfTokens == \A u \in Publicist : Cardinality(ActiveTokens(u) \ late) <= MaxTokens
LimitsOfPublishers == \A m \in Mod : Cardinality(PublishersOf(m)) <= MaxPublishers
FiniteTokens == IsFiniteSet({k \in ApiToken : token[k] # NoToken})

TokensInv ==
  /\ TokensTypeOK
  /\ TokensOfTheirPublisher
  /\ CallsOfTheirPublisher
  /\ UsesAreRecorded
  /\ ExchangesVerify
  /\ LimitsOfTokens
  /\ LimitsOfPublishers
  /\ FiniteTokens

\* No publisher is the empty row.
LEMMA PublisherRows == \A x \in Publisher : x # NoPublisher
  <1> SUFFICES ASSUME NEW x \in Publisher, x = NoPublisher PROVE FALSE
    OBVIOUS
  <1>1. "by" \in DOMAIN x
    BY DEF Publisher
  <1>2. DOMAIN NoPublisher = {"of"}
    BY DEF NoPublisher
  <1> QED
    BY <1>1, <1>2

\* No token is the empty row.
LEMMA TokenRows == \A x \in Token : x # NoToken
  BY DEF Token, NoToken

\* What a call holds, by what it does.
LEMMA CallRows ==
  ASSUME TokensTypeOK, NEW c \in Caller
  PROVE  /\ calling[c].at = "add" => calling[c] \in [at : {"add"}, user : Publicist, of : Mod, env : Env]
         /\ calling[c].at = "remove" => calling[c] \in [at : {"remove"}, id : Ids, user : Publicist]
         /\ calling[c].at = "exchange" => calling[c] \in [at : {"exchange"}, jti : IdToken, of : Mod]
         /\ calling[c].at \in {"check", "mint"} =>
              calling[c] \in [at : {"check", "mint"}, id : Ids, of : Mod, user : Publicist, late : BOOLEAN]
  <1>1. calling[c] \in Call
    BY DEF TokensTypeOK
  <1> QED
    BY <1>1 DEF Call, Ready

\* The invariant says what is wanted.
LEMMA TokensInvMeans == TokensInv => ExchangedAtMostOnce /\ MintedHaveAPublisher /\ LimitsHold
  BY DEF TokensInv, ExchangedAtMostOnce, UsesAreRecorded, MintedHaveAPublisher, TokensOfTheirPublisher,
         LimitsHold, LimitsOfTokens, LimitsOfPublishers

\* It holds at first.
LEMMA TokensInitially == TokensInit => TokensInv
  <1> SUFFICES ASSUME TokensInit PROVE TokensInv
    OBVIOUS
  <1> USE TokensConstants DEF TokensInit
  <1>1. Publishers = {}
    BY DEF Publishers
  <1>2. Cardinality({}) = 0 /\ IsFiniteSet({})
    BY FS_EmptySet
  <1>3. TokensTypeOK
    BY DEF TokensTypeOK, Call, Ready
  <1>4. TokensOfTheirPublisher /\ CallsOfTheirPublisher /\ UsesAreRecorded /\ ExchangesVerify
    BY DEF TokensOfTheirPublisher, CallsOfTheirPublisher, UsesAreRecorded, ExchangesVerify, Ready
  <1>5. LimitsOfTokens /\ LimitsOfPublishers /\ FiniteTokens
    <2>1. \A u \in Publicist : ActiveTokens(u) \ late = {}
      BY DEF ActiveTokens
    <2>2. \A m \in Mod : PublishersOf(m) = {}
      BY <1>1 DEF PublishersOf
    <2>3. {k \in ApiToken : token[k] # NoToken} = {}
      OBVIOUS
    <2> HIDE DEF TokensInit
    <2>4. LimitsOfTokens
      BY <1>2, <2>1 DEF LimitsOfTokens
    <2>5. LimitsOfPublishers
      BY <1>2, <2>2 DEF LimitsOfPublishers
    <2>6. FiniteTokens
      BY <1>2, <2>3 DEF FiniteTokens
    <2> QED
      BY <2>4, <2>5, <2>6
  <1> QED
    BY <1>3, <1>4, <1>5 DEF TokensInv

-----------------------------------------------------------------------------
\* Fewer tokens keep the limit.
LEMMA FewerTokens ==
  ASSUME TokensInv, FiniteTokens', \A u \in Publicist : ActiveTokens(u)' \ late' \subseteq ActiveTokens(u) \ late
  PROVE  LimitsOfTokens'
  <1> SUFFICES ASSUME NEW u \in Publicist PROVE Cardinality(ActiveTokens(u)' \ late') <= MaxTokens
    BY DEF LimitsOfTokens
  <1>1. IsFiniteSet(ActiveTokens(u) \ late)
    <2>1. ActiveTokens(u) \ late \subseteq {k \in ApiToken : token[k] # NoToken}
      BY DEF ActiveTokens
    <2> QED
      BY <2>1, FS_Subset DEF TokensInv, FiniteTokens
  <1>2. /\ IsFiniteSet(ActiveTokens(u)' \ late')
        /\ Cardinality(ActiveTokens(u)' \ late') <= Cardinality(ActiveTokens(u) \ late)
    BY <1>1, FS_Subset
  <1>3. Cardinality(ActiveTokens(u) \ late) <= MaxTokens
    BY DEF TokensInv, LimitsOfTokens
  <1>4. Cardinality(ActiveTokens(u)' \ late') \in Nat /\ Cardinality(ActiveTokens(u) \ late) \in Nat
    BY <1>1, <1>2, FS_CardinalityType
  <1> QED
    BY <1>2, <1>3, <1>4, TokensConstants

\* Publishers that go away leave their module fewer.
LEMMA FewerPublishers ==
  ASSUME TokensInv, Publishers' \subseteq Publishers, \A p \in Publishers' : publisher'[p].of = publisher[p].of
  PROVE  LimitsOfPublishers'
  <1> SUFFICES ASSUME NEW m \in Mod PROVE Cardinality(PublishersOf(m)') <= MaxPublishers
    BY DEF LimitsOfPublishers
  <1>1. PublishersOf(m)' \subseteq PublishersOf(m) /\ PublishersOf(m) \subseteq Ids
    BY DEF PublishersOf, Publishers
  <1>2. IsFiniteSet(PublishersOf(m))
    <2>1. IsFiniteSet(Ids)
      BY TokensConstants, FS_Interval DEF Ids
    <2> QED
      BY <1>1, <2>1, FS_Subset
  <1>3. /\ IsFiniteSet(PublishersOf(m)')
        /\ Cardinality(PublishersOf(m)') <= Cardinality(PublishersOf(m))
    BY <1>1, <1>2, FS_Subset
  <1>4. Cardinality(PublishersOf(m)') \in Nat /\ Cardinality(PublishersOf(m)) \in Nat
    BY <1>2, <1>3, FS_CardinalityType
  <1>5. Cardinality(PublishersOf(m)) <= MaxPublishers
    BY DEF TokensInv, LimitsOfPublishers
  <1> QED
    BY <1>3, <1>4, <1>5, TokensConstants

\* A step that changes neither table.
LEMMA TablesStay ==
  ASSUME TokensInv, UNCHANGED <<publisher, token, late>>
  PROVE  TokensOfTheirPublisher' /\ LimitsOfTokens' /\ LimitsOfPublishers' /\ FiniteTokens'
  <1>1. Publishers' = Publishers /\ \A m \in Mod : PublishersOf(m)' = PublishersOf(m)
    BY DEF Publishers, PublishersOf
  <1>2. \A u \in Publicist : ActiveTokens(u)' = ActiveTokens(u)
    BY DEF ActiveTokens
  <1> QED
    BY <1>1, <1>2 DEF TokensInv, TokensOfTheirPublisher, LimitsOfTokens, LimitsOfPublishers, FiniteTokens

\* A request goes on, or is over, without changing a table.
LEMMA CallGoesOn ==
  ASSUME TokensInv, NEW c \in Caller, NEW call \in Call, Calls(c, call),
         UNCHANGED <<may, publisher, token, used, now, exchanges, late>>,
         call.at = "exchange" => now <= Claims[call.jti].exp + KeepUse,
         call.at \in {"check", "mint"} /\ ~call.late =>
           call.id \in Publishers /\ publisher[call.id].by = call.user
  PROVE  TokensInv'
  <1>1. calling' = [calling EXCEPT ![c] = call] /\ calling \in [Caller -> Call]
    BY DEF Calls, TokensInv, TokensTypeOK
  <1>2. calling' \in [Caller -> Call] /\ calling'[c] = call /\ \A d \in Caller : d # c => calling'[d] = calling[d]
    BY <1>1
  <1>3. TokensTypeOK'
    BY <1>2 DEF TokensInv, TokensTypeOK
  <1>4. Publishers' = Publishers
    BY DEF Publishers
  <1>5. CallsOfTheirPublisher'
    BY <1>2, <1>4 DEF TokensInv, CallsOfTheirPublisher
  <1>6. UsesAreRecorded'
    BY DEF TokensInv, UsesAreRecorded
  <1>7. ExchangesVerify'
    BY <1>2 DEF TokensInv, ExchangesVerify
  <1> QED
    BY <1>3, <1>5, <1>6, <1>7, TablesStay DEF TokensInv

\* What a step that adds a token keeps.
TokenAddedWell ==
  /\ TokensOfTheirPublisher' /\ LimitsOfTokens' /\ LimitsOfPublishers' /\ FiniteTokens'
  /\ token' \in [ApiToken -> Token \cup {NoToken}]
  /\ late' \subseteq {l \in ApiToken : token'[l] # NoToken}

\* What a token refers to.
RefersWell(t) ==
  /\ t.from # 0 => t.from \in Publishers /\ publisher[t.from].by = t.user
  /\ t.minted => t.from # 0

\* One more token, which its user has room for or which a publisher is given.
LEMMA NewToken ==
  ASSUME TokensInv, NEW k \in ApiToken, NEW t \in Token, token[k] = NoToken,
         token' = [token EXCEPT ![k] = t], UNCHANGED <<publisher, used, now, exchanges, may>>,
         late' = late \/ late' = late \cup {k},
         k \notin late' => RefersWell(t), t.from = 0 => RoomForToken(t.user)
  PROVE  TokenAddedWell
  <1>1. token \in [ApiToken -> Token \cup {NoToken}] /\ late \subseteq {l \in ApiToken : token[l] # NoToken}
    BY DEF TokensInv, TokensTypeOK
  <1>2. /\ token' \in [ApiToken -> Token \cup {NoToken}] /\ token'[k] = t /\ t # NoToken
        /\ \A l \in ApiToken : l # k => token'[l] = token[l]
    BY <1>1, TokenRows
  <1>3. late' \subseteq {l \in ApiToken : token'[l] # NoToken}
    BY <1>1, <1>2
  <1>4. Publishers' = Publishers /\ \A m \in Mod : PublishersOf(m)' = PublishersOf(m)
    BY DEF Publishers, PublishersOf
  <1>5. TokensOfTheirPublisher'
    BY <1>1, <1>2, <1>4 DEF TokensInv, TokensOfTheirPublisher, RefersWell
  <1>6. LimitsOfPublishers'
    BY <1>4 DEF TokensInv, LimitsOfPublishers
  <1>7. FiniteTokens'
    <2>1. {l \in ApiToken : token'[l] # NoToken} = {l \in ApiToken : token[l] # NoToken} \cup {k}
      BY <1>2
    <2>2. IsFiniteSet({l \in ApiToken : token[l] # NoToken})
      BY DEF TokensInv, FiniteTokens
    <2> QED
      BY <2>1, <2>2, FS_AddElement DEF FiniteTokens
  <1>8. ASSUME NEW u \in Publicist PROVE Cardinality(ActiveTokens(u)' \ late') <= MaxTokens
    <2>1. ActiveTokens(u)' \ late' \subseteq (ActiveTokens(u) \ late) \cup {k}
      BY <1>2 DEF ActiveTokens
    <2>2. IsFiniteSet(ActiveTokens(u)) /\ IsFiniteSet(ActiveTokens(u) \ late)
      <3>1. ActiveTokens(u) \subseteq {l \in ApiToken : token[l] # NoToken}
        BY DEF ActiveTokens
      <3> QED
        BY <3>1, FS_Subset DEF TokensInv, FiniteTokens
    <2>3. /\ Cardinality(ActiveTokens(u) \ late) \in Nat /\ Cardinality(ActiveTokens(u)) \in Nat
          /\ Cardinality(ActiveTokens(u) \ late) <= Cardinality(ActiveTokens(u))
      BY <2>2, FS_CardinalityType, FS_Subset
    <2>4. Cardinality(ActiveTokens(u) \ late) <= MaxTokens
      BY DEF TokensInv, LimitsOfTokens
    <2>5. CASE k \in ActiveTokens(u)' \ late'
      <3>1. t.user = u /\ t.from = 0
        BY <1>2, <2>5 DEF ActiveTokens
      <3>2. Cardinality(ActiveTokens(u)) < MaxTokens
        BY <3>1 DEF RoomForToken
      <3>3. /\ IsFiniteSet((ActiveTokens(u) \ late) \cup {k})
            /\ Cardinality((ActiveTokens(u) \ late) \cup {k}) <= Cardinality(ActiveTokens(u) \ late) + 1
        <4>1. PICK S : S = ActiveTokens(u) \ late
          OBVIOUS
        <4>2. IsFiniteSet(S \cup {k}) /\ Cardinality(S \cup {k}) = IF k \in S THEN Cardinality(S) ELSE Cardinality(S) + 1
          BY <2>2, <4>1, FS_AddElement
        <4> QED
          BY <2>3, <4>1, <4>2
      <3>4. /\ Cardinality(ActiveTokens(u)' \ late') <= Cardinality((ActiveTokens(u) \ late) \cup {k})
            /\ Cardinality(ActiveTokens(u)' \ late') \in Nat
            /\ Cardinality((ActiveTokens(u) \ late) \cup {k}) \in Nat
        BY <2>1, <3>3, FS_Subset, FS_CardinalityType
      <3> QED
        BY <2>3, <3>2, <3>3, <3>4, TokensConstants
    <2>6. CASE k \notin ActiveTokens(u)' \ late'
      <3>1. ActiveTokens(u)' \ late' \subseteq ActiveTokens(u) \ late
        BY <2>1, <2>6
      <3>2. /\ Cardinality(ActiveTokens(u)' \ late') <= Cardinality(ActiveTokens(u) \ late)
            /\ Cardinality(ActiveTokens(u)' \ late') \in Nat
        BY <2>2, <3>1, FS_Subset, FS_CardinalityType
      <3> QED
        BY <2>3, <2>4, <3>2, TokensConstants
    <2> QED
      BY <2>5, <2>6
  <1> QED
    BY <1>2, <1>3, <1>5, <1>6, <1>7, <1>8 DEF LimitsOfTokens, TokenAddedWell

\* A token that is no longer active.
LEMMA TokenEnds ==
  ASSUME TokensInv, NEW k \in ApiToken, NEW state \in {"revoked", "expired"}, token[k] # NoToken,
         token' = [token EXCEPT ![k].state = state],
         UNCHANGED <<may, publisher, used, now, calling, exchanges, late>>
  PROVE  TokensInv'
  <1>1. token \in [ApiToken -> Token \cup {NoToken}] /\ token[k] \in Token
    BY DEF TokensInv, TokensTypeOK
  <1>2. PICK t \in Token : t = [token[k] EXCEPT !.state = state]
    BY <1>1 DEF Token
  <1>3. t.state = state /\ t.user = token[k].user /\ t.from = token[k].from /\ t.minted = token[k].minted
    BY <1>1, <1>2 DEF Token
  <1>4. /\ token' \in [ApiToken -> Token \cup {NoToken}] /\ token'[k] = t /\ t # NoToken
        /\ \A l \in ApiToken : l # k => token'[l] = token[l]
    BY <1>1, <1>2, TokenRows
  <1>5. Publishers' = Publishers /\ \A m \in Mod : PublishersOf(m)' = PublishersOf(m)
    BY DEF Publishers, PublishersOf
  <1>6. {l \in ApiToken : token'[l] # NoToken} = {l \in ApiToken : token[l] # NoToken}
    BY <1>4
  <1>7. FiniteTokens'
    BY <1>6 DEF TokensInv, FiniteTokens
  <1>8. LimitsOfTokens'
    <2>1. \A u \in Publicist : ActiveTokens(u)' \ late' \subseteq ActiveTokens(u) \ late
      BY <1>3, <1>4 DEF ActiveTokens
    <2> QED
      BY <1>7, <2>1, FewerTokens
  <1>9. LimitsOfPublishers'
    BY <1>5 DEF TokensInv, LimitsOfPublishers
  <1>10. TokensOfTheirPublisher'
    BY <1>3, <1>4, <1>5 DEF TokensInv, TokensOfTheirPublisher
  <1>11. CallsOfTheirPublisher' /\ UsesAreRecorded' /\ ExchangesVerify'
    BY <1>5 DEF TokensInv, CallsOfTheirPublisher, UsesAreRecorded, ExchangesVerify
  <1>12. TokensTypeOK'
    BY <1>4, <1>6 DEF TokensInv, TokensTypeOK
  <1> QED
    BY <1>7, <1>8, <1>9, <1>10, <1>11, <1>12 DEF TokensInv

\* Whoever is removed as a publisher takes the tokens along.
LEMMA PublisherRemoved ==
  ASSUME TokensInv, NEW c \in Caller, RemovePublisher(c)
  PROVE  TokensInv'
  <1> DEFINE p == calling[c].id
             was(k) == token[k] # NoToken /\ token[k].from = p
  <1>1. calling[c] \in [at : {"remove"}, id : Ids, user : Publicist] /\ p \in Ids
    BY CallRows DEF RemovePublisher, TokensInv
  <1>2. /\ publisher' = [publisher EXCEPT ![p] = NoPublisher] /\ publisher \in [Ids -> Publisher \cup {NoPublisher}]
        /\ UNCHANGED <<may, used, now, exchanges, late>>
        /\ token' = Forget(Revoke(token, p), p) /\ token \in [ApiToken -> Token \cup {NoToken}]
    BY DEF RemovePublisher, RevokeThenForget, TokensInv, TokensTypeOK
  <1>3. /\ publisher' \in [Ids -> Publisher \cup {NoPublisher}] /\ publisher'[p] = NoPublisher
        /\ \A q \in Ids : q # p => publisher'[q] = publisher[q]
    BY <1>1, <1>2
  <1>4. Publishers' = Publishers \ {p} /\ Publishers \subseteq Ids
    BY <1>3 DEF Publishers
  <1> DEFINE R == Revoke(token, p)
  <1>5. \A k \in ApiToken :
          R[k] = IF was(k) /\ token[k].state = "active" THEN [token[k] EXCEPT !.state = "revoked"] ELSE token[k]
    BY DEF Revoke
  <1>6. \A k \in ApiToken : token[k] # NoToken => token[k] \in Token
    BY <1>2
  <1>7. \A k \in ApiToken :
          /\ token[k] = NoToken => R[k] = NoToken
          /\ token[k] # NoToken => /\ R[k] \in Token /\ R[k].from = token[k].from /\ R[k].user = token[k].user
                                   /\ R[k].minted = token[k].minted
                                   /\ R[k].state = IF was(k) /\ token[k].state = "active" THEN "revoked" ELSE token[k].state
    <2> SUFFICES ASSUME NEW k \in ApiToken
                 PROVE  /\ token[k] = NoToken => R[k] = NoToken
                        /\ token[k] # NoToken =>
                             /\ R[k] \in Token /\ R[k].from = token[k].from /\ R[k].user = token[k].user
                             /\ R[k].minted = token[k].minted
                             /\ R[k].state = IF was(k) /\ token[k].state = "active" THEN "revoked" ELSE token[k].state
      OBVIOUS
    <2> HIDE DEF R
    <2>1. CASE was(k) /\ token[k].state = "active"
      <3>1. R[k] = [token[k] EXCEPT !.state = "revoked"] /\ token[k] \in Token
        BY <1>5, <1>6, <2>1
      <3>2. /\ R[k] \in Token /\ R[k].from = token[k].from /\ R[k].user = token[k].user
            /\ R[k].minted = token[k].minted /\ R[k].state = "revoked"
        BY <3>1 DEF Token
      <3> QED
        BY <2>1, <3>2
    <2>2. CASE ~(was(k) /\ token[k].state = "active")
      BY <1>5, <1>6, <2>2
    <2> QED
      BY <2>1, <2>2
  <1>8. \A k \in ApiToken : token'[k] = IF R[k] # NoToken /\ R[k].from = p THEN [R[k] EXCEPT !.from = 0] ELSE R[k]
    BY <1>2 DEF Forget
  <1> HIDE DEF R
  <1>9. \A k \in ApiToken :
          /\ token[k] = NoToken => token'[k] = NoToken
          /\ token[k] # NoToken =>
               /\ token'[k] \in Token /\ token'[k].user = token[k].user /\ token'[k].minted = token[k].minted
               /\ token'[k].from = IF was(k) THEN 0 ELSE token[k].from
               /\ token'[k].state = IF was(k) /\ token[k].state = "active" THEN "revoked" ELSE token[k].state
    <2> SUFFICES ASSUME NEW k \in ApiToken
                 PROVE  /\ token[k] = NoToken => token'[k] = NoToken
                        /\ token[k] # NoToken =>
                             /\ token'[k] \in Token /\ token'[k].user = token[k].user
                             /\ token'[k].minted = token[k].minted
                             /\ token'[k].from = IF was(k) THEN 0 ELSE token[k].from
                             /\ token'[k].state = IF was(k) /\ token[k].state = "active" THEN "revoked" ELSE token[k].state
      OBVIOUS
    <2>1. CASE token[k] = NoToken
      BY <1>7, <1>8, <2>1
    <2>2. CASE was(k)
      <3>1. R[k] \in Token /\ R[k] # NoToken /\ R[k].from = p
        BY <1>7, <2>2, TokenRows
      <3>2. token'[k] = [R[k] EXCEPT !.from = 0]
        BY <1>8, <3>1
      <3>3. /\ token'[k] \in Token /\ token'[k].user = R[k].user /\ token'[k].minted = R[k].minted
            /\ token'[k].from = 0 /\ token'[k].state = R[k].state
        BY <3>1, <3>2 DEF Token
      <3> QED
        BY <1>7, <2>2, <3>3
    <2>3. CASE token[k] # NoToken /\ ~was(k)
      <3>1. R[k] \in Token /\ R[k].from # p
        BY <1>7, <2>3
      <3>2. token'[k] = R[k]
        BY <1>8, <3>1
      <3> QED
        BY <1>7, <2>3, <3>1, <3>2
    <2> QED
      BY <2>1, <2>2, <2>3
  <1>10. \A k \in ApiToken : token'[k] # NoToken <=> token[k] # NoToken
    BY <1>6, <1>9, TokenRows
  <1>11. token' \in [ApiToken -> Token \cup {NoToken}]
    <2>1. DOMAIN token' = ApiToken /\ token' = [k \in ApiToken |-> token'[k]]
      BY <1>2 DEF Forget
    <2> QED
      BY <1>9, <2>1
  <1>12. FiniteTokens'
    <2>1. {k \in ApiToken : token'[k] # NoToken} = {k \in ApiToken : token[k] # NoToken}
      BY <1>10
    <2> QED
      BY <2>1 DEF TokensInv, FiniteTokens
  <1>13. TokensOfTheirPublisher'
    <2> SUFFICES ASSUME NEW k \in ApiToken \ late, token'[k] # NoToken
                 PROVE  /\ token'[k].from # 0 => token'[k].from \in Publishers' /\ publisher'[token'[k].from].by = token'[k].user
                        /\ token'[k].state = "active" /\ token'[k].minted => token'[k].from # 0
      BY <1>2 DEF TokensOfTheirPublisher
    <2>1. token[k] # NoToken
      BY <1>10
    <2>2. /\ token[k].from # 0 => token[k].from \in Publishers /\ publisher[token[k].from].by = token[k].user
          /\ token[k].state = "active" /\ token[k].minted => token[k].from # 0
      BY <2>1 DEF TokensInv, TokensOfTheirPublisher
    <2>3. CASE was(k)
      BY <1>9, <2>1, <2>2, <2>3
    <2>4. CASE ~was(k)
      BY <1>3, <1>4, <1>9, <2>1, <2>2, <2>4
    <2> QED
      BY <2>3, <2>4
  <1>14. LimitsOfTokens'
    <2> SUFFICES ASSUME NEW u \in Publicist, NEW k \in ActiveTokens(u)' \ late'
                 PROVE  k \in ActiveTokens(u) \ late
      BY <1>12, FewerTokens
    <2>1. k \in ApiToken /\ token'[k] # NoToken /\ token'[k].user = u /\ token'[k].state = "active" /\ token'[k].from = 0
      BY DEF ActiveTokens
    <2> QED
      BY <1>2, <1>9, <1>10, <2>1 DEF ActiveTokens
  <1>15. LimitsOfPublishers'
    BY <1>3, <1>4, FewerPublishers
  <1>16. calling' \in [Caller -> Call] /\ \A d \in Caller :
           /\ d = c => calling'[d] = Ready
           /\ d # c => /\ calling'[d].at = calling[d].at
                       /\ calling[d].at \notin {"check", "mint"} => calling'[d] = calling[d]
                       /\ calling[d].at \in {"check", "mint"} =>
                            /\ calling'[d].id = calling[d].id /\ calling'[d].user = calling[d].user
                            /\ ~calling'[d].late => calling[d].id # p /\ ~calling[d].late
    <2>1. ASSUME NEW d \in Caller
          PROVE  /\ calling'[d] \in Call
                 /\ d = c => calling'[d] = Ready
                 /\ d # c => /\ calling'[d].at = calling[d].at
                             /\ calling[d].at \notin {"check", "mint"} => calling'[d] = calling[d]
                             /\ calling[d].at \in {"check", "mint"} =>
                                  /\ calling'[d].id = calling[d].id /\ calling'[d].user = calling[d].user
                                  /\ ~calling'[d].late => calling[d].id # p /\ ~calling[d].late
      <3>0. calling[d] \in Call /\ Ready \in Call
        BY DEF TokensInv, TokensTypeOK, Call
      <3>1. CASE d = c
        BY <3>0, <3>1 DEF RemovePublisher
      <3>2. CASE d # c /\ calling[d].at \in {"check", "mint"} /\ calling[d].id = p
        <4>1. calling[d] \in [at : {"check", "mint"}, id : Ids, of : Mod, user : Publicist, late : BOOLEAN]
          BY <3>2, CallRows DEF TokensInv
        <4>2. calling'[d] = [calling[d] EXCEPT !.late = TRUE]
          BY <3>2 DEF RemovePublisher
        <4>3. calling'[d] \in [at : {"check", "mint"}, id : Ids, of : Mod, user : Publicist, late : BOOLEAN]
          BY <4>1, <4>2
        <4> QED
          BY <3>2, <4>1, <4>2, <4>3 DEF Call
      <3>3. CASE d # c /\ ~(calling[d].at \in {"check", "mint"} /\ calling[d].id = p)
        <4>1. calling'[d] = calling[d]
          BY <3>3 DEF RemovePublisher
        <4> QED
          BY <3>0, <3>3, <4>1
      <3> QED
        BY <3>1, <3>2, <3>3
    <2>2. calling' = [d \in Caller |-> calling'[d]]
      BY DEF RemovePublisher
    <2> QED
      BY <2>1, <2>2
  <1>17. CallsOfTheirPublisher'
    <2> SUFFICES ASSUME NEW d \in Caller, calling'[d].at \in {"check", "mint"}, ~calling'[d].late
                 PROVE  calling'[d].id \in Publishers' /\ publisher'[calling'[d].id].by = calling'[d].user
      BY DEF CallsOfTheirPublisher
    <2>1. d # c
      BY <1>16 DEF Ready
    <2>2. /\ calling[d].at \in {"check", "mint"} /\ ~calling[d].late /\ calling[d].id # p
          /\ calling'[d].id = calling[d].id /\ calling'[d].user = calling[d].user
      BY <1>16, <2>1
    <2>3. calling[d].id \in Publishers /\ publisher[calling[d].id].by = calling[d].user
      BY <2>2 DEF TokensInv, CallsOfTheirPublisher
    <2> QED
      BY <1>3, <1>4, <2>2, <2>3
  <1>18. UsesAreRecorded'
    BY <1>2 DEF TokensInv, UsesAreRecorded
  <1>19. ExchangesVerify'
    BY <1>2, <1>16 DEF TokensInv, ExchangesVerify, Ready
  <1>20. TokensTypeOK'
    BY <1>2, <1>3, <1>10, <1>11, <1>16 DEF TokensInv, TokensTypeOK
  <1> QED
    BY <1>12, <1>13, <1>14, <1>15, <1>17, <1>18, <1>19, <1>20 DEF TokensInv

\* A new publisher has a new id.
LEMMA PublisherAdded ==
  ASSUME TokensInv, NEW c \in Caller, AddPublisher(c)
  PROVE  TokensInv'
  <1> DEFINE q == calling[c]
  <1>1. q \in [at : {"add"}, user : Publicist, of : Mod, env : Env]
    BY CallRows DEF AddPublisher, TokensInv
  <1>2. Calls(c, Ready) /\ UNCHANGED <<may, token, used, now, exchanges, late>>
    BY DEF AddPublisher
  <1>3. CASE publisher' = publisher
    <2>1. Ready \in Call /\ Ready.at = "ready"
      BY DEF Call, Ready
    <2> QED
      BY <1>2, <1>3, <2>1, CallGoesOn
  <1>4. ASSUME NEW n \in NextPublisher, RoomForPublisher(q.of),
               publisher' = [publisher EXCEPT ![n] = [of |-> q.of, env |-> q.env, by |-> q.user, owner |-> Unpinned]]
        PROVE  TokensInv'
    <2> DEFINE new == [of |-> q.of, env |-> q.env, by |-> q.user, owner |-> Unpinned]
    <2>1. n \in Ids /\ n \notin Publishers
      <3>1. \A p \in Publishers : p < n
        BY DEF NextPublisher
      <3>2. n \in Ids /\ ~(n < n)
        BY TokensConstants DEF NextPublisher, Ids
      <3> QED
        BY <3>1, <3>2
    <2>2. new \in Publisher /\ new # NoPublisher /\ new.of = q.of
      BY <1>1, PublisherRows DEF Publisher
    <2>3. publisher \in [Ids -> Publisher \cup {NoPublisher}] /\ calling \in [Caller -> Call]
      BY DEF TokensInv, TokensTypeOK
    <2> HIDE DEF new
    <2>4. /\ publisher' \in [Ids -> Publisher \cup {NoPublisher}] /\ publisher'[n] = new
          /\ \A p \in Ids : p # n => publisher'[p] = publisher[p]
      BY <1>4, <2>1, <2>2, <2>3 DEF new
    <2>5. Publishers' = Publishers \cup {n} /\ \A p \in Publishers : publisher'[p] = publisher[p]
      BY <2>1, <2>2, <2>4 DEF Publishers
    <2>6. /\ calling' \in [Caller -> Call] /\ calling'[c] = Ready
          /\ \A d \in Caller : d # c => calling'[d] = calling[d]
      BY <1>2, <2>3 DEF Calls, Call
    <2>7. TokensTypeOK'
      BY <1>2, <2>4, <2>6 DEF TokensInv, TokensTypeOK
    <2>8. TokensOfTheirPublisher'
      BY <1>2, <2>5 DEF TokensInv, TokensOfTheirPublisher
    <2>9. CallsOfTheirPublisher'
      BY <2>5, <2>6 DEF TokensInv, CallsOfTheirPublisher, Ready
    <2>10. UsesAreRecorded' /\ ExchangesVerify'
      BY <1>2, <2>6 DEF TokensInv, UsesAreRecorded, ExchangesVerify, Ready
    <2>11. FiniteTokens' /\ LimitsOfTokens'
      <3>1. \A u \in Publicist : ActiveTokens(u)' = ActiveTokens(u)
        BY <1>2 DEF ActiveTokens
      <3> QED
        BY <1>2, <3>1 DEF TokensInv, FiniteTokens, LimitsOfTokens
    <2>12. ASSUME NEW m \in Mod PROVE Cardinality(PublishersOf(m)') <= MaxPublishers
      <3>1. Cardinality(PublishersOf(m)) <= MaxPublishers
        BY DEF TokensInv, LimitsOfPublishers
      <3>2. CASE m # q.of
        <4>1. PublishersOf(m)' = PublishersOf(m)
          BY <2>2, <2>4, <2>5, <3>2 DEF PublishersOf
        <4> QED
          BY <3>1, <4>1
      <3>3. CASE m = q.of
        <4>1. PublishersOf(m)' = PublishersOf(m) \cup {n} /\ n \notin PublishersOf(m)
          BY <2>1, <2>2, <2>4, <2>5, <3>3 DEF PublishersOf
        <4>2. PICK S : S = PublishersOf(m)
          OBVIOUS
        <4>3. IsFiniteSet(S)
          <5>1. IsFiniteSet(Ids) /\ S \subseteq Ids
            BY <4>2, TokensConstants, FS_Interval DEF Ids, PublishersOf, Publishers
          <5> QED
            BY <5>1, FS_Subset
        <4>4. Cardinality(S \cup {n}) = Cardinality(S) + 1 /\ Cardinality(S) \in Nat
          BY <4>1, <4>2, <4>3, FS_AddElement, FS_CardinalityType
        <4>5. Cardinality(S) < MaxPublishers
          BY <1>4, <3>3, <4>2 DEF RoomForPublisher
        <4> QED
          BY <4>1, <4>2, <4>4, <4>5, TokensConstants
      <3> QED
        BY <3>2, <3>3
    <2> QED
      BY <2>7, <2>8, <2>9, <2>10, <2>11, <2>12 DEF TokensInv, LimitsOfPublishers
  <1> QED
    BY <1>3, <1>4 DEF AddPublisher

\* An ID token that is exchanged was not exchanged before.
LEMMA IdTokenExchanged ==
  ASSUME TokensInv, NEW c \in Caller, ExchangeGitHubToken(c)
  PROVE  TokensInv'
  <1> DEFINE i == calling[c].jti
             m == calling[c].of
  <1>1. calling[c] \in [at : {"exchange"}, jti : IdToken, of : Mod] /\ calling[c].at = "exchange"
    BY CallRows DEF ExchangeGitHubToken, TokensInv
  <1>2. UNCHANGED <<may, token, now, late>>
    BY DEF ExchangeGitHubToken
  <1>3. CASE Calls(c, Ready) /\ UNCHANGED <<publisher, used, exchanges>>
    <2>1. Ready \in Call /\ Ready.at = "ready"
      BY DEF Call, Ready
    <2> QED
      BY <1>2, <1>3, <2>1, CallGoesOn
  <1>4. ASSUME i \notin PurgeUses, NEW p \in MatchPublisher(m, Claims[i].env), SameOwner(p, Claims[i].owner),
               publisher' = [publisher EXCEPT ![p].owner = Claims[i].owner],
               used' = PurgeUses \cup {i},
               exchanges' = [exchanges EXCEPT ![i] = @ + 1],
               Calls(c, [at |-> "check", id |-> p, of |-> m, user |-> publisher[p].by, late |-> FALSE])
        PROVE  TokensInv'
    <2> DEFINE call == [at |-> "check", id |-> p, of |-> m, user |-> publisher[p].by, late |-> FALSE]
    <2>1. p \in Publishers /\ p \in Ids /\ publisher[p] \in Publisher
      BY DEF MatchPublisher, PublishersOf, Publishers, TokensInv, TokensTypeOK
    <2>2. i \in IdToken /\ m \in Mod /\ Claims[i].owner \in OwnerId /\ Claims[i].exp \in Nat
      BY <1>1, TokensConstants
    <2>3. call \in Call /\ call.at = "check" /\ call.id = p /\ call.user = publisher[p].by
      BY <2>1, <2>2 DEF Call, Publisher
    <2> HIDE DEF call
    <2>4. PICK row \in Publisher : row = [publisher[p] EXCEPT !.owner = Claims[i].owner]
      BY <2>1, <2>2 DEF Publisher
    <2>5. row.by = publisher[p].by /\ row.of = publisher[p].of /\ row # NoPublisher
      BY <2>1, <2>4, PublisherRows DEF Publisher
    <2>6. /\ publisher' \in [Ids -> Publisher \cup {NoPublisher}] /\ publisher'[p] = row
          /\ \A r \in Ids : r # p => publisher'[r] = publisher[r]
      <3>1. publisher \in [Ids -> Publisher \cup {NoPublisher}]
        BY DEF TokensInv, TokensTypeOK
      <3> QED
        BY <1>4, <2>1, <2>4, <3>1
    <2>7. Publishers' = Publishers /\ \A r \in Publishers : publisher'[r].by = publisher[r].by /\ publisher'[r].of = publisher[r].of
      BY <2>1, <2>5, <2>6 DEF Publishers
    <2>8. /\ calling' \in [Caller -> Call] /\ calling'[c] = call
          /\ \A d \in Caller : d # c => calling'[d] = calling[d]
      BY <1>4, <2>3 DEF Calls, TokensInv, TokensTypeOK, call
    <2>9. exchanges[i] = 0
      <3>1. now <= Claims[i].exp + KeepUse /\ now \in Nat
        BY <1>1 DEF TokensInv, ExchangesVerify, TokensTypeOK
      <3>2. i \notin used
        BY <1>4, <2>2, <3>1, TokensConstants DEF PurgeUses
      <3>3. exchanges[i] \in Nat /\ exchanges[i] <= 1 /\ exchanges[i] # 1
        BY <2>2, <3>1, <3>2, TokensConstants DEF TokensInv, UsesAreRecorded, TokensTypeOK
      <3> QED
        BY <3>3
    <2>10. /\ exchanges' \in [IdToken -> Nat] /\ exchanges'[i] = 1
           /\ \A j \in IdToken : j # i => exchanges'[j] = exchanges[j]
      BY <1>4, <2>2, <2>9 DEF TokensInv, TokensTypeOK
    <2>11. UsesAreRecorded'
      <3> SUFFICES ASSUME NEW j \in IdToken
                   PROVE  exchanges'[j] <= 1 /\ (exchanges'[j] = 1 => j \in used' \/ Claims[j].exp + KeepUse < now)
        BY <1>2 DEF UsesAreRecorded
      <3>1. CASE j = i
        BY <1>4, <2>10, <3>1
      <3>2. CASE j # i
        <4>1. exchanges[j] <= 1 /\ (exchanges[j] = 1 => j \in used \/ Claims[j].exp + KeepUse < now)
          BY DEF TokensInv, UsesAreRecorded
        <4>2. j \in used => j \in used' \/ Claims[j].exp + KeepUse < now
          <5>1. Claims[j].exp \in Nat /\ now \in Nat
            BY TokensConstants DEF TokensInv, TokensTypeOK
          <5> QED
            BY <1>4, <5>1, TokensConstants DEF PurgeUses
        <4> QED
          BY <2>10, <3>2, <4>1, <4>2
      <3> QED
        BY <3>1, <3>2
    <2>12. ExchangesVerify'
      BY <1>2, <2>3, <2>8 DEF TokensInv, ExchangesVerify
    <2>13. CallsOfTheirPublisher'
      BY <2>1, <2>3, <2>7, <2>8 DEF TokensInv, CallsOfTheirPublisher
    <2>14. TokensOfTheirPublisher'
      BY <1>2, <2>7 DEF TokensInv, TokensOfTheirPublisher
    <2>15. FiniteTokens' /\ LimitsOfTokens'
      <3>1. \A u \in Publicist : ActiveTokens(u)' = ActiveTokens(u)
        BY <1>2 DEF ActiveTokens
      <3> QED
        BY <1>2, <3>1 DEF TokensInv, FiniteTokens, LimitsOfTokens
    <2>16. LimitsOfPublishers'
      BY <2>7, FewerPublishers
    <2>17. TokensTypeOK'
      <3>1. used' \subseteq IdToken
        BY <1>4, <2>2 DEF PurgeUses, TokensInv, TokensTypeOK
      <3> QED
        BY <1>2, <2>6, <2>8, <2>10, <3>1 DEF TokensInv, TokensTypeOK
    <2> QED
      BY <2>11, <2>12, <2>13, <2>14, <2>15, <2>16, <2>17 DEF TokensInv
  <1> QED
    BY <1>3, <1>4 DEF ExchangeGitHubToken

\* A token is minted for whoever added the publisher that was matched.
LEMMA TokenMinted ==
  ASSUME TokensInv, NEW c \in Caller, MintPublisherToken(c)
  PROVE  TokensInv'
  <1> DEFINE q == calling[c]
  <1>1. q \in [at : {"check", "mint"}, id : Ids, of : Mod, user : Publicist, late : BOOLEAN] /\ q.at = "mint"
    BY CallRows DEF MintPublisherToken, TokensInv
  <1>2. Calls(c, Ready) /\ UNCHANGED <<may, publisher, used, now, exchanges>>
    BY DEF MintPublisherToken
  <1>3. CASE UNCHANGED <<token, late>>
    <2>1. Ready \in Call /\ Ready.at = "ready"
      BY DEF Call, Ready
    <2> QED
      BY <1>2, <1>3, <2>1, CallGoesOn
  <1>4. ASSUME q.id \in Publishers, NEW k \in ApiToken, token[k] = NoToken,
               token' = [token EXCEPT ![k] = [state |-> "active", user |-> q.user, minted |-> TRUE, of |-> q.of, from |-> q.id]],
               late' = IF q.late THEN late \cup {k} ELSE late
        PROVE  TokensInv'
    <2> DEFINE t == [state |-> "active", user |-> q.user, minted |-> TRUE, of |-> q.of, from |-> q.id]
    <2>1. t \in Token /\ t.user = q.user /\ t.from = q.id /\ q.id # 0
      BY <1>1, TokensConstants DEF Token, Ids
    <2>2. ~q.late => q.id \in Publishers /\ publisher[q.id].by = q.user
      BY <1>1 DEF TokensInv, CallsOfTheirPublisher
    <2>3. token' = [token EXCEPT ![k] = t]
      BY <1>4
    <2> HIDE DEF t
    <2> HIDE DEF q
    <2>4. k \notin late' => RefersWell(t)
      BY <1>4, <2>1, <2>2 DEF RefersWell
    <2>5. late' = late \/ late' = late \cup {k}
      BY <1>4
    <2>6. TokenAddedWell
      <3>1. t \in Token /\ (t.from = 0 => RoomForToken(t.user))
        BY <2>1
      <3>2. UNCHANGED <<publisher, used, now, exchanges, may>>
        BY <1>2
      <3>3. token[k] = NoToken
        BY <1>4
      <3> QED
        BY <2>3, <2>4, <2>5, <3>1, <3>2, <3>3, NewToken
    <2>7. /\ calling' \in [Caller -> Call] /\ calling'[c] = Ready
          /\ \A d \in Caller : d # c => calling'[d] = calling[d]
      BY <1>2 DEF Calls, Call, TokensInv, TokensTypeOK, q
    <2>8. CallsOfTheirPublisher'
      BY <1>2, <2>7 DEF TokensInv, CallsOfTheirPublisher, Ready, Publishers
    <2>9. UsesAreRecorded' /\ ExchangesVerify'
      BY <1>2, <2>7 DEF TokensInv, UsesAreRecorded, ExchangesVerify, Ready
    <2>10. TokensTypeOK'
      BY <1>2, <2>6, <2>7 DEF TokensInv, TokensTypeOK, TokenAddedWell
    <2> QED
      BY <2>6, <2>8, <2>9, <2>10 DEF TokensInv, TokenAddedWell
  <1> QED
    BY <1>3, <1>4 DEF MintPublisherToken

\* A personal token: there was room for it when it was counted.
LEMMA TokenCreated ==
  ASSUME TokensInv, NEW u \in Publicist, NEW m \in Mod, CreateApiToken(u, m)
  PROVE  TokensInv'
  <1>1. PICK k \in ApiToken :
          /\ token[k] = NoToken
          /\ token' = [token EXCEPT ![k] = [state |-> "active", user |-> u, minted |-> FALSE, of |-> m, from |-> 0]]
    BY DEF CreateApiToken
  <1>2. RoomForToken(u) /\ UNCHANGED <<may, publisher, used, now, calling, exchanges, late>>
    BY DEF CreateApiToken
  <1> DEFINE t == [state |-> "active", user |-> u, minted |-> FALSE, of |-> m, from |-> 0]
  <1>3. t \in Token /\ t.user = u /\ t.from = 0 /\ t.minted = FALSE
    BY DEF Token
  <1>4. token' = [token EXCEPT ![k] = t]
    BY <1>1
  <1> HIDE DEF t
  <1>5. TokenAddedWell
    <2>1. t.from = 0 => RoomForToken(t.user)
      BY <1>2, <1>3
    <2>2. RefersWell(t)
      BY <1>3 DEF RefersWell
    <2>3. token[k] = NoToken /\ late' = late
      BY <1>1, <1>2
    <2>4. UNCHANGED <<publisher, used, now, exchanges, may>>
      BY <1>2
    <2> QED
      BY <1>3, <1>4, <2>1, <2>2, <2>3, <2>4, NewToken
  <1>6. CallsOfTheirPublisher' /\ UsesAreRecorded' /\ ExchangesVerify'
    BY <1>2 DEF TokensInv, CallsOfTheirPublisher, UsesAreRecorded, ExchangesVerify, Publishers
  <1>7. TokensTypeOK'
    BY <1>2, <1>5 DEF TokensInv, TokensTypeOK, TokenAddedWell
  <1> QED
    BY <1>5, <1>6, <1>7 DEF TokensInv, TokenAddedWell

\* Deleting a user's rows takes the publishers they added, and the reference
\* of what was minted for others stays as it was.
LEMMA TokensDeleted ==
  ASSUME TokensInv, NEW u \in Publicist, DeleteTokensOf(u)
  PROVE  TokensInv'
  <1>1. /\ publisher \in [Ids -> Publisher \cup {NoPublisher}] /\ token \in [ApiToken -> Token \cup {NoToken}]
        /\ calling \in [Caller -> Call] /\ may \in [Publicist -> [Mod -> {"nothing", "publish", "manage"}]]
        /\ late \subseteq {k \in ApiToken : token[k] # NoToken}
    BY DEF TokensInv, TokensTypeOK
  <1>2. /\ may' = [may EXCEPT ![u] = [m \in Mod |-> "nothing"]]
        /\ publisher' = [p \in Ids |-> IF p \in Publishers /\ publisher[p].by = u THEN NoPublisher ELSE publisher[p]]
        /\ late' = {k \in late : token'[k] # NoToken}
        /\ UNCHANGED <<used, now, exchanges>>
    BY DEF DeleteTokensOf
  <1>3. /\ publisher' \in [Ids -> Publisher \cup {NoPublisher}]
        /\ \A p \in Ids : publisher'[p] # NoPublisher => publisher'[p] = publisher[p]
        /\ \A p \in Publishers : publisher[p].by # u => publisher'[p] = publisher[p]
    BY <1>1, <1>2 DEF Publishers
  <1>4. /\ Publishers' \subseteq Publishers /\ \A p \in Publishers' : publisher'[p] = publisher[p]
        /\ \A p \in Publishers : publisher[p].by # u => p \in Publishers'
    BY <1>3 DEF Publishers
  <1>5. ASSUME NEW k \in ApiToken
        PROVE  \/ token'[k] = NoToken
               \/ token[k] # NoToken /\ token[k].user # u /\ token'[k] = token[k]
               \/ /\ token[k] # NoToken /\ token[k].user # u /\ token[k].from # 0 /\ publisher'[token[k].from] = NoPublisher
                  /\ token'[k] = [token[k] EXCEPT !.from = 0]
    BY DEF DeleteTokensOf
  <1>6. ASSUME NEW k \in ApiToken, token'[k] # NoToken
        PROVE  /\ token[k] # NoToken /\ token[k].user # u /\ token'[k] \in Token
               /\ k \notin late => token'[k] = token[k]
    <2>1. token[k] # NoToken /\ token[k].user # u /\ token[k] \in Token
      BY <1>1, <1>5, <1>6
    <2>2. token'[k] \in Token
      <3>1. [token[k] EXCEPT !.from = 0] \in Token
        BY <2>1 DEF Token
      <3> QED
        BY <1>5, <1>6, <2>1, <3>1
    <2>3. k \notin late /\ token[k].from # 0 => publisher'[token[k].from] # NoPublisher
      <3>1. k \notin late /\ token[k].from # 0 =>
              token[k].from \in Publishers /\ publisher[token[k].from].by = token[k].user
        BY <2>1 DEF TokensInv, TokensOfTheirPublisher
      <3> QED
        BY <1>3, <2>1, <3>1 DEF Publishers
    <2> QED
      BY <1>5, <1>6, <2>1, <2>2, <2>3
  <1>7. token' \in [ApiToken -> Token \cup {NoToken}]
    <2>1. token' = [k \in ApiToken |-> token'[k]]
      BY DEF DeleteTokensOf
    <2>2. \A k \in ApiToken : token'[k] \in Token \cup {NoToken}
      BY <1>6
    <2> QED
      BY <2>1, <2>2
  <1>8. TokensOfTheirPublisher'
    <2> SUFFICES ASSUME NEW k \in ApiToken, k \notin late', token'[k] # NoToken
                 PROVE  /\ token'[k].from # 0 => /\ token'[k].from \in Publishers'
                                                 /\ publisher'[token'[k].from].by = token'[k].user
                        /\ token'[k].state = "active" /\ token'[k].minted => token'[k].from # 0
      BY DEF TokensOfTheirPublisher
    <2>1. k \notin late /\ token'[k] = token[k] /\ token[k] # NoToken /\ token[k].user # u
      BY <1>2, <1>6
    <2>2. /\ token[k].from # 0 => token[k].from \in Publishers /\ publisher[token[k].from].by = token[k].user
          /\ token[k].state = "active" /\ token[k].minted => token[k].from # 0
      BY <2>1 DEF TokensInv, TokensOfTheirPublisher
    <2> QED
      BY <1>4, <2>1, <2>2
  <1>9. {k \in ApiToken : token'[k] # NoToken} \subseteq {k \in ApiToken : token[k] # NoToken}
    BY <1>6
  <1>10. FiniteTokens'
    BY <1>9, FS_Subset DEF TokensInv, FiniteTokens
  <1>11. LimitsOfTokens'
    <2>1. \A v \in Publicist : ActiveTokens(v)' \ late' \subseteq ActiveTokens(v) \ late
      BY <1>2, <1>6 DEF ActiveTokens
    <2> QED
      BY <1>10, <2>1, FewerTokens
  <1>12. LimitsOfPublishers'
    BY <1>4, FewerPublishers
  <1>13. ASSUME NEW c \in Caller
         PROVE  \/ calling'[c] = Ready
                \/ calling'[c] = calling[c] /\ ~("user" \in DOMAIN calling[c] /\ calling[c].user = u)
    BY DEF DeleteTokensOf
  <1>14. calling' \in [Caller -> Call]
    <2>1. calling' = [c \in Caller |-> calling'[c]]
      BY DEF DeleteTokensOf
    <2>2. Ready \in Call
      BY DEF Call
    <2>3. \A c \in Caller : calling'[c] \in Call
      BY <1>1, <1>13, <2>2
    <2> QED
      BY <2>1, <2>3
  <1>15. CallsOfTheirPublisher'
    <2> SUFFICES ASSUME NEW c \in Caller, calling'[c].at \in {"check", "mint"}, ~calling'[c].late
                 PROVE  calling'[c].id \in Publishers' /\ publisher'[calling'[c].id].by = calling'[c].user
      BY DEF CallsOfTheirPublisher
    <2>1. calling'[c] = calling[c] /\ ~("user" \in DOMAIN calling[c] /\ calling[c].user = u)
      BY <1>13 DEF Ready
    <2>2. calling[c] \in [at : {"check", "mint"}, id : Ids, of : Mod, user : Publicist, late : BOOLEAN]
      BY <2>1, CallRows DEF TokensInv
    <2>3. "user" \in DOMAIN calling[c]
      BY <2>2
    <2>4. calling[c].user # u
      BY <2>1, <2>3
    <2>5. calling[c].id \in Publishers /\ publisher[calling[c].id].by = calling[c].user
      BY <2>1 DEF TokensInv, CallsOfTheirPublisher
    <2> QED
      BY <1>4, <2>1, <2>4, <2>5
  <1>16. UsesAreRecorded'
    BY <1>2 DEF TokensInv, UsesAreRecorded
  <1>17. ExchangesVerify'
    BY <1>2, <1>13 DEF TokensInv, ExchangesVerify, Ready
  <1>18. TokensTypeOK'
    <2>1. may' \in [Publicist -> [Mod -> {"nothing", "publish", "manage"}]]
      BY <1>1, <1>2
    <2>2. late' \subseteq {k \in ApiToken : token'[k] # NoToken}
      BY <1>1, <1>2
    <2> QED
      BY <1>2, <1>3, <1>7, <1>14, <2>1, <2>2 DEF TokensInv, TokensTypeOK
  <1> QED
    BY <1>8, <1>10, <1>11, <1>12, <1>15, <1>16, <1>17, <1>18 DEF TokensInv

\* Time passes; a request that is at work still verifies what it was given.
LEMMA TimeGoesOn == TokensInv /\ TimePasses => TokensInv'
  <1> SUFFICES ASSUME TokensInv, TimePasses PROVE TokensInv'
    OBVIOUS
  <1>1. now \in Nat /\ now' = now + 1 /\ UNCHANGED <<may, publisher, token, used, calling, exchanges, late>>
    BY DEF TimePasses, TokensInv, TokensTypeOK
  <1>2. TokensTypeOK'
    BY <1>1 DEF TokensInv, TokensTypeOK
  <1>3. ASSUME NEW c \in Caller, calling'[c].at = "exchange"
        PROVE  now' <= Claims[calling'[c].jti].exp + KeepUse
    <2>1. calling[c].jti \in IdToken
      BY <1>1, <1>3, CallRows DEF TokensInv
    <2>2. Claims[calling[c].jti].exp \in Nat
      BY <2>1, TokensConstants
    <2>3. now < Claims[calling[c].jti].exp + KeepUse
      BY <1>1, <1>3 DEF TimePasses
    <2> QED
      BY <1>1, <2>2, <2>3, TokensConstants
  <1>4. UsesAreRecorded'
    <2>1. \A i \in IdToken : Claims[i].exp + KeepUse < now => Claims[i].exp + KeepUse < now'
      BY <1>1, TokensConstants
    <2> QED
      BY <1>1, <2>1 DEF TokensInv, UsesAreRecorded
  <1>5. CallsOfTheirPublisher'
    BY <1>1 DEF TokensInv, CallsOfTheirPublisher, Publishers
  <1> QED
    BY <1>1, <1>2, <1>3, <1>4, <1>5, TablesStay DEF TokensInv, ExchangesVerify

\* A change of nothing but what the users may do.
LEMMA OthersStay ==
  ASSUME TokensInv, UNCHANGED <<publisher, token, used, now, calling, exchanges, late>>,
         may' \in [Publicist -> [Mod -> {"nothing", "publish", "manage"}]]
  PROVE  TokensInv'
  <1>1. TokensTypeOK'
    BY DEF TokensInv, TokensTypeOK
  <1>2. CallsOfTheirPublisher' /\ UsesAreRecorded' /\ ExchangesVerify'
    BY DEF TokensInv, CallsOfTheirPublisher, UsesAreRecorded, ExchangesVerify, Publishers
  <1> QED
    BY <1>1, <1>2, TablesStay DEF TokensInv

-----------------------------------------------------------------------------
\* Every step keeps it.
LEMMA TokensStep == TokensInv /\ [TokensNext]_tokenVars => TokensInv'
  <1> SUFFICES ASSUME TokensInv, [TokensNext]_tokenVars PROVE TokensInv'
    OBVIOUS
  <1>1. ASSUME NEW c \in Caller, CallFails(c) PROVE TokensInv'
    <2>1. Ready \in Call /\ Ready.at = "ready"
      BY DEF Call, Ready
    <2> QED
      BY <1>1, <2>1, CallGoesOn DEF CallFails
  <1>2. ASSUME NEW c \in Caller, CheckPublisherUser(c) PROVE TokensInv'
    <2>1. PICK q : q = calling[c] /\ q \in [at : {"check", "mint"}, id : Ids, of : Mod, user : Publicist, late : BOOLEAN]
      BY <1>2, CallRows DEF CheckPublisherUser, TokensInv
    <2>2. UNCHANGED <<may, publisher, token, used, now, exchanges, late>>
      BY <1>2 DEF CheckPublisherUser
    <2>3. CASE Calls(c, Ready)
      <3>1. Ready \in Call /\ Ready.at = "ready"
        BY DEF Call, Ready
      <3> QED
        BY <2>2, <2>3, <3>1, CallGoesOn
    <2>4. CASE Calls(c, [q EXCEPT !.at = "mint"])
      <3>1. PICK call : /\ call = [q EXCEPT !.at = "mint"]
                        /\ call \in [at : {"check", "mint"}, id : Ids, of : Mod, user : Publicist, late : BOOLEAN]
                        /\ call.at = "mint" /\ call.id = q.id /\ call.user = q.user /\ call.late = q.late
        <4>1. PICK call : call = [q EXCEPT !.at = "mint"]
          OBVIOUS
        <4>2. /\ call \in [at : {"check", "mint"}, id : Ids, of : Mod, user : Publicist, late : BOOLEAN]
              /\ call.at = "mint" /\ call.id = q.id /\ call.user = q.user /\ call.late = q.late
          BY <2>1, <4>1
        <4> QED
          BY <4>1, <4>2
      <3>2. call \in Call
        BY <3>1 DEF Call
      <3>3. call.at \in {"check", "mint"} /\ ~call.late =>
              call.id \in Publishers /\ publisher[call.id].by = call.user
        BY <1>2, <2>1, <3>1 DEF TokensInv, CallsOfTheirPublisher, CheckPublisherUser
      <3>4. Calls(c, call) /\ call.at # "exchange"
        BY <2>4, <3>1
      <3> QED
        BY <2>2, <3>2, <3>3, <3>4, CallGoesOn
    <2> QED
      BY <1>2, <2>1, <2>3, <2>4 DEF CheckPublisherUser
  <1>3. ASSUME NEW c \in Caller, NEW u \in Publicist, NEW m \in Mod, NEW e \in Env, CheckAddPublisher(c, u, m, e)
        PROVE  TokensInv'
    <2>1. PICK call \in Call : call = [at |-> "add", user |-> u, of |-> m, env |-> e]
      BY DEF Call
    <2>2. call.at = "add" /\ Calls(c, call) /\ UNCHANGED <<may, publisher, token, used, now, exchanges, late>>
      BY <1>3, <2>1 DEF CheckAddPublisher
    <2> QED
      BY <2>2, CallGoesOn
  <1>4. ASSUME NEW c \in Caller, NEW u \in Publicist, NEW p \in Ids, CheckRemovePublisher(c, u, p)
        PROVE  TokensInv'
    <2>1. PICK call \in Call : call = [at |-> "remove", id |-> p, user |-> u]
      BY DEF Call
    <2>2. call.at = "remove" /\ Calls(c, call) /\ UNCHANGED <<may, publisher, token, used, now, exchanges, late>>
      BY <1>4, <2>1 DEF CheckRemovePublisher
    <2> QED
      BY <2>2, CallGoesOn
  <1>5. ASSUME NEW c \in Caller, NEW i \in IdToken, NEW m \in Mod, VerifyIdToken(c, i, m)
        PROVE  TokensInv'
    <2>1. PICK call \in Call : call = [at |-> "exchange", jti |-> i, of |-> m]
      BY DEF Call
    <2>2. call.at = "exchange" /\ Calls(c, call) /\ UNCHANGED <<may, publisher, token, used, now, exchanges, late>>
      BY <1>5, <2>1 DEF VerifyIdToken
    <2>3. now <= Claims[call.jti].exp + KeepUse
      <3>1. now <= Claims[i].exp + Leeway /\ call.jti = i
        BY <1>5, <2>1 DEF VerifyIdToken
      <3>2. now \in Nat /\ Claims[i].exp \in Nat
        BY TokensConstants DEF TokensInv, TokensTypeOK
      <3> QED
        BY <3>1, <3>2, TokensConstants
    <2> QED
      BY <2>2, <2>3, CallGoesOn
  <1>6. ASSUME NEW u \in Publicist, NEW m \in Mod, AccessChanges(u, m) PROVE TokensInv'
    <2>1. PICK right \in {"nothing", "publish", "manage"} : may' = [may EXCEPT ![u][m] = right]
      BY <1>6 DEF AccessChanges
    <2>2. may' \in [Publicist -> [Mod -> {"nothing", "publish", "manage"}]]
      BY <2>1 DEF TokensInv, TokensTypeOK
    <2> QED
      BY <1>6, <2>2, OthersStay DEF AccessChanges
  <1>7. ASSUME NEW k \in ApiToken, RevokeApiToken(k) \/ ApiTokenExpires(k) PROVE TokensInv'
    BY <1>7, TokenEnds DEF RevokeApiToken, ApiTokenExpires
  <1>8. CASE UNCHANGED tokenVars
    <2>1. may' \in [Publicist -> [Mod -> {"nothing", "publish", "manage"}]]
      BY <1>8 DEF tokenVars, TokensInv, TokensTypeOK
    <2> QED
      BY <1>8, <2>1, OthersStay DEF tokenVars
  <1> QED
    BY <1>1, <1>2, <1>3, <1>4, <1>5, <1>6, <1>7, <1>8, PublisherAdded, PublisherRemoved, IdTokenExchanged,
       TokenMinted, TokenCreated, TokensDeleted, TimeGoesOn DEF TokensNext

\* Three actions touch a publisher's row.
LEMMA OwnerStep == TokensInv /\ [TokensNext]_tokenVars => [OwnerStays]_tokenVars
  <1> SUFFICES ASSUME TokensInv, TokensNext,
                      NEW p \in Publishers, publisher[p].owner # Unpinned, publisher'[p] # NoPublisher
               PROVE  publisher'[p].owner = publisher[p].owner
    BY DEF OwnerStays
  <1>1. p \in Ids /\ publisher \in [Ids -> Publisher \cup {NoPublisher}] /\ publisher[p] \in Publisher
    BY DEF Publishers, TokensInv, TokensTypeOK
  <1>2. ASSUME NEW c \in Caller, AddPublisher(c) PROVE publisher'[p] = publisher[p]
    <2>1. \A n \in NextPublisher : n # p
      <3>1. p \in Nat /\ ~(p < p)
        BY <1>1 DEF Ids
      <3> QED
        BY <3>1 DEF NextPublisher
    <2> QED
      BY <1>1, <1>2, <2>1 DEF AddPublisher
  <1>3. ASSUME NEW c \in Caller, RemovePublisher(c) PROVE publisher'[p] = publisher[p]
    BY <1>1, <1>3 DEF RemovePublisher
  <1>4. ASSUME NEW u \in Publicist, DeleteTokensOf(u) PROVE publisher'[p] = publisher[p]
    BY <1>1, <1>4 DEF DeleteTokensOf
  <1>5. ASSUME NEW c \in Caller, ExchangeGitHubToken(c) PROVE publisher'[p].owner = publisher[p].owner
    <2>1. CASE publisher' = publisher
      BY <2>1
    <2>2. ASSUME NEW r, NEW o, SameOwner(r, o), publisher' = [publisher EXCEPT ![r].owner = o]
          PROVE  publisher'[p].owner = publisher[p].owner
      <3>1. CASE r # p
        BY <1>1, <2>2, <3>1
      <3>2. CASE r = p
        <4>1. o = publisher[p].owner
          BY <2>2, <3>2 DEF SameOwner
        <4>2. publisher'[p] = [publisher[p] EXCEPT !.owner = o]
          BY <1>1, <2>2, <3>2
        <4> QED
          BY <1>1, <4>1, <4>2 DEF Publisher
      <3> QED
        BY <3>1, <3>2
    <2> QED
      BY <1>5, <2>1, <2>2 DEF ExchangeGitHubToken
  <1>6. CASE UNCHANGED publisher
    BY <1>6
  <1> QED
    BY <1>2, <1>3, <1>4, <1>5, <1>6
    DEF TokensNext, CallFails, CheckPublisherUser, MintPublisherToken, CheckAddPublisher, CheckRemovePublisher,
        VerifyIdToken, AccessChanges, CreateApiToken, RevokeApiToken, ApiTokenExpires, TimePasses

\* Trusted publishing gives out no more than it was trusted with, whatever
\* requests run at the same time: an ID token is exchanged at most once, the
\* owner first seen stays, what was minted goes with its publisher, and the
\* limits hold (ExchangeGitHubToken, MintPublisherToken, RemovePublisher).
THEOREM TrustStays == TokensSpec => TrustIsKept
  <1>1. TokensInit => TokensInv
    BY TokensInitially
  <1>2. TokensInv /\ [TokensNext]_tokenVars => TokensInv'
    BY TokensStep
  <1>3. TokensInv => ExchangedAtMostOnce /\ MintedHaveAPublisher /\ LimitsHold
    BY TokensInvMeans
  <1>4. TokensInv /\ [TokensNext]_tokenVars => [OwnerStays]_tokenVars
    BY OwnerStep
  <1> QED
    BY <1>1, <1>2, <1>3, <1>4, PTL DEF TokensSpec, TrustIsKept

-----------------------------------------------------------------------------
(* All of it.                                                              *)

\* Whatever handlers do at the same time, the tables of accounts, and what
\* each handler has read of them, stay well formed.
THEOREM AccountsTypes == AccountsSpec => []AccountsTypeOK
  <1>1. SignInInv => SignInTypeOK
    BY DEF SignInInv
  <1>2. EmailsInv => EmailsTypeOK
    BY DEF EmailsInv
  <1>3. TokensInv => TokensTypeOK
    BY DEF TokensInv
  <1>4. SignInSpec => []SignInTypeOK
    BY <1>1, SignInInitially, SignInStep, PTL DEF SignInSpec
  <1>5. EmailsSpec => []EmailsTypeOK
    BY <1>2, EmailsInitially, EmailsStep, PTL DEF EmailsSpec
  <1>6. TokensSpec => []TokensTypeOK
    BY <1>3, TokensInitially, TokensStep, PTL DEF TokensSpec
  <1>7. AccessTypeOK /\ SignInTypeOK /\ EmailsTypeOK /\ TokensTypeOK => AccountsTypeOK
    BY DEF AccountsTypeOK
  <1> QED
    BY AccessTypes, <1>4, <1>5, <1>6, <1>7, PTL DEF AccountsSpec
=============================================================================

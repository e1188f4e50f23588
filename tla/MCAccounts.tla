----------------------------- MODULE MCAccounts -----------------------------
(***************************************************************************)
(* Small instances of who may do what: SignIn, Emails and Tokens, beside   *)
(* those of Access, which are in MCAccess.  The modules share no table     *)
(* that another one changes, so one behaviour works on one of them, which  *)
(* "part" names; for SignIn it also names which handlers are at work.      *)
(***************************************************************************)
EXTENDS MCAccess, Accounts, TLC

CONSTANTS Parts, b1, b2, r1, r2, r3, x1, i1, e1, o1, o2

VARIABLE part

accountsVars == <<part, mode, accessVars, signInVars, emailVars, tokenVars>>

\* Two handlers answer the first browser, one the second.
InstanceBrowserOf == [r \in Request |-> IF r = r3 THEN b2 ELSE b1]

\* Two ID tokens: another owner of the repository's name, in an environment.
InstanceClaims ==
  [i \in IdToken |-> IF i = i1 THEN [env |-> NoEnv, owner |-> o1, exp |-> 1]
                     ELSE [env |-> e1, owner |-> o2, exp |-> 1]]

\* Which session is which makes no difference, nor which row of api_tokens or
\* which handler of Emails.  No behaviour has them all at work, so that
\* exchanging both of each at once leaves out as much as one after the other.
InstanceSymmetry ==
  {f \in Permutations(LoginSession \cup ApiToken \cup Handler) :
     /\ \A S \in {LoginSession, ApiToken, Handler} : \A x \in S : f[x] \in S
     /\ \/ \A x \in DOMAIN f : f[x] = x
        \/ \A x \in DOMAIN f : f[x] # x}

\* Two handlers at a time: of one browser, or of two.
Working == IF part \in {"password", "end"} THEN {r1, r3} ELSE {r1, r2}

\* The account has an app from the start, or sets one up.
AppIsOn ==
  /\ app = [NoApp EXCEPT !.secret = x1, !.on = TRUE, !.proven = x1]
  /\ recovery = [issued |-> TRUE, unused |-> RecoveryCode]
AppIsOff == app = NoApp /\ recovery = NoCodes

AccountsInit ==
  /\ part \in Parts
  /\ IF part = "access" THEN MCInit ELSE mode = "sequential" /\ Init
  /\ SignedOut
  /\ \/ part \in {"codes", "password", "end"} /\ AppIsOn
     \/ part \notin {"codes", "password"} /\ AppIsOff
  /\ EmailsInit
  /\ TokensInit

SignInPart(r) ==
  \/ PasswordStep(r)
  \/ RequestFails(r)
  \/ part = "codes" /\ (CodeStep(r) \/ CheckDisableTOTP(r) \/ DisableTOTP(r))
  \/ part = "password" /\ (ChangeStep(r) \/ CountAttempt(r) \/ CountFailures(r)
                             \/ VerifySecondFactor(r) \/ UseRecoveryCode(r) \/ CompleteLogin(r))
  \/ part = "app" /\ (AppStep(r) \/ VerifySecondFactor(r) \/ UseCode(r) \/ UseRecoveryCode(r))
  \/ part = "setup" /\ (CodeStep(r) \/ BeginTOTP(r) \/ StoreSecret(r) \/ MatchSetupCode(r) \/ ConfirmTOTP(r))
  \/ part = "passkeys" /\ (PasskeyStep(r) \/ CheckDisableTOTP(r) \/ VerifySecondFactor(r)
                             \/ UseRecoveryCode(r) \/ DisableTOTP(r))
  \/ part = "end" /\ (EndStep(r) \/ CodeStep(r) \/ CheckEmailChange(r) \/ RequestEmailChange(r) \/ RequestPasswordReset(r))

AccountsNext ==
  /\ part' = part
  /\ IF part = "access" THEN MCNext ELSE UNCHANGED <<mode, accessVars>>
  /\ IF part = "emails" THEN EmailsNext ELSE UNCHANGED emailVars
  /\ IF part = "tokens" THEN TokensNext ELSE UNCHANGED tokenVars
  /\ IF part \in {"access", "emails", "tokens"} THEN UNCHANGED signInVars
     ELSE \/ \E r \in Working : SignInPart(r)
          \/ part = "codes" /\ (Tick \/ Expires)

MCAccountsSpec == AccountsInit /\ [][AccountsNext]_accountsVars
=============================================================================

------------------------------ MODULE Accounts ------------------------------
(***************************************************************************)
(* Who may do what: roles, organizations and teams; signing in; names and  *)
(* addresses; publishers and tokens.  The four share no table that another *)
(* one of them changes.                                                    *)
(***************************************************************************)
EXTENDS Access, SignIn, Emails, Tokens

AccountsSpec == AccessSpec /\ SignInSpec /\ EmailsSpec /\ TokensSpec

-----------------------------------------------------------------------------
\* The tables of accounts are well formed.
AccountsTypeOK == AccessTypeOK /\ SignInTypeOK /\ EmailsTypeOK /\ TokensTypeOK
=============================================================================

------------------------------ MODULE Registry ------------------------------
(***************************************************************************)
(* What the registry holds and who changes it: versions published by       *)
(* requests and by the command line, what is listed of them, the texts     *)
(* they are named by, and the review of modules.  Publishing, the listings *)
(* and the review queue look at one database here from three sides: each   *)
(* has the tables it is about, and what the others do to those tables is   *)
(* among its own actions.                                                  *)
(***************************************************************************)
EXTENDS Publishing, ClientPublish, Credentials, Catalog, Texts, Moderation

\* Releases are published while other commands use the credentials file.  The
\* two share no state; which token publish sends is TokenFor in Credentials,
\* and which answer it gets is ClientPublish's.
CommandLineSpec == ClientSpec /\ CredentialsSpec

RegistrySpec == Spec /\ CommandLineSpec /\ CatalogSpec /\ TextsSpec /\ ModerationSpec

-----------------------------------------------------------------------------
\* What the command line says of releases is so, and tokens go where they
\* belong.
CommandLineKeepsItsWord == PublishKeepsItsWord /\ TokensGoHome

\* What each of them keeps is well formed.
RegistryTypeOK ==
  /\ PublishingTypeOK
  /\ ClientTypeOK /\ CredentialsTypeOK
  /\ CatalogTypeOK
  /\ VersionsTypeOK /\ TyposTypeOK /\ GoModTypeOK
  /\ ModerationTypeOK
=============================================================================

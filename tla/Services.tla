------------------------------ MODULE Services ------------------------------
(***************************************************************************)
(* What readers, tools and operators get: the requests of readers and the  *)
(* pages of their searches, advisories and the tools that follow them, the *)
(* keys of issuers, limits, the client of the public proxy, backups and    *)
(* copies, migrations.  None of them changes what another one keeps.       *)
(***************************************************************************)
EXTENDS Advisories, Reads, OidcKeys, RateLimit, ProxyCache, SearchPages, Storage, Migrations

ServicesSpec ==
  /\ AdvisoriesSpec /\ ReadsSpec /\ KeysSpec /\ LimitSpec
  /\ ProxyCacheSpec /\ PagesSpec /\ StorageSpec /\ MigrationSpec

-----------------------------------------------------------------------------
\* What each of them keeps is well formed.
ServicesTypeOK ==
  /\ AdvisoriesTypeOK
  /\ ReadsTypeOK
  /\ KeysTypeOK
  /\ LimitTypeOK
  /\ ProxyCacheTypeOK
  /\ PagesTypeOK
  /\ StorageTypeOK
  /\ MigrationTypeOK
=============================================================================

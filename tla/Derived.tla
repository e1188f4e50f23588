------------------------------- MODULE Derived -------------------------------
(***************************************************************************)
(* What is computed from the tables or copied from elsewhere, and how the  *)
(* server stops: the search index, download counts, cached listings, the   *)
(* copy of the vulnerability database.  Each keeps its own.                *)
(***************************************************************************)
EXTENDS SearchIndex, Downloads, ListCache, Upstream, Stopping

DerivedSpec == SearchSpec /\ Spec /\ CacheSpec /\ UpstreamSpec /\ StopSpec

-----------------------------------------------------------------------------
\* What each of them keeps is well formed.
DerivedTypeOK ==
  /\ SearchTypeOK
  /\ DownloadsTypeOK
  /\ CacheTypeOK
  /\ UpstreamTypeOK
  /\ StopTypeOK
=============================================================================

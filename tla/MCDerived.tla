----------------------------- MODULE MCDerived -----------------------------
(***************************************************************************)
(* Small instances of what is computed from the tables, of what is read    *)
(* from them, and of what the server does besides.  A behaviour is about   *)
(* one of them, which "part" names:                                        *)
(*   "requests"   SearchIndex: every request, one at a time, one module    *)
(*   "releases"   nothing but publishing, by two handlers, on two modules  *)
(*   "overlaps"   publishing, quarantine and release of one version of a   *)
(*                module, by two handlers                                  *)
(*   "review"     every request, two at a time, without failures           *)
(*   "downloads"  Downloads                                                *)
(*   "listings"   ListCache                                                *)
(*   "upstream"   Upstream                                                 *)
(*   "stopping"   Stopping                                                 *)
(*   "zips"       Reads: two at a time, for the zip of a module            *)
(***************************************************************************)
EXTENDS Derived, Reads

CONSTANTS Parts, retry, lib, h2

VARIABLE part

derivedVars == <<part, searchVars, downloadVars, cacheVars, upstreamVars, stopVars, readsVars>>

SearchParts == {"requests", "releases", "overlaps", "review"}

DerivedInit ==
  /\ part \in Parts
  /\ Unindexed
  /\ work = IF part \in SearchParts THEN Started ELSE [w \in Worker |-> NoJob]
  /\ Init
  /\ CacheInit
  /\ UpstreamInit
  /\ StopInit
  /\ ReadsInit

Releases ==
  \/ \E h \in Handler :
       \/ \E m \in Path, v \in Version \ Prerelease : Publish(h, m, v)
       \/ Respond(h)
  \/ \E w \in Worker : Reindex(w)
  \/ BackfillList \/ BackfillNext
  \/ ServerRestarts

Reviews ==
  \/ \E h \in Handler : Request(h) \/ Respond(h)
  \/ \E w \in Worker : Reindex(w)
  \/ BackfillList \/ BackfillNext

SearchPart ==
  \/ part = "requests" /\ OneAtATime /\ work'[h2] = NoJob /\ published'[lib] = {}
  \/ part = "releases" /\ Releases /\ published'[lib] \subseteq {1}
  \/ part = "overlaps" /\ Reviews /\ published'[lib] = {} /\ published'[retry] \subseteq {1}
                        /\ yanked' = yanked /\ deprecated' = {}
  \/ part = "review" /\ Reviews /\ published'[lib] = {}

\* Nobody moderates while zips are read; search is not asked.
ReadZips ==
  \/ \E r \in Reader :
       \/ \E kind \in {"zip", "head"}, m \in OurPath : AskForModule(r, kind, m)
       \/ ModuleStep(r) \/ ClientLeaves(r) \/ Answered(r)
  \/ \E m \in OurPath : PublishModule(m)

DerivedNext ==
  /\ part' = part
  /\ IF part \in SearchParts THEN SearchPart ELSE UNCHANGED searchVars
  /\ IF part = "downloads" THEN Next ELSE UNCHANGED downloadVars
  /\ IF part = "listings" THEN CacheNext ELSE UNCHANGED cacheVars
  /\ IF part = "upstream" THEN UpstreamNext ELSE UNCHANGED upstreamVars
  /\ IF part = "stopping" THEN StopNext ELSE UNCHANGED stopVars
  /\ IF part = "zips" THEN ReadZips ELSE UNCHANGED readsVars

\* The fairness of each module, in the behaviours that are about it.
DerivedFairness ==
  /\ SearchFairness
  /\ WF_downloadVars(Flush)
  /\ WF_cacheVars(part = "listings" /\ LoadPage)
  /\ WF_cacheVars(part = "listings" /\ ValueAges)
  /\ WF_cacheVars(part = "listings" /\ PageRequest)
  /\ WF_upstreamVars(part = "upstream" /\ Refreshing)
  /\ WF_upstreamVars(part = "upstream" /\ DatabaseChanges)
  /\ WF_stopVars(part = "stopping" /\ DeadlinePasses)
  /\ WF_stopVars(part = "stopping" /\ StopStep)
  /\ \A r \in Reader : WF_readsVars(ReadStep(r)) /\ SF_readsVars(Acquire(r))

MCDerivedSpec == DerivedInit /\ [][DerivedNext]_derivedVars /\ DerivedFairness

\* A module that has a version is found, though the server goes down between
\* publishing and indexing it: Backfill sees to it at the next start.  (Of
\* behaviours in which nothing is yanked or quarantined.)
PublishedIsFound == \A m \in Path : (part = "releases" /\ published[m] # {}) ~> (entry[m] # NoEntry)

\* A page that is asked for again and again comes to show the tables of now,
\* and never those of before what it showed already.
ListingsBecomeCurrent == ServedNeverGoesBack /\ (part = "listings" => ServedBecomesCurrent)

\* The copy of the vulnerability database becomes the database of now, and is
\* at no time older than it says, nor are its reports.
CopyKeepsUp == [](CopyIsNoOlderThanItsTime /\ ReportIsNoOlder) /\ (part = "upstream" => CopyBecomesCurrent)
=============================================================================

----------------------------- MODULE MCServices -----------------------------
(***************************************************************************)
(* Small instances of what handlers and operators do to caches, advisories *)
(* and stored files.  None of them changes what another one reads, so one  *)
(* behaviour works on one of them, which "part" names.                     *)
(***************************************************************************)
EXTENDS Services, TLC

CONSTANTS Parts, g1

VARIABLE part

AdvisoryParts == {"editing", "ranges", "tool"}
StorageParts == {"backups", "copies"}

cachesVars == <<keyVars, limitVars, proxyCacheVars>>
servicesVars == <<part, advisoryVars, readsVars, cachesVars, pagesVars, storageVars, migrationVars>>

\* Answers of the proxy grow or shrink; one of them is too large to keep.
InstanceSizes == [kn \in Key \X (0..Releases) |-> IF kn[1] = g1 THEN 2 - kn[2] ELSE 2 + kn[2]]

\* Programs of the installed release, and one of the next.
InstanceKnows == [p \in Program |-> IF p = CHOOSE q \in Program : TRUE THEN 4 ELSE 3]

\* Which of its two requests asks the proxy makes no difference.
InstanceSymmetry == Permutations(Asker)

-----------------------------------------------------------------------------
(* What is at work in each part of Advisories.                             *)

\* Everything an owner may fill in, in up to two rows.
AllForms ==
  {form \in SUBSET [introduced : 0..TopVersion, fixed : 0..TopVersion] : Cardinality(form) <= 2}

\* Two handlers at a time, over the turn of a year; nobody has a tool.
Editing ==
  /\ AdvisoriesNext
  /\ second' <= YearLength
  /\ UNCHANGED <<public, tool>>

\* One advisory, whatever its ranges.
AnyRanges ==
  LET h == CHOOSE h \in Editor : TRUE
      mod == CHOOSE mod \in Hosted : TRUE
  IN /\ CreateAdvisory(h) \/ \E form \in AllForms : CheckCreate(h, mod, form)
     /\ Len(advisories') <= 1
     /\ quiet' = quiet

\* One change in a second, which a tool follows.
Followed == AdvisoriesNext /\ OneChangePerSecond

-----------------------------------------------------------------------------
(* Searches of these documents, for any modules.                           *)

\* Six documents with two words: together, apart, or both and more.
InstanceDocuments ==
  LET Doc(n, s, r) == [named |-> n, synopsis |-> s, readme |-> r]
      A == CHOOSE w \in Word : TRUE
      B == CHOOSE w \in Word : w # A
  IN {Doc(Word, {}, {}), Doc({}, Word, {}), Doc({}, {}, Word),
      Doc(Word, Word, Word), Doc({A}, {B}, {}), Doc({A}, Word, {})}

\* The filters leave out at most one module.
SomePages == PagesInit /\ Cardinality(Ranked \ filtered) <= 1

\* Nobody searches.
NoPages ==
  /\ document = [m \in Ranked |-> CHOOSE d \in Document : TRUE]
  /\ filtered = {} /\ query = {} /\ perPage = 1
  /\ shown = <<>> /\ pageNumber = 1

-----------------------------------------------------------------------------
ServicesInit ==
  /\ part \in Parts
  /\ AdvisoriesInit
  /\ ReadsInit
  /\ KeysInit /\ (part = "keys" \/ issuerKeys = {})
  /\ LimitInit
  /\ ProxyCacheInit
  /\ IF part = "pages" THEN SomePages ELSE NoPages
  /\ StorageInit
  /\ MigrationInit

AdvisoriesPart ==
  \/ part = "editing" /\ Editing
  \/ part = "ranges" /\ AnyRanges
  \/ part = "tool" /\ Followed

StoragePart ==
  \/ part = "backups" /\ (Publishes \/ BacksUp \/ ServerStops)
  \/ part = "copies" /\ (StorageNext /\ clock' = clock /\ stops' = stops)

ServicesNext ==
  /\ part' = part
  /\ IF part \in AdvisoryParts THEN AdvisoriesPart ELSE UNCHANGED advisoryVars
  /\ IF part = "reads" THEN ReadsNext ELSE UNCHANGED readsVars
  /\ IF part = "keys" THEN KeysNext ELSE UNCHANGED keyVars
  /\ IF part = "limits" THEN LimitNext ELSE UNCHANGED limitVars
  /\ IF part = "proxy" THEN ProxyCacheNext ELSE UNCHANGED proxyCacheVars
  /\ IF part = "pages" THEN NextPage ELSE UNCHANGED pagesVars
  /\ IF part \in StorageParts THEN StoragePart ELSE UNCHANGED storageVars
  /\ IF part = "migrations" THEN MigrationNext ELSE UNCHANGED migrationVars

MCServicesSpec == ServicesInit /\ [][ServicesNext]_servicesVars
=============================================================================

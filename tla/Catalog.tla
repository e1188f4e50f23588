------------------------------ MODULE Catalog ------------------------------
(***************************************************************************)
(* What the registry lists: modules with their latest release, releases    *)
(* for feeds, the modules of a namespace, dependents, and the module an    *)
(* import path belongs to.  All of it is queries over modules, versions    *)
(* and version_requires, while releases are published, yanked and restored *)
(* and modules are reviewed, and while the requirements of versions from   *)
(* before there was a version_requires are filled in.                      *)
(***************************************************************************)
EXTENDS Integers, Sequences, FiniteSets, FiniteSetsExt, SequencesExt, Sorting

CONSTANTS ListedPath,     \* paths of modules in one namespace
          BaseOf,     \* the path of each without its major version suffix
          GoMods,     \* sets of paths that a go.mod may require
          MaxRows,    \* bound: versions there may be
          MaxChecks,  \* bound: yanks, reviews and seconds
          MaxFills    \* bound: starts of the server

ASSUME CatalogConstants ==
  /\ IsFiniteSet(ListedPath)
  /\ BaseOf \in [ListedPath -> ListedPath]
  /\ \A p \in ListedPath : BaseOf[BaseOf[p]] = BaseOf[p]
  /\ MaxRows \in Nat \ {0} /\ {MaxChecks, MaxFills} \subseteq Nat

VARIABLES versionRows,        \* table versions, by id, with the go.mod of each and version_requires
          hiddenNow, \* modules.quarantined_at
          seconds,      \* the time
          filling,     \* BackfillRequires: what it has listed, and how far it is
          fills, checks

catalogVars == <<versionRows, hiddenNow, seconds, filling, fills, checks>>

Required == UNION GoMods

\* needs is what go.mod requires; required, the rows of version_requires.
CatalogRow == [path : ListedPath, version : 1..MaxRows, at : Nat, yanked : BOOLEAN,
        needs : GoMods, required : SUBSET Required, indexed : BOOLEAN]

Ids == DOMAIN versionRows
OfPath(p) == {i \in Ids : versionRows[i].path = p}
Installable(p) == {i \in OfPath(p) : ~versionRows[i].yanked}

-----------------------------------------------------------------------------
(* Queries.                                                                *)

\* ORDER BY published_at DESC, id DESC: published in one second, the higher id.
Newer(i, j) == versionRows[i].at > versionRows[j].at \/ (versionRows[i].at = versionRows[j].at /\ i > j)
NewestOf(set) == {i \in set : \A j \in set \ {i} : Newer(i, j)}
NewestFirst(set) == Sorted(set, {ij \in set \X set : Newer(ij[1], ij[2])})

\* Mutant: the newest release, though it may be yanked.
NewestOfAll(i) == versionRows[i].path \notin hiddenNow /\ i \in NewestOf(OfPath(versionRows[i].path))
IsLatest(i) == versionRows[i].path \notin hiddenNow /\ i \in NewestOf(Installable(versionRows[i].path))

\* Registry.RecentlyUpdated, and NewModules in another order.
RecentlyUpdated == NewestFirst({i \in Ids : ~versionRows[i].yanked /\ IsLatest(i)})

\* Registry.Releases: of everything, or of one module.
ReleasesOf(paths) == NewestFirst({i \in Ids : versionRows[i].path \in paths \ hiddenNow /\ ~versionRows[i].yanked})

\* Registry.Dependents and DependentCounts; Signals counts the same way.
Dependents(p) == {i \in Ids : p \in versionRows[i].required /\ IsLatest(i)}

\* Registry.namespaceModules: every module that has a version, by its path,
\* "limit" of them from "offset" on, with the latest version of each.
ByPath(paths) == SetToSeq(paths)
HasVersions == {p \in ListedPath : OfPath(p) # {}}
NamespacePage(limit, offset) ==
  LET all == ByPath(HasVersions \ hiddenNow) IN SubSeq(all, offset + 1, Min({offset + limit, Len(all)}))

\* Registry.Versions: whether a path is a module, and may be seen.
Sees(p) == IF OfPath(p) = {} THEN "missing" ELSE IF p \in hiddenNow THEN "hidden" ELSE "seen"

\* Mutant: what is under review is passed over.
RootPassingOver(p) ==
  IF Sees(p) = "seen" THEN p ELSE IF Sees(BaseOf[p]) = "seen" THEN BaseOf[p] ELSE "missing"

\* Registry.ModuleRoot of a path with a major version suffix, or without:
\* the module of that path, or else a directory of the module without it;
\* what is under review is an answer, too.
ModuleRoot(p) ==
  LET first == IF Sees(p) # "missing" THEN p ELSE BaseOf[p] IN
  IF Sees(first) = "seen" THEN first ELSE Sees(first)

-----------------------------------------------------------------------------
(* What changes the tables.                                                *)

Changes == checks < MaxChecks /\ checks' = checks + 1

PublishRow(p, needs) ==
  /\ Len(versionRows) < MaxRows /\ p \notin hiddenNow \cup needs
  /\ versionRows' = Append(versionRows, [path |-> p, version |-> Len(versionRows) + 1, at |-> seconds, yanked |-> FALSE,
                           needs |-> needs, required |-> needs, indexed |-> TRUE])
  /\ UNCHANGED <<hiddenNow, seconds, filling, fills, checks>>

SetYanked(i, yanked) ==
  /\ Changes
  /\ versionRows[i].yanked # yanked /\ versionRows[i].path \notin hiddenNow
  /\ versionRows' = [versionRows EXCEPT ![i].yanked = yanked]
  /\ UNCHANGED <<hiddenNow, seconds, filling, fills>>

SetQuarantined(p) ==
  /\ Changes
  /\ OfPath(p) # {}
  /\ hiddenNow' = SymDiff(hiddenNow, {p})
  /\ UNCHANGED <<versionRows, seconds, filling, fills>>

ClockTicks ==
  /\ Changes
  /\ seconds' = seconds + 1
  /\ UNCHANGED <<versionRows, hiddenNow, filling, fills>>

-----------------------------------------------------------------------------
(* BackfillRequires, once per start of the server.                         *)

NotFilling == [pc |-> "none"]
Filled == [pc |-> "filled"]

GoesOnWith(todo) == IF todo = {} THEN Filled ELSE [pc |-> "fill", todo |-> todo]

ListUnindexed ==
  /\ filling = NotFilling /\ fills < MaxFills
  /\ fills' = fills + 1
  /\ filling' = GoesOnWith({i \in Ids : ~versionRows[i].indexed})
  /\ UNCHANGED <<versionRows, hiddenNow, seconds, checks>>

\* Each INSERT is a statement of its own; one that is there is left alone.
RecordRequire ==
  /\ filling.pc = "fill"
  /\ LET i == Min(filling.todo) IN
     \E p \in versionRows[i].needs \ versionRows[i].required : versionRows' = [versionRows EXCEPT ![i].required = @ \cup {p}]
  /\ UNCHANGED <<hiddenNow, seconds, filling, fills, checks>>

\* Mutant: the version counts as indexed before its requirements are there.
MarkAtOnce ==
  /\ filling.pc = "fill"
  /\ LET i == Min(filling.todo) IN
     /\ versionRows' = [versionRows EXCEPT ![i].indexed = TRUE]
     /\ filling' = IF versionRows[i].needs = versionRows[i].required THEN GoesOnWith(filling.todo \ {i}) ELSE filling
  /\ UNCHANGED <<hiddenNow, seconds, fills, checks>>

\* After the last of them, requires_indexed.
MarkIndexed ==
  /\ filling.pc = "fill"
  /\ LET i == Min(filling.todo) IN
     /\ versionRows[i].needs = versionRows[i].required
     /\ versionRows' = [versionRows EXCEPT ![i].indexed = TRUE]
     /\ filling' = GoesOnWith(filling.todo \ {i})
  /\ UNCHANGED <<hiddenNow, seconds, fills, checks>>

\* A statement fails and nothing more is filled in, or the server starts
\* again and begins anew.
FillingEnds ==
  /\ filling # NotFilling
  /\ filling' = NotFilling
  /\ UNCHANGED <<versionRows, hiddenNow, seconds, fills, checks>>

\* Releases from before the migration, which nothing is recorded of.
OldRow == [path : ListedPath, version : {1}, at : {0}, yanked : {FALSE}, needs : GoMods,
           required : {{}}, indexed : {FALSE}]

CatalogInit ==
  /\ versionRows \in {<<>>} \cup {<<old>> : old \in {b \in OldRow : b.path \notin b.needs}}
  /\ hiddenNow = {} /\ seconds = 0 /\ filling = NotFilling /\ fills = 0 /\ checks = 0

CatalogNext ==
  \/ \E p \in ListedPath, needs \in GoMods : PublishRow(p, needs)
  \/ \E i \in Ids, yanked \in BOOLEAN : SetYanked(i, yanked)
  \/ \E p \in ListedPath : SetQuarantined(p)
  \/ ClockTicks
  \/ ListUnindexed \/ RecordRequire \/ MarkIndexed \/ FillingEnds

CatalogSpec == CatalogInit /\ [][CatalogNext]_catalogVars

-----------------------------------------------------------------------------
CatalogTypeOK ==
  /\ Range(versionRows) \subseteq CatalogRow
  /\ hiddenNow \subseteq HasVersions
  /\ filling \in {NotFilling, Filled} \cup [pc : {"fill"}, todo : SUBSET Ids]

\* The lists agree with each other: a module that has a release to install
\* and is not under review is listed once, with the release that is the
\* first in its feed; no page of its namespace leaves it out; and no path of
\* a module under review is taken for a directory of another one.
ListsAgree ==
  /\ \A p \in ListedPath :
       LET listings == {n \in DOMAIN RecentlyUpdated : versionRows[RecentlyUpdated[n]].path = p} IN
       IF p \in hiddenNow \/ Installable(p) = {} THEN listings = {} /\ ReleasesOf({p}) = <<>>
       ELSE \E n \in listings : listings = {n} /\ RecentlyUpdated[n] = ReleasesOf({p})[1]
  /\ \A limit \in 1..Cardinality(ListedPath) :
       FlattenSeq([n \in 1..Cardinality(ListedPath) |-> NamespacePage(limit, (n - 1) * limit)])
         = ByPath(HasVersions \ hiddenNow)
  /\ \A p \in ListedPath : p \in hiddenNow => ModuleRoot(p) = "hidden"

\* A version that counts as indexed has all its requirements recorded,
\* wherever filling them in stopped; so once that ended well, the dependents
\* of a module are those whose latest release requires it.
UsedByIsComplete ==
  /\ \A i \in Ids : versionRows[i].indexed => versionRows[i].required = versionRows[i].needs
  /\ filling = Filled => \A p \in Required : Dependents(p) = {i \in Ids : IsLatest(i) /\ p \in versionRows[i].needs}

\* What the registry lists is what it has, once it has something.
CatalogIsTrue == versionRows # <<>> => ListsAgree /\ UsedByIsComplete
=============================================================================

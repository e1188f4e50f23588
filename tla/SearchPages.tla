---------------------------- MODULE SearchPages ----------------------------
(***************************************************************************)
(* The pages of a search by relevance.  Every word has to match somewhere; *)
(* the results come in tiers, each ranked on its own: those that match in  *)
(* their path or name, in their summary, in what is left.  A page is cut   *)
(* from the tiers without ranking those that are before it.  A visitor     *)
(* reads one page after another, as far as the number of matches goes.     *)
(*                                                                         *)
(* A module is its place in the order within a tier (bm25, downloads,      *)
(* date), and a document says which words are where in it.                 *)
(***************************************************************************)
EXTENDS Integers, Sequences, FiniteSetsExt, SequencesExt, Sorting

CONSTANTS Ranked,    \* hosted modules that are in the index: numbers, best first
          Word,
          Document,  \* documents that modules may have
          PerPage    \* how many results a page may be asked to hold

ASSUME SearchPagesConstants ==
  /\ Ranked \subseteq Nat /\ IsFiniteSet(Ranked)
  /\ Document \subseteq [named : SUBSET Word, synopsis : SUBSET Word, readme : SUBSET Word]
  /\ PerPage \subseteq Nat \ {0}

VARIABLES document,   \* table module_fts: which words each module has, and where
          filtered,   \* the modules that the filters let through
          query,      \* the words that are searched for
          perPage,
          shown,      \* the results of the pages seen so far
          pageNumber  \* the next page

pagesVars == <<document, filtered, query, perPage, shown, pageNumber>>

-----------------------------------------------------------------------------
(* Registry.Search.                                                        *)

\* Full-text matches: every word, in one of these columns.
WordsOf(m, columns) == UNION {document[m][c] : c \in columns}
Matches(m, columns) == query \subseteq WordsOf(m, columns)

Everywhere == {"named", "synopsis", "readme"}
Found == {m \in filtered : Matches(m, Everywhere)}

Named == {m \in Found : Matches(m, {"named"})}

\* Mutant: modules with a word of the query in their name are taken for seen.
NoWordNamed == {m \in Found : Matches(m, {"synopsis"}) /\ WordsOf(m, {"named"}) \cap query = {}}
Summarized == {m \in Found : Matches(m, {"synopsis"}) /\ ~Matches(m, {"named"})}

\* Mutant: a module that matches before is in the last tier again.
AllFound == Found
Elsewhere == {m \in Found : ~Matches(m, {"named", "synopsis"})}

InOrder(tier) == Sorted(tier, {mn \in tier \X tier : mn[1] < mn[2]})

\* Mutant: what was skipped in one tier is skipped in the next, too.
StillSkipped(skip) == skip
FromItsStart(skip) == 0

Skipped(skip, tier) == skip > 0 /\ skip >= Cardinality(tier)

\* One tier: it is paged past, or gives the hits there is room for.
SearchTier(found, tier, limit) ==
  IF Len(found.hits) = limit THEN found
  ELSE IF Skipped(found.skip, tier) THEN [found EXCEPT !.skip = @ - Cardinality(tier)]
  ELSE LET room == limit - Len(found.hits)
           more == SubSeq(InOrder(tier), found.skip + 1, Min({found.skip + room, Cardinality(tier)}))
       IN  [hits |-> found.hits \o more, skip |-> FromItsStart(found.skip)]

Search(limit, offset) ==
  LET none == [hits |-> <<>>, skip |-> offset]
      names == SearchTier(none, Named, limit)
      summaries == SearchTier(names, Summarized, limit)
  IN  SearchTier(summaries, Elsewhere, limit).hits
Total == Cardinality(Found)

-----------------------------------------------------------------------------
(* The search page.                                                        *)

Pages == Max({1, (Total + perPage - 1) \div perPage})

\* Any text that has words; nothing changes while the visitor reads.
PagesInit ==
  /\ document \in [Ranked -> Document]
  /\ filtered \in SUBSET Ranked
  /\ query \in SUBSET Word \ {{}}
  /\ perPage \in PerPage
  /\ shown = <<>>
  /\ pageNumber = 1

NextPage ==
  /\ pageNumber <= Pages
  /\ shown' = shown \o Search(perPage, (pageNumber - 1) * perPage)
  /\ pageNumber' = pageNumber + 1
  /\ UNCHANGED <<document, filtered, query, perPage>>

PagesSpec == PagesInit /\ [][NextPage]_pagesVars

-----------------------------------------------------------------------------
(* Properties.                                                             *)

PagesTypeOK ==
  /\ document \in [Ranked -> Document]
  /\ filtered \subseteq Ranked
  /\ query \subseteq Word
  /\ shown \in Seq(filtered)
  /\ pageNumber \in 1..Pages + 1

\* The best place where all the words of the query are.
Place(m) == IF query \subseteq document[m].named THEN 1
            ELSE IF query \subseteq document[m].synopsis THEN 2 ELSE 3

\* Though every page is cut from tiers that are ranked apart, the pages make
\* one list: nothing is on two of them, and nothing comes before what
\* matches in a better place, or is ranked before it in the same one.
PagesMakeOneList ==
  \A i, j \in DOMAIN shown : i < j =>
    Place(shown[i]) < Place(shown[j]) \/ (Place(shown[i]) = Place(shown[j]) /\ shown[i] < shown[j])

\* Nothing is lost where one page or tier ends and the next begins: a page
\* is full as long as a tier has something left.
NothingIsSkipped ==
  Len(shown) = Min({(pageNumber - 1) * perPage, Cardinality(Named \cup Summarized \cup Elsewhere)})

\* With one word, and with words that are all in the name or all in the
\* summary, everything that matches is on the pages the visitor is offered.
TogetherIsFound ==
  pageNumber > Pages => \A m \in Found :
    (\E w \in Word : query = {w}) \/ (\E c \in {"named", "synopsis"} : query \subseteq document[m][c]) => m \in ToSet(shown)

\* The pages are one ranked list, whole but for what no tier takes.
PagesAreOneSearch == PagesMakeOneList /\ NothingIsSkipped /\ TogetherIsFound

\* What is documented and does not hold: words match anywhere in the path,
\* name, summary or README, so what matches is on one of the pages.
MatchesAreFound == pageNumber > Pages => Found \subseteq ToSet(shown)
=============================================================================

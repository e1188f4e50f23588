----------------------------- MODULE Advisories -----------------------------
(***************************************************************************)
(* Security advisories: the handlers that publish, edit and withdraw them, *)
(* the vulnerability database that is made of them at every request, and a *)
(* tool that keeps a copy of it.  A handler reads the advisory and the     *)
(* caller's role, reads the clock, and writes in a statement of its own    *)
(* (publishing: in a transaction that also counts the advisories of the    *)
(* year).  Times are in whole seconds, and what is published meanwhile on  *)
(* vuln.go.dev has a time of its own.                                      *)
(*                                                                         *)
(* Versions are numbers, with 0 for a blank field and for OSV's "0".  Left *)
(* out: roles (module Access) and the text of an advisory.                 *)
(***************************************************************************)
EXTENDS Integers, SequencesExt, Sorting

CONSTANTS Hosted,         \* modules on the registry
          Editor,         \* requests at work at the same time
          Form,           \* what owners fill in: sets of rows of the form
          TopVersion,     \* versions are 1..TopVersion
          YearLength,     \* seconds in a year
          MaxSecond,      \* bound: the clock stops there
          MaxAdvisories,  \* bound: advisories published
          MaxChanges      \* bound: edits and withdrawals, quarantines and releases

ASSUME AdvisoryConstants ==
  /\ TopVersion \in Nat /\ YearLength \in Nat \ {0}
  /\ MaxSecond \in Nat \ {0} /\ MaxAdvisories \in Nat /\ MaxChanges \in Nat
  /\ \A form \in Form : form \subseteq [introduced : 0..TopVersion, fixed : 0..TopVersion]

VARIABLES second,       \* the clock
          advisories,   \* table advisories, in the order of its row ids
          underReview,  \* modules.quarantined_at
          public,       \* Upstream.meta.Modified: the copy of vuln.go.dev, of one report
          edit,         \* what each handler is doing
          tool,         \* the copy somebody's tool keeps of /vulndb
          changes,
          quiet         \* history: there was at most one change in a second

advisoryVars == <<second, advisories, underReview, public, edit, tool, changes, quiet>>

NotEditing == [pc |-> "idle"]
Blank == [introduced |-> 0, fixed |-> 0]

-----------------------------------------------------------------------------
(* Versions and ranges.                                                    *)

\* normalize: blank rows are ignored, a fix comes after the first affected
\* version, and no row at all means every version.
Acceptable(form) ==
  \A r \in form : r.introduced # 0 /\ r.fixed # 0 => r.introduced < r.fixed
Normalized(form) == IF form \subseteq {Blank} THEN {Blank} ELSE form \ {Blank}

\* osvRanges: the events of each range, on their own.
EventsOf(r) ==
  {[version |-> r.introduced, kind |-> "introduced"]}
    \cup (IF r.fixed = 0 THEN {} ELSE {[version |-> r.fixed, kind |-> "fixed"]})

\* Mutant: all events in one range.
OneRange(ranges) == {UNION {EventsOf(r) : r \in ranges}}
OsvRanges(ranges) == {EventsOf(r) : r \in ranges}

\* sortedEvents: by version, introductions before fixes.
Before(a, b) == a.version < b.version \/ (a.version = b.version /\ a.kind = "introduced" /\ b.kind = "fixed")
SortedEvents(events) == Sorted(events, {ab \in events \X events : Before(ab[1], ab[2])})

\* AffectsVersion: what the last event at or below the version was.
InRange(events, v) ==
  FoldLeft(LAMBDA affected, e : IF v >= e.version THEN e.kind = "introduced" ELSE affected,
           FALSE, SortedEvents(events))
AffectsVersion(osvRanges, v) == \E events \in osvRanges : InRange(events, v)

\* Affects, and AffectsModule of the report that is made of the advisory.
Affects(a, v) == a.withdrawn = 0 /\ AffectsVersion(OsvRanges(a.ranges), v)

-----------------------------------------------------------------------------
(* What /vulndb answers.                                                   *)

\* Mutant: those of modules under review too.
AllRows == ToSet(advisories)
Listed == {a \in ToSet(advisories) : a.mod \notin underReview}

\* Merge: the time of the newest entry, and each with its own.
Indexes ==
  [modified |-> Max({a.modified : a \in Listed} \cup {public}),
   vulns    |-> {[id |-> a.id, modified |-> a.modified] : a \in Listed},
   public   |-> public]

-----------------------------------------------------------------------------
(* Handlers.                                                               *)

\* Mutant: numbers are given out per module.
PublishedOf(year, mod) == {i \in DOMAIN advisories : advisories[i].id.year = year /\ advisories[i].mod = mod}
PublishedIn(year, mod) == {i \in DOMAIN advisories : advisories[i].id.year = year}
NextId(year, mod) == [year |-> year, number |-> Cardinality(PublishedIn(year, mod)) + 1]

\* CreateAdvisory: the caller owns the module, the form is fine; the clock
\* is read before the transaction waits for its turn.
CheckCreate(h, mod, form) ==
  /\ edit[h] = NotEditing
  /\ Acceptable(form)
  /\ edit' = [edit EXCEPT ![h] = [pc |-> "create", mod |-> mod, ranges |-> Normalized(form), now |-> second]]
  /\ UNCHANGED <<second, advisories, underReview, public, tool, changes>>

\* The transaction; the unique id makes the second of two with one id fail.
CreateAdvisory(h) ==
  LET e == edit[h]
      id == NextId(e.now \div YearLength, e.mod)
      row == [id |-> id, mod |-> e.mod, ranges |-> e.ranges, modified |-> e.now, withdrawn |-> 0]
  IN
  /\ e.pc = "create"
  /\ Len(advisories) < MaxAdvisories
  /\ IF \E a \in AllRows : a.id = id
     THEN edit' = [edit EXCEPT ![h] = [pc |-> "failed"]] /\ UNCHANGED advisories
     ELSE edit' = [edit EXCEPT ![h] = NotEditing] /\ advisories' = Append(advisories, row)
  /\ UNCHANGED <<second, underReview, public, tool, changes>>

\* UpdateAdvisory and WithdrawAdvisory read the advisory, which must be
\* listed, check the caller's role, and read the clock.
CheckUpdate(h, i, form) ==
  /\ edit[h] = NotEditing
  /\ advisories[i] \in Listed
  /\ Acceptable(form)
  /\ edit' = [edit EXCEPT ![h] = [pc |-> "update", row |-> i, ranges |-> Normalized(form), now |-> second]]
  /\ UNCHANGED <<second, advisories, underReview, public, tool, changes>>

\* Mutant: the row is written as it was read, before somebody withdrew it.
UpdateRow(h) ==
  /\ edit[h].pc = "update" /\ changes < MaxChanges /\ changes' = changes + 1
  /\ advisories' = [advisories EXCEPT ![edit[h].row] =
       [@ EXCEPT !.ranges = edit[h].ranges, !.modified = edit[h].now, !.withdrawn = 0]]
  /\ edit' = [edit EXCEPT ![h] = NotEditing]
  /\ UNCHANGED <<second, underReview, public, tool>>

UpdateAdvisory(h) ==
  /\ edit[h].pc = "update" /\ changes < MaxChanges /\ changes' = changes + 1
  /\ advisories' = [advisories EXCEPT ![edit[h].row] =
       [@ EXCEPT !.ranges = edit[h].ranges, !.modified = edit[h].now]]
  /\ edit' = [edit EXCEPT ![h] = NotEditing]
  /\ UNCHANGED <<second, underReview, public, tool>>

CheckWithdraw(h, i) ==
  /\ edit[h] = NotEditing
  /\ advisories[i] \in Listed
  /\ advisories[i].withdrawn = 0
  /\ edit' = [edit EXCEPT ![h] = [pc |-> "withdraw", row |-> i, now |-> second]]
  /\ UNCHANGED <<second, advisories, underReview, public, tool, changes>>

\* Mutant: only withdrawn_at is set.
WithdrawOnly(h) ==
  /\ edit[h].pc = "withdraw" /\ changes < MaxChanges /\ changes' = changes + 1
  /\ advisories' = [advisories EXCEPT ![edit[h].row].withdrawn = edit[h].now]
  /\ edit' = [edit EXCEPT ![h] = NotEditing]
  /\ UNCHANGED <<second, underReview, public, tool>>

WithdrawAdvisory(h) ==
  /\ edit[h].pc = "withdraw" /\ changes < MaxChanges /\ changes' = changes + 1
  /\ advisories' = [advisories EXCEPT ![edit[h].row] =
       [@ EXCEPT !.withdrawn = edit[h].now, !.modified = edit[h].now]]
  /\ edit' = [edit EXCEPT ![h] = NotEditing]
  /\ UNCHANGED <<second, underReview, public, tool>>

\* The statement fails: nothing is written, and the handler answers so.
EditFails(h) ==
  /\ edit[h] # NotEditing
  /\ edit' = [edit EXCEPT ![h] = NotEditing]
  /\ UNCHANGED <<second, advisories, underReview, public, tool, changes>>

\* Quarantine and Release, as far as advisories go.
Review(mod) ==
  /\ changes < MaxChanges /\ changes' = changes + 1
  /\ underReview' = IF mod \in underReview THEN underReview \ {mod} ELSE underReview \cup {mod}
  /\ UNCHANGED <<second, advisories, public, edit, tool>>

-----------------------------------------------------------------------------
(* The public database, a tool, and the clock.                             *)

\* Upstream fetches a newer copy, of a change made since the last one.
PublicChanges ==
  /\ \E modified \in public + 1..second : public' = modified
  /\ UNCHANGED <<second, advisories, underReview, edit, tool, changes>>

\* Upstream.Refresh, run by another registry, or by a tool like it: it keeps
\* its copy when the time in db.json is the one it has.
RefreshCopy ==
  /\ Indexes.modified # tool.indexes.modified
  /\ tool' = [tool EXCEPT !.indexes = Indexes]
  /\ UNCHANGED <<second, advisories, underReview, public, edit, changes>>

\* Upstream.Entry: a report is fetched when it is not there, or older than
\* the indexes say.
ReportOf(id) == {a \in tool.reports : a.id = id}
FetchAdvisory ==
  /\ \E entry \in tool.indexes.vulns, a \in Listed :
       /\ a.id = entry.id
       /\ \A old \in ReportOf(a.id) : old.modified < entry.modified
       /\ tool' = [tool EXCEPT !.reports = (@ \ ReportOf(a.id)) \cup {a}]
  /\ UNCHANGED <<second, advisories, underReview, public, edit, changes>>

SecondPasses ==
  /\ second < MaxSecond
  /\ second' = second + 1
  /\ UNCHANGED <<advisories, underReview, public, edit, tool, changes>>

-----------------------------------------------------------------------------
AdvisoriesInit ==
  /\ second = 1
  /\ advisories = <<>>
  /\ underReview = {}
  /\ public = 0
  /\ edit = [h \in Editor |-> NotEditing]
  /\ tool = [indexes |-> [modified |-> 0, vulns |-> {}, public |-> 0], reports |-> {}]
  /\ changes = 0
  /\ quiet = TRUE

Creating(h, forms) ==
  CreateAdvisory(h) \/ \E mod \in Hosted, form \in forms : CheckCreate(h, mod, form)
Changing(h, forms) ==
  \/ \E i \in DOMAIN advisories :
       CheckWithdraw(h, i) \/ \E form \in forms : CheckUpdate(h, i, form)
  \/ UpdateAdvisory(h)
  \/ WithdrawAdvisory(h)

ToolStep == RefreshCopy \/ FetchAdvisory

AdvisoriesStep ==
  \/ \E h \in Editor : Creating(h, Form) \/ Changing(h, Form) \/ EditFails(h)
  \/ \E mod \in Hosted : Review(mod)
  \/ PublicChanges
  \/ ToolStep
  \/ SecondPasses

\* One handler at a time, which begins in a second nothing was written in and
\* is done before it is over; neither quarantines nor news from vuln.go.dev.
OneChangePerSecond ==
  /\ UNCHANGED <<underReview, public>>
  /\ edit' # edit /\ advisories' = advisories => \A a \in AllRows : a.modified < second
  /\ \A g, h \in Editor : g = h \/ edit'[g] = NotEditing \/ edit'[h] = NotEditing
  /\ second' # second => \A h \in Editor : edit[h] = NotEditing

AdvisoriesNext == AdvisoriesStep /\ quiet' = (quiet /\ OneChangePerSecond)

AdvisoriesSpec == AdvisoriesInit /\ [][AdvisoriesNext]_advisoryVars

-----------------------------------------------------------------------------
(* Properties.                                                             *)

Second == 0..MaxSecond
Ranges == SUBSET [introduced : 0..TopVersion, fixed : 0..TopVersion]
AdvisoryId == [year : 0..(MaxSecond \div YearLength), number : 1..MaxAdvisories]
AdvisoryRow == [id : AdvisoryId, mod : Hosted, ranges : Ranges, modified : Second, withdrawn : Second]
AdvisoriesTypeOK ==
  /\ second \in Second
  /\ \A i \in DOMAIN advisories : advisories[i] \in AdvisoryRow
  /\ underReview \subseteq Hosted
  /\ public \in Second
  /\ tool.reports \subseteq AdvisoryRow
  /\ changes \in 0..MaxChanges
  /\ quiet \in BOOLEAN

\* An owner is never refused because the next id is taken: ids are counted
\* and not kept anywhere, over all modules, those under review too, over
\* requests at the same time and over the turn of the year.
IdsAreFree == \A h \in Editor : edit[h].pc # "failed"

\* An advisory that was withdrawn stays so, though an edit that was checked
\* before the withdrawal is written after it.
WithdrawnStays ==
  [][\A i \in DOMAIN advisories : advisories[i].withdrawn # 0 => advisories'[i].withdrawn # 0]_advisoryVars

\* Handlers that edit at the same time neither fail nor undo each other.
EditsAreOrderly == []IdsAreFree /\ WithdrawnStays

\* What the events of the report say is what the owner filled in: a version
\* is affected when it is in one of the ranges, however they overlap.
AffectsWhatWasFilledIn ==
  \A a \in AllRows, v \in 1..TopVersion :
    Affects(a, v) <=> a.withdrawn = 0 /\ \E r \in a.ranges : v >= r.introduced /\ (r.fixed = 0 \/ v < r.fixed)

\* A tool that has done what db.json told it to has the indexes, and the
\* reports it need not fetch again are those that are served.
ToolIsCurrent ==
  tool.indexes.modified = Indexes.modified =>
    /\ tool.indexes = Indexes
    /\ \A entry \in tool.indexes.vulns, a \in tool.reports :
         a.id = entry.id /\ a.modified >= entry.modified => a \in Listed

\* A tool that refreshes its copy when db.json says that something changed
\* has what is served (with at most one change in a second), and what that
\* says is what the owners filled in.
ToolsFollow == AffectsWhatWasFilledIn /\ (quiet => ToolIsCurrent)

=============================================================================

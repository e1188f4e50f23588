------------------------------ MODULE Upstream ------------------------------
(***************************************************************************)
(* The copy of the public vulnerability database.  Its three index files   *)
(* are fetched one after the other every hour, when the first of them says *)
(* that the database changed; the reports are fetched when a page asks for *)
(* one, and kept.  The database goes on being changed between the requests *)
(* of one refresh, and requests fail.  Its files are numbered by the       *)
(* change they are from.                                                   *)
(***************************************************************************)
EXTENDS Integers

CONSTANTS Page,         \* handlers that ask for the report
          MaxModified,  \* bound: how often the database changes
          MaxGetFails   \* bound: how often a request of Refresh fails

ASSUME UpstreamConstants == MaxModified \in Nat \ {0} /\ MaxGetFails \in Nat

NoCopy == 0
Waiting == [pc |-> "waiting"]
NoReport == [pc |-> "idle"]

VARIABLES database,  \* the files of the public database: db, modules, vulns and one report
          meta,      \* Upstream.meta.Modified
          modules,   \* Upstream.modules, with byModule
          vulns,     \* Upstream.vulns
          refresh,   \* where Refresh is
          report,    \* Upstream.entries, of one report
          page,      \* the calls of Entry
          getFails

copyVars == <<meta, modules, vulns>>
upstreamVars == <<database, copyVars, refresh, report, page, getFails>>

-----------------------------------------------------------------------------
\* Run calls Refresh, which asks for db.json first.
FetchMeta ==
  /\ refresh = Waiting
  /\ database.db # meta
  /\ refresh' = [pc |-> "modules", meta |-> database.db]
  /\ UNCHANGED <<database, copyVars, report, page, getFails>>

FetchModules ==
  /\ refresh.pc = "modules"
  /\ refresh' = [pc |-> "vulns", meta |-> refresh.meta, modules |-> database.modules]
  /\ UNCHANGED <<database, copyVars, report, page, getFails>>

\* Mutant: the time of the copy is that of the database when it was complete.
FetchVulnsThenMeta ==
  /\ refresh.pc = "vulns"
  /\ refresh' = [pc |-> "store", meta |-> database.db, modules |-> refresh.modules, vulns |-> database.vulns]
  /\ UNCHANGED <<database, copyVars, report, page, getFails>>

FetchVulns ==
  /\ refresh.pc = "vulns"
  /\ refresh' = [pc |-> "store", meta |-> refresh.meta, modules |-> refresh.modules, vulns |-> database.vulns]
  /\ UNCHANGED <<database, copyVars, report, page, getFails>>

StoreIndexes ==
  /\ refresh.pc = "store"
  /\ meta' = refresh.meta
  /\ modules' = refresh.modules
  /\ vulns' = refresh.vulns
  /\ refresh' = Waiting
  /\ UNCHANGED <<database, report, page, getFails>>

\* A failed refresh keeps the last good copy; Run tries again.
GetFails ==
  /\ refresh.pc \in {"modules", "vulns"}
  /\ getFails < MaxGetFails
  /\ getFails' = getFails + 1
  /\ refresh' = Waiting
  /\ UNCHANGED <<database, copyVars, report, page>>

-----------------------------------------------------------------------------
\* Mutant of Kept: a report that was fetched once is never fetched again.
KeptAtAll(modified) == report # NoCopy
Kept(modified) == report # NoCopy /\ report >= modified

\* Entry, called with the time the indexes give the report: the kept one, or
\* it is fetched.  What the caller gets is in "got".
AskForReport(p) ==
  \E modified \in {modules, vulns} \ {NoCopy} :
    /\ page[p].pc # "fetch"
    /\ page[p].pc # "fetched"
    /\ page' = [page EXCEPT ![p] =
         IF Kept(modified) THEN [pc |-> "answered", modified |-> modified, got |-> report]
                           ELSE [pc |-> "fetch", modified |-> modified]]
    /\ UNCHANGED <<database, copyVars, refresh, report, getFails>>

FetchReport(p) ==
  /\ page[p].pc = "fetch"
  /\ \/ page' = [page EXCEPT ![p] = [pc |-> "fetched", modified |-> page[p].modified, got |-> database.report]]
     \/ page' = [page EXCEPT ![p] = NoReport]   \* the request fails
  /\ UNCHANGED <<database, copyVars, refresh, report, getFails>>

\* The report is kept, whatever another page has put there meanwhile.
KeepReport(p) ==
  /\ page[p].pc = "fetched"
  /\ report' = page[p].got
  /\ page' = [page EXCEPT ![p] = [pc |-> "answered", modified |-> page[p].modified, got |-> page[p].got]]
  /\ UNCHANGED <<database, copyVars, refresh, getFails>>

-----------------------------------------------------------------------------
\* The public database changes: the report first, then the indexes that name
\* it, and db.json, which says that there is a change, last.
DatabaseChanges ==
  /\ \/ /\ database.db = database.report
        /\ database.report < MaxModified
        /\ database' = [database EXCEPT !.report = @ + 1]
     \/ /\ database.modules < database.report
        /\ database' = [database EXCEPT !.modules = @ + 1]
     \/ /\ database.vulns < database.modules
        /\ database' = [database EXCEPT !.vulns = @ + 1]
     \/ /\ database.db < database.vulns
        /\ database' = [database EXCEPT !.db = @ + 1]
  /\ UNCHANGED <<copyVars, refresh, report, page, getFails>>

UpstreamInit ==
  /\ database = [db |-> 1, modules |-> 1, vulns |-> 1, report |-> 1]
  /\ meta = NoCopy
  /\ modules = NoCopy
  /\ vulns = NoCopy
  /\ refresh = Waiting
  /\ report = NoCopy
  /\ page = [p \in Page |-> NoReport]
  /\ getFails = 0

Refreshing == FetchMeta \/ FetchModules \/ FetchVulns \/ StoreIndexes \/ GetFails

UpstreamNext ==
  \/ Refreshing
  \/ \E p \in Page : AskForReport(p) \/ FetchReport(p) \/ KeepReport(p)
  \/ DatabaseChanges

\* Run goes on, and a request ends, by its timeout at the latest.
UpstreamFairness == WF_upstreamVars(Refreshing) /\ WF_upstreamVars(DatabaseChanges)
UpstreamSpec == UpstreamInit /\ [][UpstreamNext]_upstreamVars /\ UpstreamFairness

-----------------------------------------------------------------------------
(* Properties.                                                             *)

Modified == 0..MaxModified
UpstreamTypeOK ==
  /\ database \in [db : Modified, modules : Modified, vulns : Modified, report : Modified]
  /\ {meta, modules, vulns, report} \subseteq Modified
  /\ refresh \in {Waiting} \cup [pc : {"modules"}, meta : Modified]
       \cup [pc : {"vulns"}, meta : Modified, modules : Modified]
       \cup [pc : {"store"}, meta : Modified, modules : Modified, vulns : Modified]
  /\ page \in [Page -> {NoReport} \cup [pc : {"fetch"}, modified : Modified]
       \cup [pc : {"fetched", "answered"}, modified : Modified, got : Modified]]
  /\ getFails \in 0..MaxGetFails

\* The copy never calls itself newer than it is, though the database changes
\* between the requests of one refresh: what it lacks, the next refresh will
\* find changed.
CopyIsNoOlderThanItsTime == meta <= modules /\ meta <= vulns

\* Once the database no longer changes the copy comes to be the database,
\* though it was changed in the middle of refreshes, and some failed.
CopyBecomesCurrent ==
  <>[](meta = database.db /\ modules = database.modules /\ vulns = database.vulns)

\* The report a page is given is at least as new as the indexes it was asked
\* for by, though pages put back older ones that they fetched before.
ReportIsNoOlder == \A p \in Page : page[p].pc = "answered" => page[p].got >= page[p].modified

=============================================================================

----------------------------- MODULE Moderation -----------------------------
(***************************************************************************)
(* Reports of users and of the publish checks, and the review queue.       *)
(* Several administrators work on it at the same time, each from a page    *)
(* that was right when it was shown; statements after the one that decides *)
(* may fail; and accounts are deleted.  What a quarantine does to pages,   *)
(* search and publishing is in Reads, SearchIndex and Publishing.          *)
(***************************************************************************)
EXTENDS Naturals, Sequences, FiniteSets

CONSTANTS Shelf,     \* modules
          Reporter, Admin,
          Registry,  \* the reporter_id that is NULL
          MaxReports, MaxFlagged, \* bounds: reports, and versions that are warned of
          MaxReviews \* bound: what administrators do

ASSUME ModerationConstants ==
  /\ Registry \notin Reporter \cup Admin
  /\ {MaxReports, MaxFlagged, MaxReviews} \subseteq Nat

VARIABLES reports,  \* table reports, by id
          quarantinedNow, \* modules.quarantined_at
          flagged,  \* versions the checks warned of, by the version's id: how far Publish is
          findings, \* table publish_findings: the versions it has rows of
          view,     \* what each administrator's page shows
          gone,     \* accounts that are deleted
          credit,   \* history: who was told to have dismissed each report
          closed,   \* history: how many reports there were when a module was last quarantined
          reviews

moderationVars == <<reports, quarantinedNow, flagged, findings, view, gone, credit, closed, reviews>>

ReportIds == DOMAIN reports
IsOpen(i) == reports[i].status = "open"
NewReport(m, by, v) == [module |-> m, by |-> by, version |-> v, status |-> "open", resolver |-> Registry]

\* Registry.ReportModule, of a module there is.
FileReport(u, m) ==
  /\ u \notin gone /\ Len(reports) < MaxReports
  /\ reports' = Append(reports, NewReport(m, u, 0))
  /\ UNCHANGED <<quarantinedNow, flagged, findings, view, gone, credit, closed, reviews>>

-----------------------------------------------------------------------------
(* Publishing a version that the checks warn of.                           *)

\* Publish commits the version; one that is there is answered and that is all.
CommitFlagged(m) ==
  /\ m \notin quarantinedNow /\ Len(flagged) < MaxFlagged
  /\ flagged' = Append(flagged, [module |-> m, at |-> "committed"])
  /\ UNCHANGED <<reports, quarantinedNow, findings, view, gone, credit, closed, reviews>>

\* Mutant: the findings and the report are no transaction.
RecordSeparately(v) ==
  /\ flagged[v].at = "committed" /\ Len(reports) < MaxReports
  /\ IF v \in findings
     THEN /\ flagged' = [flagged EXCEPT ![v].at = "answered"]
          /\ reports' = Append(reports, NewReport(flagged[v].module, Registry, v))
     ELSE UNCHANGED <<flagged, reports>>
  /\ findings' = findings \cup {v}
  /\ UNCHANGED <<quarantinedNow, view, gone, credit, closed, reviews>>

\* recordFindings; the handler then emails maintainers and administrators.
RecordFindings(v) ==
  /\ flagged[v].at = "committed" /\ Len(reports) < MaxReports
  /\ flagged' = [flagged EXCEPT ![v].at = "answered"]
  /\ findings' = findings \cup {v}
  /\ reports' = Append(reports, NewReport(flagged[v].module, Registry, v))
  /\ UNCHANGED <<quarantinedNow, view, gone, credit, closed, reviews>>

\* It fails, which is logged; the client is gone and the request with it; or
\* the server stops.  The findings are lost.
FindingsFail(v) ==
  /\ flagged[v].at = "committed"
  /\ flagged' = [flagged EXCEPT ![v].at = "answered"]
  /\ UNCHANGED <<reports, quarantinedNow, findings, view, gone, credit, closed, reviews>>

-----------------------------------------------------------------------------
(* The review queue.  An administrator is signed in with two factors.      *)

Reviews == reviews < MaxReviews /\ reviews' = reviews + 1

OpenQueue(a) ==
  /\ a \notin gone
  /\ view' = [view EXCEPT ![a] = [reports |-> {i \in ReportIds : IsOpen(i)}, inReview |-> quarantinedNow]]
  /\ view' # view
  /\ UNCHANGED <<reports, quarantinedNow, flagged, findings, gone, credit, closed, reviews>>

Resolve(i, status, a) == [reports[i] EXCEPT !.status = status, !.resolver = a]

\* Mutant: whatever its status is.
DismissAny(a, i, told) ==
  /\ Reviews /\ a \notin gone /\ i \in view[a].reports
  /\ reports' = [reports EXCEPT ![i] = Resolve(i, "dismissed", a)]
  /\ credit' = IF told THEN [credit EXCEPT ![i] = @ \cup {a}] ELSE credit
  /\ UNCHANGED <<quarantinedNow, flagged, findings, view, gone, closed>>

\* Registry.DismissReport: the first one closes it, the others are told that
\* it is closed; and who closed it is told an error when the audit fails.
DismissReport(a, i, told) ==
  /\ Reviews /\ a \notin gone /\ i \in view[a].reports
  /\ IF IsOpen(i)
     THEN /\ reports' = [reports EXCEPT ![i] = Resolve(i, "dismissed", a)]
          /\ credit' = IF told THEN [credit EXCEPT ![i] = @ \cup {a}] ELSE credit
     ELSE UNCHANGED <<reports, credit>>
  /\ UNCHANGED <<quarantinedNow, flagged, findings, view, gone, closed>>

\* Mutant: reports that were dismissed are actioned, too.
AllOf(m) == {i \in ReportIds : reports[i].module = m}
OpenOf(m) == {i \in ReportIds : reports[i].module = m /\ IsOpen(i)}

\* Registry.Quarantine: one transaction.  Its maintainers are emailed.
QuarantineReported(a, m) ==
  /\ Reviews /\ a \notin gone
  /\ quarantinedNow' = quarantinedNow \cup {m}
  /\ reports' = [i \in ReportIds |-> IF i \in OpenOf(m) THEN Resolve(i, "actioned", a) ELSE reports[i]]
  /\ closed' = [closed EXCEPT ![m] = Len(reports)]
  /\ UNCHANGED <<flagged, findings, view, gone, credit>>

\* Registry.Release, of a module that the page shows as quarantined.
ReleaseReviewed(a, m) ==
  /\ Reviews /\ a \notin gone /\ m \in view[a].inReview
  /\ quarantinedNow' = quarantinedNow \ {m}
  /\ UNCHANGED <<reports, flagged, findings, view, gone, credit, closed>>

\* The account's row is deleted: ON DELETE SET NULL for what it reported and
\* resolved.
DeleteReporter(u) ==
  /\ u \notin gone
  /\ gone' = gone \cup {u}
  /\ reports' = [i \in ReportIds |->
       [reports[i] EXCEPT !.by = IF @ = u THEN Registry ELSE @, !.resolver = IF @ = u THEN Registry ELSE @]]
  /\ UNCHANGED <<quarantinedNow, flagged, findings, view, credit, closed, reviews>>

-----------------------------------------------------------------------------
ModerationInit ==
  /\ reports = <<>> /\ quarantinedNow = {} /\ flagged = <<>> /\ findings = {}
  /\ view = [a \in Admin |-> [reports |-> {}, inReview |-> {}]]
  /\ gone = {} /\ reviews = 0
  /\ credit = [i \in 1..MaxReports |-> {}]
  /\ closed = [m \in Shelf |-> 0]

ModerationNext ==
  \/ \E u \in Reporter, m \in Shelf : FileReport(u, m)
  \/ \E m \in Shelf : CommitFlagged(m)
  \/ \E v \in DOMAIN flagged : RecordFindings(v) \/ FindingsFail(v)
  \/ \E a \in Admin : OpenQueue(a)
  \/ \E a \in Admin, i \in ReportIds, told \in BOOLEAN : DismissReport(a, i, told)
  \/ \E a \in Admin, m \in Shelf : QuarantineReported(a, m) \/ ReleaseReviewed(a, m)
  \/ \E u \in Reporter \cup Admin : DeleteReporter(u)

ModerationSpec == ModerationInit /\ [][ModerationNext]_moderationVars

-----------------------------------------------------------------------------
Report == [module : Shelf, by : Reporter \cup {Registry}, version : 0..Len(flagged),
           status : {"open", "dismissed", "actioned"}, resolver : Admin \cup {Registry}]

ModerationTypeOK ==
  /\ reports \in Seq(Report) /\ Len(reports) <= MaxReports
  /\ flagged \in Seq([module : Shelf, at : {"committed", "answered"}])
  /\ quarantinedNow \subseteq Shelf
  /\ findings \subseteq DOMAIN flagged
  /\ \A a \in Admin : view[a].reports \subseteq ReportIds /\ view[a].inReview \subseteq Shelf
  /\ credit \in [1..MaxReports -> SUBSET Admin]
  /\ closed \in [Shelf -> 0..Len(reports)]

ResolvedOnce(i) ==
  /\ Cardinality(credit[i]) <= 1
  /\ credit[i] = {} \/ reports[i].status = "dismissed"
  /\ ~IsOpen(i) \/ i > closed[reports[i].module]

RecordedTogether(v) ==
  Cardinality({i \in ReportIds : reports[i].version = v}) = (IF v \in findings THEN 1 ELSE 0)

StaysResolved(i) ==
  ~IsOpen(i) => reports'[i].status = reports[i].status /\ reports'[i].resolver \in {reports[i].resolver, Registry}

\* Whoever of the administrators is told to have dismissed a report is the
\* only one, and it is dismissed and not actioned; a quarantine answers all
\* reports there were of the module; and what the checks found of a version
\* is recorded with the one report about it, or not at all.  A report that is
\* closed stays as it was closed: no later decision about its module, and
\* none taken from an older page, is written over it.
DecisionsAreKept ==
  /\ [](\A i \in ReportIds : ResolvedOnce(i))
  /\ [](\A v \in DOMAIN flagged : RecordedTogether(v))
  /\ [][\A i \in ReportIds : StaysResolved(i)]_moderationVars

\* The queue says of a report without a reporter that the checks filed it;
\* it may be of a user whose account is deleted.
AutomatedReportsAreTheChecks ==
  \A i \in ReportIds : reports[i].by = Registry => reports[i].version \in findings
=============================================================================

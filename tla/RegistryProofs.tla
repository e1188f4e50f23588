--------------------------- MODULE RegistryProofs ---------------------------
(***************************************************************************)
(* What modules Moderation and Catalog promise, for any number of modules, *)
(* reporters and administrators at work at the same time: what was decided *)
(* about a report is decided once and stays, and the findings of the       *)
(* checks and their report are recorded together; the requirements of a    *)
(* version are all recorded when it counts as indexed, however filling     *)
(* them in stopped; the lists agree with each other and leave nothing out. *)
(* And the types of all that the registry keeps of modules and versions.   *)
(***************************************************************************)
EXTENDS PublishingProofs, Sums, FiniteSetTheorems, SequenceTheorems

-----------------------------------------------------------------------------
(* Reports and reviews.                                                    *)

\* Who is told to have dismissed a report, and what a quarantine has closed.
Decided(i) ==
  /\ credit[i] # {} => reports[i].status = "dismissed" /\ \E a \in Admin : credit[i] = {a}
  /\ IsOpen(i) => i > closed[reports[i].module]
NotYetDecided == \A i \in 1..MaxReports : i \notin ReportIds => credit[i] = {}

\* The findings of a version are recorded while it is being published, with
\* one report.
Reported(v) == {i \in ReportIds : reports[i].version = v}
Recorded(v) ==
  /\ flagged[v].at = "committed" => v \notin findings
  /\ v \notin findings => Reported(v) = {}
  /\ v \in findings => \E i \in ReportIds : Reported(v) = {i}

ModerationInv ==
  /\ ModerationTypeOK
  /\ \A i \in ReportIds : Decided(i)
  /\ NotYetDecided
  /\ \A v \in DOMAIN flagged : Recorded(v)

\* A function from 1 to n is a sequence.
LEMMA FunctionsAreSequences ==
  ASSUME NEW S, NEW n \in Nat, NEW f \in [1..n -> S]
  PROVE  f \in Seq(S)
  OBVIOUS

FlaggedVersion == [module : Shelf, at : {"committed", "answered"}]

\* What is in the two tables.
LEMMA Rows ==
  ASSUME ModerationTypeOK
  PROVE  /\ ReportIds = 1..Len(reports) /\ Len(reports) \in Nat /\ Len(reports) <= MaxReports
         /\ \A i \in ReportIds : reports[i] \in Report
         /\ DOMAIN flagged = 1..Len(flagged) /\ Len(flagged) \in Nat
         /\ \A v \in DOMAIN flagged : flagged[v] \in FlaggedVersion
  <1>1. reports \in Seq(Report) /\ flagged \in Seq(FlaggedVersion) /\ Len(reports) <= MaxReports
    BY DEF ModerationTypeOK, FlaggedVersion
  <1>2. ReportIds = 1..Len(reports) /\ Len(reports) \in Nat /\ DOMAIN flagged = 1..Len(flagged) /\ Len(flagged) \in Nat
    BY <1>1 DEF ReportIds
  <1> QED
    BY <1>1, <1>2, ElementOfSeq

DecidedOnce == \A i \in ReportIds : ResolvedOnce(i)
AllRecordedTogether == \A v \in DOMAIN flagged : RecordedTogether(v)

\* It is what the review queue relies on.
LEMMA DecidedIsResolvedOnce == ModerationInv => DecidedOnce /\ AllRecordedTogether
  <1> SUFFICES ASSUME ModerationInv PROVE DecidedOnce /\ AllRecordedTogether
    OBVIOUS
  <1> USE ModerationConstants DEF ModerationInv
  <1>1. ASSUME NEW i \in ReportIds PROVE ResolvedOnce(i)
    <2>1. Decided(i)
      OBVIOUS
    <2>2. Cardinality(credit[i]) <= 1
      <3>1. Cardinality({}) = 0
        BY FS_EmptySet
      <3>2. \A a \in Admin : Cardinality({a}) = 1
        BY FS_Singleton
      <3> QED
        BY <2>1, <3>1, <3>2 DEF Decided
    <2> QED
      BY <2>1, <2>2, Zenon DEF Decided, ResolvedOnce
  <1>2. ASSUME NEW v \in DOMAIN flagged PROVE RecordedTogether(v)
    <2>1. Recorded(v)
      OBVIOUS
    <2>2. CASE v \in findings
      <3>1. PICK i \in ReportIds : Reported(v) = {i}
        BY <2>1, <2>2 DEF Recorded
      <3>2. Cardinality({i}) = 1
        BY FS_Singleton
      <3>3. Cardinality(Reported(v)) = 1
        BY <3>1, <3>2
      <3> QED
        BY <2>2, <3>3, Zenon DEF RecordedTogether, Reported
    <2>3. CASE v \notin findings
      <3>1. Reported(v) = {}
        BY <2>1, <2>3 DEF Recorded
      <3>2. Cardinality({}) = 0
        BY FS_EmptySet
      <3>3. Cardinality(Reported(v)) = 0
        BY <3>1, <3>2
      <3> QED
        BY <2>3, <3>3, Zenon DEF RecordedTogether, Reported
    <2> QED
      BY <2>2, <2>3
  <1> QED
    BY <1>1, <1>2 DEF DecidedOnce, AllRecordedTogether

\* It holds at first.
LEMMA ModerationInitially == ModerationInit => ModerationInv
  BY ModerationConstants
     DEF ModerationInit, ModerationInv, ModerationTypeOK, NotYetDecided, ReportIds, Report

\* A step adds report n, on version v, open, and later than what was closed.
AddsReport(n, v) ==
  /\ reports' \in Seq(Report)' /\ Len(reports') <= MaxReports
  /\ ReportIds' = ReportIds \cup {n} /\ n \notin ReportIds
  /\ \A i \in ReportIds : reports'[i] = reports[i]
  /\ reports'[n].version = v
  /\ closed' \in [Shelf -> 0..Len(reports')]
  /\ (\A i \in ReportIds : Decided(i))' /\ NotYetDecided'

\* What a report that is filed does.
LEMMA NewReports ==
  ASSUME ModerationInv, Len(reports) < MaxReports,
         NEW m \in Shelf, NEW by \in Reporter \cup {Registry}, NEW v \in 0..Len(flagged),
         NEW n \in Nat, n = Len(reports) + 1,
         reports' = Append(reports, NewReport(m, by, v)),
         UNCHANGED <<credit, closed>>, Len(flagged') = Len(flagged)
  PROVE  AddsReport(n, v)
  <1> USE ModerationConstants DEF ModerationInv, ModerationTypeOK
  <1> DEFINE new == NewReport(m, by, v)
  <1>1. /\ Len(reports) \in Nat /\ n \in 1..MaxReports
        /\ Len(reports') = n /\ reports'[n] = new /\ \A i \in 1..Len(reports) : reports'[i] = reports[i]
    OBVIOUS
  <1>2. new \in Report'
    BY DEF NewReport, Report
  <1>3. Report' = Report
    BY DEF Report
  <1>4. reports' \in Seq(Report)'
    BY <1>2, <1>3
  <1>5. ReportIds = 1..Len(reports) /\ ReportIds' = 1..n
    BY <1>1, <1>4 DEF ReportIds
  <1>6. new.status = "open" /\ new.module = m /\ new.version = v
    BY DEF NewReport
  <1> HIDE DEF new
  <1>7. Decided(n)'
    <2>1. credit[n] = {} /\ closed[m] <= Len(reports)
      BY <1>1, <1>5 DEF NotYetDecided
    <2> QED
      BY <1>1, <1>6, <2>1 DEF Decided, IsOpen
  <1>8. \A i \in ReportIds : Decided(i)'
    BY <1>1, <1>5 DEF Decided, IsOpen
  <1>9. (\A i \in ReportIds : Decided(i))'
    <2>1. ReportIds' = ReportIds \cup {n}
      <3>1. Len(reports) \in Nat /\ n = Len(reports) + 1
        BY <1>1
      <3>2. 1..n = (1..Len(reports)) \cup {n}
        BY <3>1
      <3> QED
        BY <1>5, <3>2
    <2>2. ASSUME NEW i \in ReportIds' PROVE Decided(i)'
      <3>1. CASE i = n
        BY <1>7, <3>1
      <3>2. CASE i # n
        BY <1>8, <2>1, <3>2
      <3> QED
        BY <3>1, <3>2
    <2> QED
      BY <2>2
  <1>10. NotYetDecided'
    <2>1. ReportIds' = ReportIds \cup {n} /\ credit' = credit
      BY <1>1, <1>5
    <2>2. NotYetDecided
      OBVIOUS
    <2> QED
      BY <2>1, <2>2 DEF NotYetDecided
  <1>11. closed' \in [Shelf -> 0..Len(reports')]
    BY <1>1
  <1> QED
    BY <1>1, <1>4, <1>5, <1>6, <1>9, <1>10, <1>11 DEF AddsReport

\* Reports that only change their status, and one that is dismissed may be
\* put to somebody's credit.
LEMMA ChangedReports ==
  ASSUME ModerationInv,
         reports' \in Seq(Report), DOMAIN reports' = DOMAIN reports,
         \A i \in ReportIds : reports'[i].module = reports[i].module /\ reports'[i].version = reports[i].version,
         UNCHANGED <<flagged, findings>>
  PROVE  /\ reports' \in Seq(Report)' /\ ReportIds' = ReportIds /\ Len(reports') = Len(reports)
         /\ (\A v \in DOMAIN flagged : Recorded(v))'
  <1> USE DEF ModerationInv, ModerationTypeOK
  <1>1. Report' = Report
    BY DEF Report
  <1>2. ReportIds' = ReportIds /\ Len(reports') = Len(reports)
    BY DEF ReportIds
  <1>3. \A v \in DOMAIN flagged : Reported(v)' = Reported(v)
    BY <1>2 DEF Reported
  <1> QED
    BY <1>1, <1>2, <1>3 DEF Recorded

\* Nothing is decided and nothing recorded.
LEMMA TablesUnchanged ==
  ASSUME ModerationInv, UNCHANGED <<reports, flagged, findings, credit, closed>>,
         quarantinedNow' \subseteq Shelf,
         \A a \in Admin : view'[a].reports \subseteq ReportIds /\ view'[a].inReview \subseteq Shelf
  PROVE  ModerationInv'
  <1> USE DEF ModerationInv
  <1>1. Report' = Report /\ ReportIds' = ReportIds
    BY DEF Report, ReportIds
  <1>2. ModerationTypeOK'
    BY <1>1 DEF ModerationTypeOK
  <1>3. (\A i \in ReportIds : Decided(i))' /\ NotYetDecided'
    BY <1>1 DEF Decided, NotYetDecided, IsOpen
  <1>4. (\A v \in DOMAIN flagged : Recorded(v))'
    BY <1>1 DEF Recorded, Reported
  <1> QED
    BY <1>2, <1>3, <1>4

\* A version whose upload is answered.
LEMMA AnsweredFlagged ==
  ASSUME ModerationTypeOK, NEW w \in DOMAIN flagged, flagged' = [flagged EXCEPT ![w].at = "answered"]
  PROVE  /\ Len(flagged') = Len(flagged) /\ DOMAIN flagged' = DOMAIN flagged
         /\ flagged' \in Seq(FlaggedVersion)
         /\ flagged'[w].at = "answered" /\ \A v \in DOMAIN flagged : v # w => flagged'[v] = flagged[v]
  <1> DEFINE f == [flagged[w] EXCEPT !.at = "answered"]
  <1>1. flagged \in Seq(FlaggedVersion) /\ w \in 1..Len(flagged) /\ flagged[w] \in FlaggedVersion
    BY Rows DEF ModerationTypeOK, FlaggedVersion
  <1>2. f \in FlaggedVersion /\ f.at = "answered"
    BY <1>1 DEF FlaggedVersion
  <1>3. flagged' = [flagged EXCEPT ![w] = f]
    OBVIOUS
  <1> HIDE DEF f
  <1>4. /\ flagged' \in Seq(FlaggedVersion) /\ Len(flagged') = Len(flagged)
        /\ \A v \in 1..Len(flagged) : flagged'[v] = IF v = w THEN f ELSE flagged[v]
    BY <1>1, <1>2, <1>3, ExceptSeq
  <1>5. DOMAIN flagged' = 1..Len(flagged) /\ DOMAIN flagged = 1..Len(flagged)
    BY <1>1, <1>4
  <1> QED
    BY <1>1, <1>2, <1>4, <1>5

\* Every step keeps it.
LEMMA ModerationStep == ModerationInv /\ [ModerationNext]_moderationVars => ModerationInv'
  <1> SUFFICES ASSUME ModerationInv, [ModerationNext]_moderationVars PROVE ModerationInv'
    OBVIOUS
  <1> USE ModerationConstants DEF ModerationInv
  <1>1. ASSUME NEW u \in Reporter, NEW m \in Shelf, FileReport(u, m) PROVE ModerationInv'
    <2> HIDE DEF ModerationInv
    <2>a. /\ Len(reports) < MaxReports /\ u \in Reporter \cup {Registry}
          /\ reports' = Append(reports, NewReport(m, u, 0))
          /\ UNCHANGED <<credit, closed, flagged, findings>>
      BY <1>1 DEF FileReport
    <2>b. ModerationTypeOK
      BY DEF ModerationInv
    <2>1. 0 \in 0..Len(flagged) /\ Len(flagged') = Len(flagged) /\ \A v \in DOMAIN flagged : v # 0
      BY <2>a, <2>b, Rows
    <2>2. PICK n \in Nat : n = Len(reports) + 1
      BY <2>b, Rows
    <2>c. AddsReport(n, 0)
      BY <2>1, <2>2, <2>a, NewReports
    <2>3. /\ reports' \in Seq(Report)' /\ Len(reports') <= MaxReports
          /\ ReportIds' = ReportIds \cup {n} /\ n \notin ReportIds
          /\ \A i \in ReportIds : reports'[i] = reports[i]
          /\ reports'[n].version = 0
          /\ closed' \in [Shelf -> 0..Len(reports')]
          /\ (\A i \in ReportIds : Decided(i))' /\ NotYetDecided'
      BY <2>c DEF AddsReport
    <2>4. ModerationTypeOK'
      BY <1>1, <2>3, <2>b DEF ModerationTypeOK, FileReport
    <2>5. \A v \in DOMAIN flagged : Reported(v)' = Reported(v)
      BY <2>1, <2>3 DEF Reported
    <2>6. (\A v \in DOMAIN flagged : Recorded(v))'
      <3>1. \A v \in DOMAIN flagged : Recorded(v)
        BY DEF ModerationInv
      <3>2. flagged' = flagged /\ findings' = findings
        BY <2>a
      <3>3. ASSUME NEW v \in DOMAIN flagged PROVE Recorded(v)'
        BY <2>3, <2>5, <3>1, <3>2 DEF Recorded
      <3> QED
        BY <3>2, <3>3
    <2> QED
      BY <2>3, <2>4, <2>6 DEF ModerationInv
  <1>2. ASSUME NEW m \in Shelf, CommitFlagged(m) PROVE ModerationInv'
    <2> USE <1>2 DEF CommitFlagged
    <2>1. PICK w \in Nat : w = Len(flagged) + 1
      BY DEF ModerationTypeOK
    <2>2. /\ flagged' \in Seq(FlaggedVersion)
          /\ Len(flagged') = w /\ flagged'[w].at = "committed"
          /\ \A v \in DOMAIN flagged : flagged'[v] = flagged[v]
          /\ DOMAIN flagged' = DOMAIN flagged \cup {w} /\ w \notin DOMAIN flagged
      BY <2>1 DEF ModerationTypeOK, FlaggedVersion
    <2>3. Report \subseteq Report'
      BY <2>1, <2>2 DEF Report
    <2>4. ModerationTypeOK'
      BY <2>2, <2>3 DEF ModerationTypeOK, ReportIds
    <2>5. (\A i \in ReportIds : Decided(i))' /\ NotYetDecided'
      BY DEF Decided, NotYetDecided, ReportIds, IsOpen
    <2>6. \A v : Reported(v)' = Reported(v)
      BY DEF Reported, ReportIds
    <2>7. Reported(w) = {} /\ w \notin findings
      <3>1. \A i \in ReportIds : reports[i].version \in 0..Len(flagged)
        BY Rows DEF Report
      <3> QED
        BY <2>1, <2>2, <3>1 DEF Reported, ModerationTypeOK
    <2>8. (\A v \in DOMAIN flagged : Recorded(v))'
      BY <2>2, <2>6, <2>7 DEF Recorded, ReportIds
    <2> QED
      BY <2>4, <2>5, <2>8
  <1>3. ASSUME NEW w \in DOMAIN flagged, RecordFindings(w) PROVE ModerationInv'
    <2> HIDE DEF ModerationInv
    <2>a. /\ Len(reports) < MaxReports /\ Registry \in Reporter \cup {Registry}
          /\ reports' = Append(reports, NewReport(flagged[w].module, Registry, w))
          /\ UNCHANGED <<credit, closed>>
          /\ flagged' = [flagged EXCEPT ![w].at = "answered"] /\ flagged[w].at = "committed"
      BY <1>3 DEF RecordFindings
    <2>b. ModerationTypeOK
      BY DEF ModerationInv
    <2>1. /\ Len(flagged') = Len(flagged) /\ DOMAIN flagged' = DOMAIN flagged
          /\ flagged' \in Seq(FlaggedVersion)
          /\ flagged'[w].at = "answered" /\ \A v \in DOMAIN flagged : v # w => flagged'[v] = flagged[v]
      BY <2>a, <2>b, AnsweredFlagged
    <2>m. PICK m \in Shelf : m = flagged[w].module
      BY <2>b, Rows DEF FlaggedVersion
    <2>w. w \in 0..Len(flagged)
      BY <2>b, Rows
    <2>2. PICK n \in Nat : n = Len(reports) + 1
      BY <2>b, Rows
    <2>c. reports' = Append(reports, NewReport(m, Registry, w))
      BY <2>a, <2>m
    <2>d. AddsReport(n, w)
      BY <2>1, <2>2, <2>a, <2>c, <2>w, NewReports
    <2>3. /\ reports' \in Seq(Report)' /\ Len(reports') <= MaxReports
          /\ ReportIds' = ReportIds \cup {n} /\ n \notin ReportIds
          /\ \A i \in ReportIds : reports'[i] = reports[i]
          /\ reports'[n].version = w
          /\ closed' \in [Shelf -> 0..Len(reports')]
          /\ (\A i \in ReportIds : Decided(i))' /\ NotYetDecided'
      BY <2>d DEF AddsReport
    <2>4. ModerationTypeOK'
      BY <1>3, <2>1, <2>3, <2>b DEF ModerationTypeOK, FlaggedVersion, RecordFindings
    <2>5. \A v \in DOMAIN flagged : v # w => Reported(v)' = Reported(v)
      <3>1. \A v \in DOMAIN flagged, i \in ReportIds' : v # w /\ reports'[i].version = v
              => i \in ReportIds /\ reports[i].version = v
        BY <2>3
      <3>2. \A v \in DOMAIN flagged, i \in ReportIds : reports[i].version = v => i \in ReportIds' /\ reports'[i].version = v
        BY <2>3
      <3> QED
        BY <3>1, <3>2 DEF Reported
    <2>6. w \notin findings /\ Reported(w) = {} /\ \A v \in DOMAIN flagged : Recorded(v)
      BY <2>a DEF ModerationInv, Recorded
    <2>7. Reported(w)' = {n}
      BY <2>3, <2>6 DEF Reported
    <2>8. (\A v \in DOMAIN flagged : Recorded(v))'
      <3>1. findings' = findings \cup {w}
        BY <1>3 DEF RecordFindings
      <3>2. Recorded(w)'
        BY <2>1, <2>3, <2>7, <3>1 DEF Recorded
      <3>3. ASSUME NEW v \in DOMAIN flagged, v # w PROVE Recorded(v)'
        BY <2>1, <2>3, <2>5, <2>6, <3>1, <3>3 DEF Recorded
      <3> QED
        BY <2>1, <3>2, <3>3
    <2> QED
      BY <2>3, <2>4, <2>8 DEF ModerationInv
  <1>4. ASSUME NEW w \in DOMAIN flagged, FindingsFail(w) PROVE ModerationInv'
    <2> USE <1>4 DEF FindingsFail
    <2>1. /\ Len(flagged') = Len(flagged) /\ DOMAIN flagged' = DOMAIN flagged
          /\ flagged' \in Seq(FlaggedVersion)
          /\ flagged'[w].at = "answered" /\ \A v \in DOMAIN flagged : v # w => flagged'[v] = flagged[v]
      BY AnsweredFlagged DEF ModerationInv
    <2>2. Report' = Report /\ ReportIds' = ReportIds
      BY <2>1 DEF Report, ReportIds
    <2>3. ModerationTypeOK'
      BY <2>1, <2>2 DEF ModerationTypeOK, FlaggedVersion
    <2>4. (\A i \in ReportIds : Decided(i))' /\ NotYetDecided'
      BY DEF Decided, NotYetDecided, ReportIds, IsOpen
    <2>5. (\A v \in DOMAIN flagged : Recorded(v))'
      BY <2>1 DEF Recorded, Reported, ReportIds
    <2> QED
      BY <2>3, <2>4, <2>5
  <1>5. ASSUME NEW a \in Admin, OpenQueue(a) PROVE ModerationInv'
    BY <1>5, TablesUnchanged DEF OpenQueue, ModerationTypeOK
  <1>6. ASSUME NEW a \in Admin, NEW i \in ReportIds, NEW told \in BOOLEAN, DismissReport(a, i, told)
        PROVE  ModerationInv'
    <2> USE <1>6 DEF DismissReport
    <2>1. CASE ~IsOpen(i)
      BY <2>1, TablesUnchanged DEF ModerationTypeOK
    <2>2. CASE IsOpen(i)
      <3> DEFINE r == Resolve(i, "dismissed", a)
      <3>1. reports[i] \in Report /\ i \in 1..Len(reports) /\ i \in 1..MaxReports
        BY Rows
      <3>2. r \in Report /\ r.status = "dismissed" /\ r.module = reports[i].module /\ r.version = reports[i].version
        BY <3>1 DEF Resolve, Report
      <3>3. reports' = [reports EXCEPT ![i] = r]
        BY <2>2
      <3> HIDE DEF r
      <3>4. /\ reports' \in Seq(Report) /\ Len(reports') = Len(reports)
            /\ \A j \in 1..Len(reports) : reports'[j] = IF j = i THEN r ELSE reports[j]
        BY <3>1, <3>2, <3>3, ExceptSeq DEF ModerationTypeOK
      <3>5. ReportIds = 1..Len(reports) /\ DOMAIN reports' = 1..Len(reports)
        BY <3>4 DEF ModerationTypeOK, ReportIds
      <3>6. /\ reports' \in Seq(Report)' /\ ReportIds' = ReportIds /\ Len(reports') = Len(reports)
            /\ (\A v \in DOMAIN flagged : Recorded(v))'
        BY <3>2, <3>4, <3>5, ChangedReports DEF ReportIds
      <3>7. credit[i] = {}
        BY <2>2 DEF Decided, IsOpen
      <3>8. credit' = credit \/ credit' = [credit EXCEPT ![i] = {a}]
        BY <2>2, <3>7
      <3>9. ModerationTypeOK'
        BY <3>6, <3>8 DEF ModerationTypeOK
      <3>c. /\ credit'[i] = {} \/ credit'[i] = {a}
            /\ \A j \in 1..MaxReports : j # i => credit'[j] = credit[j]
        BY <3>1, <3>7, <3>8 DEF ModerationTypeOK
      <3>10. \A j \in ReportIds : Decided(j)'
        <4>1. Decided(i)'
          BY <3>1, <3>2, <3>4, <3>c DEF Decided, IsOpen
        <4>2. \A j \in ReportIds : j # i => Decided(j)'
          BY <3>4, <3>5, <3>c, Rows DEF Decided, IsOpen
        <4> QED
          BY <4>1, <4>2
      <3>11. NotYetDecided'
        BY <3>6, <3>c DEF NotYetDecided
      <3> QED
        BY <3>6, <3>9, <3>10, <3>11
    <2> QED
      BY <2>1, <2>2
  <1>7. ASSUME NEW a \in Admin, NEW m \in Shelf, QuarantineReported(a, m) PROVE ModerationInv'
    <2> USE <1>7 DEF QuarantineReported
    <2>1. \A i \in ReportIds : LET r == Resolve(i, "actioned", a) IN
             r \in Report /\ r.status = "actioned" /\ r.module = reports[i].module /\ r.version = reports[i].version
      BY Rows DEF Report, Resolve
    <2>2. /\ reports' \in Seq(Report) /\ Len(reports') = Len(reports) /\ DOMAIN reports' = DOMAIN reports
          /\ \A i \in ReportIds :
               /\ reports'[i].module = reports[i].module /\ reports'[i].version = reports[i].version
               /\ i \in OpenOf(m) => reports'[i].status = "actioned"
               /\ i \notin OpenOf(m) => reports'[i] = reports[i]
      <3>1. ReportIds = 1..Len(reports) /\ Len(reports) \in Nat /\ \A i \in ReportIds : reports[i] \in Report
        BY Rows
      <3>2. \A i \in ReportIds : reports'[i] = IF i \in OpenOf(m) THEN Resolve(i, "actioned", a) ELSE reports[i]
        OBVIOUS
      <3>3. reports' \in [1..Len(reports) -> Report]
        BY <2>1, <3>1
      <3>4. reports' \in Seq(Report) /\ Len(reports') = Len(reports) /\ DOMAIN reports' = DOMAIN reports
        BY <3>1, <3>3 DEF ModerationTypeOK
      <3> QED
        BY <2>1, <3>2, <3>4
    <2>3. /\ reports' \in Seq(Report)' /\ ReportIds' = ReportIds /\ Len(reports') = Len(reports)
          /\ (\A v \in DOMAIN flagged : Recorded(v))'
      BY <2>2, ChangedReports
    <2>4. closed' \in [Shelf -> 0..Len(reports')]
      <3>1. closed \in [Shelf -> 0..Len(reports)] /\ closed' = [closed EXCEPT ![m] = Len(reports)]
        BY DEF ModerationTypeOK
      <3>2. Len(reports) \in 0..Len(reports) /\ Len(reports') = Len(reports)
        BY <2>3, Rows
      <3> QED
        BY <3>1, <3>2
    <2>5. ModerationTypeOK'
      BY <2>3, <2>4 DEF ModerationTypeOK
    <2>6. \A i \in ReportIds : Decided(i)'
      <3> SUFFICES ASSUME NEW i \in ReportIds PROVE Decided(i)'
        OBVIOUS
      <3>1. Decided(i) /\ reports[i].module \in Shelf
        BY Rows DEF Report
      <3>2. CASE i \in OpenOf(m)
        BY <2>2, <3>1, <3>2 DEF Decided, IsOpen, OpenOf
      <3>3. CASE i \notin OpenOf(m)
        BY <2>2, <3>1, <3>3 DEF Decided, IsOpen, OpenOf, ModerationTypeOK
      <3> QED
        BY <3>2, <3>3
    <2>7. NotYetDecided'
      BY <2>3 DEF NotYetDecided
    <2> QED
      BY <2>3, <2>5, <2>6, <2>7
  <1>8. ASSUME NEW a \in Admin, NEW m \in Shelf, ReleaseReviewed(a, m) PROVE ModerationInv'
    BY <1>8, TablesUnchanged DEF ReleaseReviewed, ModerationTypeOK
  <1>9. ASSUME NEW u \in Reporter \cup Admin, DeleteReporter(u) PROVE ModerationInv'
    <2> USE <1>9 DEF DeleteReporter
    <2>1. ReportIds = 1..Len(reports) /\ Len(reports) \in Nat /\ \A i \in ReportIds : reports[i] \in Report
      BY Rows
    <2>2. \A i \in ReportIds :
            /\ reports'[i] \in Report /\ reports'[i].module = reports[i].module
            /\ reports'[i].version = reports[i].version /\ reports'[i].status = reports[i].status
      <3> DEFINE by(i) == IF reports[i].by = u THEN Registry ELSE reports[i].by
                 resolver(i) == IF reports[i].resolver = u THEN Registry ELSE reports[i].resolver
      <3>1. ASSUME NEW i \in ReportIds
            PROVE  reports'[i] = [reports[i] EXCEPT !.by = by(i), !.resolver = resolver(i)]
        BY <2>1 DEF Report
      <3>2. \A i \in ReportIds : by(i) \in Reporter \cup {Registry} /\ resolver(i) \in Admin \cup {Registry}
        BY <2>1 DEF Report
      <3> HIDE DEF by, resolver
      <3>3. ASSUME NEW i \in ReportIds
            PROVE  /\ reports'[i].module = reports[i].module /\ reports'[i].version = reports[i].version
                   /\ reports'[i].status = reports[i].status
        <4> HIDE DEF ModerationInv, DeleteReporter
        <4>1. reports[i] \in Report
          BY <2>1
        <4> QED
          BY <3>1, <4>1 DEF Report
      <3>4. ASSUME NEW i \in ReportIds PROVE reports'[i] \in Report
        <4>1. reports[i] \in Report
          BY <2>1
        <4> QED
          BY <3>1, <3>2, <4>1 DEF Report
      <3> QED
        BY <3>3, <3>4
    <2>3. reports' \in [1..Len(reports) -> Report]
      BY <2>1, <2>2
    <2>4. reports' \in Seq(Report) /\ DOMAIN reports' = DOMAIN reports
      <3>1. reports' \in Seq(Report)
        BY <2>1, <2>3, FunctionsAreSequences
      <3> QED
        BY <2>1, <2>3, <3>1 DEF ReportIds
    <2>5. /\ reports' \in Seq(Report)' /\ ReportIds' = ReportIds /\ Len(reports') = Len(reports)
          /\ (\A v \in DOMAIN flagged : Recorded(v))'
      BY <2>2, <2>4, ChangedReports
    <2>6. ModerationTypeOK'
      <3>1. ModerationTypeOK
        OBVIOUS
      <3>2. UNCHANGED <<quarantinedNow, flagged, findings, view, credit, closed>>
        OBVIOUS
      <3> HIDE DEF ModerationInv, DeleteReporter
      <3> QED
        BY <2>5, <3>1, <3>2 DEF ModerationTypeOK
    <2>7. (\A i \in ReportIds : Decided(i))' /\ NotYetDecided'
      <3>1. UNCHANGED <<credit, closed>> /\ ReportIds' = ReportIds /\ NotYetDecided /\ \A i \in ReportIds : Decided(i)
        BY <2>5
      <3> HIDE DEF ModerationInv, DeleteReporter
      <3>2. \A i \in ReportIds : Decided(i)'
        BY <2>2, <3>1 DEF Decided, IsOpen
      <3> QED
        BY <3>1, <3>2 DEF NotYetDecided
    <2> QED
      BY <2>5, <2>6, <2>7
  <1>10. CASE UNCHANGED moderationVars
    BY <1>10, TablesUnchanged DEF moderationVars, ModerationTypeOK
  <1> QED
    BY <1>1, <1>2, <1>3, <1>4, <1>5, <1>6, <1>7, <1>8, <1>9, <1>10 DEF ModerationNext

\* No step changes how a report was closed; one whose administrator's
\* account is deleted only forgets who closed it.
LEMMA ClosedStayClosed ==
  ModerationInv /\ [ModerationNext]_moderationVars => \A i \in ReportIds : StaysResolved(i)
  <1> SUFFICES ASSUME ModerationInv, [ModerationNext]_moderationVars, NEW i \in ReportIds, ~IsOpen(i)
               PROVE  reports'[i].status = reports[i].status /\ reports'[i].resolver \in {reports[i].resolver, Registry}
    BY DEF StaysResolved
  <1> USE DEF ModerationInv, IsOpen
  <1>2. ASSUME NEW by, NEW m, NEW v, reports' = Append(reports, NewReport(m, by, v))
        PROVE  reports'[i] = reports[i]
    BY <1>2, Rows DEF ModerationTypeOK
  <1>3. ASSUME NEW u \in Reporter, NEW m \in Shelf, FileReport(u, m) PROVE reports'[i] = reports[i]
    BY <1>3, <1>2 DEF FileReport
  <1>4. ASSUME NEW w \in DOMAIN flagged, RecordFindings(w) PROVE reports'[i] = reports[i]
    BY <1>4, <1>2 DEF RecordFindings
  <1>5. ASSUME NEW a \in Admin, NEW j \in ReportIds, NEW told \in BOOLEAN, DismissReport(a, j, told)
        PROVE  reports'[i] = reports[i]
    <2>1. CASE reports[j].status = "open"
      <3>1. j # i /\ reports' = [reports EXCEPT ![j] = Resolve(j, "dismissed", a)]
        BY <1>5, <2>1 DEF DismissReport
      <3> QED
        BY <3>1 DEF ReportIds
    <2>2. CASE reports[j].status # "open"
      BY <1>5, <2>2 DEF DismissReport
    <2> QED
      BY <2>1, <2>2
  <1>6. ASSUME NEW a \in Admin, NEW m \in Shelf, QuarantineReported(a, m) PROVE reports'[i] = reports[i]
    BY <1>6 DEF QuarantineReported, OpenOf
  <1>7. ASSUME NEW u \in Reporter \cup Admin, DeleteReporter(u)
        PROVE  reports'[i].status = reports[i].status /\ reports'[i].resolver \in {reports[i].resolver, Registry}
    BY <1>7, Rows DEF DeleteReporter, Report
  <1>8. CASE UNCHANGED reports
    BY <1>8
  <1> QED
    BY <1>3, <1>4, <1>5, <1>6, <1>7, <1>8
       DEF ModerationNext, moderationVars, CommitFlagged, FindingsFail, OpenQueue, ReleaseReviewed

\* DismissReport, Quarantine and recordFindings beside every other step of
\* reporters and administrators: a report is decided once, by the one who is
\* told so; a quarantine answers every report there is; a decision stays; and
\* findings and their report are there together.
THEOREM DecisionsStay == ModerationSpec => DecisionsAreKept
  <1> DEFINE Stay == \A i \in ReportIds : StaysResolved(i)
  <1>1. ModerationInv /\ [ModerationNext]_moderationVars => [Stay]_moderationVars
    BY ClosedStayClosed
  <1>2. ModerationInv => (\A i \in ReportIds : ResolvedOnce(i)) /\ (\A v \in DOMAIN flagged : RecordedTogether(v))
    BY DecidedIsResolvedOnce DEF DecidedOnce, AllRecordedTogether
  <1> QED
    BY ModerationInitially, ModerationStep, <1>1, <1>2, PTL DEF ModerationSpec, DecisionsAreKept

-----------------------------------------------------------------------------
(* Requirements that are filled in.                                        *)

\* The rows of versions, and what must be so of each.
ListedRows == [path : ListedPath, version : Nat, at : Nat, yanked : BOOLEAN,
         needs : GoMods, required : SUBSET Required, indexed : BOOLEAN]

RequiresKept(row) == row.required \subseteq row.needs /\ (row.indexed => row.required = row.needs)

\* All is filled in but for these.
Leaves(todo) == \A i \in Ids : versionRows[i].indexed \/ i \in todo

\* The inductive invariant: what BackfillRequires has not listed as to do is
\* done, also while versions are published, and what is done is whole.
FillingInv ==
  /\ versionRows \in Seq(ListedRows)
  /\ seconds \in Nat
  /\ \A i \in Ids : RequiresKept(versionRows[i])
  /\ filling.pc = "fill" => Leaves(filling.todo)
  /\ filling.pc = "filled" => Leaves({})

\* One row is changed.
LEMMA RowChangesTo ==
  ASSUME versionRows \in Seq(ListedRows), NEW i \in Ids, NEW r \in ListedRows, versionRows' = [versionRows EXCEPT ![i] = r]
  PROVE  /\ versionRows' \in Seq(ListedRows)
         /\ Ids' = Ids
         /\ versionRows'[i] = r
         /\ \A j \in Ids : j # i => versionRows'[j] = versionRows[j]
  BY DEF Ids

\* One row changes, and what is still to do is on the list.
LEMMA RowLeft ==
  ASSUME FillingInv, NEW i \in Ids, NEW r \in ListedRows, RequiresKept(r), UNCHANGED seconds,
         versionRows' = [versionRows EXCEPT ![i] = r],
         filling'.pc = "fill" => Leaves(filling'.todo \cup {i}) /\ (r.indexed \/ Leaves(filling'.todo)),
         filling'.pc = "filled" => Leaves({i}) /\ (r.indexed \/ Leaves({})),
         versionRows[i].indexed => r.indexed
  PROVE  FillingInv'
  <1>1. /\ versionRows' \in Seq(ListedRows)
        /\ Ids' = Ids
        /\ versionRows'[i] = r
        /\ \A j \in Ids : j # i => versionRows'[j] = versionRows[j]
    BY RowChangesTo DEF FillingInv
  <1>2. \A j \in Ids' : RequiresKept(versionRows'[j]) BY <1>1, Zenon DEF FillingInv
  <1>3. ASSUME NEW todo, Leaves(todo \cup {i}), r.indexed \/ Leaves(todo)
       PROVE  \A j \in Ids' : versionRows'[j].indexed \/ j \in todo
    <2> SUFFICES ASSUME NEW j \in Ids, ~(j \in todo) PROVE versionRows'[j].indexed BY <1>1, Zenon
    <2>1. CASE j = i BY <1>1, <1>3, <2>1, Zenon DEF Leaves
    <2>2. CASE j # i
      <3>1. j \notin todo \cup {i} BY <2>2
      <3> QED BY <1>1, <1>3, <2>2, <3>1, Zenon DEF Leaves
    <2> QED BY <2>1, <2>2
  <1>4. filling'.pc = "fill" => \A j \in Ids' : versionRows'[j].indexed \/ j \in filling'.todo BY <1>3
  <1>5. filling'.pc = "filled" => \A j \in Ids' : versionRows'[j].indexed \/ j \in {}
    <2>1. {} \cup {i} = {i} OBVIOUS
    <2> QED BY <1>3, <2>1
  <1> QED BY <1>1, <1>2, <1>4, <1>5, Zenon DEF FillingInv, Leaves

\* No row changes, and the list is right.
LEMMA NoRowChanges ==
  ASSUME FillingInv, UNCHANGED <<versionRows, seconds>>,
         filling'.pc = "fill" => Leaves(filling'.todo), filling'.pc = "filled" => Leaves({})
  PROVE  FillingInv'
  BY DEF FillingInv, Leaves, Ids

\* It holds at first: what is there from before the migration is not indexed.
LEMMA FillingStarts == CatalogInit => FillingInv
  <1> SUFFICES ASSUME CatalogInit PROVE FillingInv OBVIOUS
  <1>1. CASE versionRows = <<>> BY <1>1 DEF CatalogInit, FillingInv, Ids, NotFilling
  <1>2. ASSUME NEW old \in OldRow, versionRows = <<old>> PROVE FillingInv
    <2>1. old \in ListedRows
      <3>1. {1} \subseteq Nat /\ {0} \subseteq Nat /\ {FALSE} \subseteq BOOLEAN /\ {{}} \subseteq SUBSET Required OBVIOUS
      <3> QED BY <3>1, Zenon DEF OldRow, ListedRows
    <2>2. RequiresKept(old) BY DEF OldRow, RequiresKept
    <2>3. versionRows \in Seq(ListedRows) /\ Ids = {1} /\ versionRows[1] = old BY <1>2, <2>1 DEF Ids
    <2>4. seconds = 0 /\ filling = NotFilling BY DEF CatalogInit
    <2>5. \A i \in Ids : RequiresKept(versionRows[i]) BY <2>2, <2>3
    <2>6. ~(filling.pc = "fill") /\ ~(filling.pc = "filled") BY <2>4 DEF NotFilling
    <2> QED BY <2>3, <2>4, <2>5, <2>6, Zenon DEF FillingInv
  <1> QED BY <1>1, <1>2 DEF CatalogInit

\* Every step keeps it.
LEMMA FillingStep ==
  ASSUME FillingInv, [CatalogNext]_catalogVars
  PROVE  FillingInv'
  <1>0. /\ versionRows \in Seq(ListedRows) /\ seconds \in Nat
        /\ \A i \in Ids : versionRows[i] \in ListedRows /\ RequiresKept(versionRows[i])
    BY DEF FillingInv, Ids
  <1>f. ASSUME filling' = filling PROVE /\ filling'.pc = "fill" => Leaves(filling'.todo)
                                        /\ filling'.pc = "filled" => Leaves({})
    BY <1>f DEF FillingInv
  <1>g. \A todo, i : Leaves(todo) => Leaves(todo \cup {i}) BY DEF Leaves
  <1>h. \A i : Leaves({}) => Leaves({i}) BY DEF Leaves
  <1>1. ASSUME NEW p \in ListedPath, NEW needs \in GoMods, PublishRow(p, needs) PROVE FillingInv'
    <2> DEFINE r == [path |-> p, version |-> Len(versionRows) + 1, at |-> seconds, yanked |-> FALSE,
                     needs |-> needs, required |-> needs, indexed |-> TRUE]
    <2>1. r \in ListedRows BY <1>0 DEF ListedRows, Required
    <2>2. RequiresKept(r) /\ r.indexed = TRUE BY DEF RequiresKept
    <2>3. versionRows' = Append(versionRows, r) /\ UNCHANGED <<seconds, filling>> BY <1>1 DEF PublishRow
    <2> HIDE DEF r
    <2>4. /\ versionRows' \in Seq(ListedRows)
          /\ \A i \in Ids' : (i \in Ids /\ versionRows'[i] = versionRows[i]) \/ versionRows'[i] = r
      BY <1>0, <2>1, <2>3 DEF Ids
    <2>5. \A i \in Ids' : RequiresKept(versionRows'[i]) BY <1>0, <2>2, <2>4, Zenon
    <2>6. ASSUME NEW todo, Leaves(todo) PROVE \A i \in Ids' : versionRows'[i].indexed \/ i \in todo
      BY <2>2, <2>4, <2>6, Zenon DEF Leaves
    <2>7. filling.pc = "fill" => \A i \in Ids' : versionRows'[i].indexed \/ i \in filling'.todo
      BY <2>3, <2>6, Zenon DEF FillingInv
    <2>8. filling.pc = "filled" => \A i \in Ids' : versionRows'[i].indexed \/ i \in {}
      <3>1. filling.pc = "filled" => Leaves({}) BY DEF FillingInv
      <3> QED BY <2>6, <3>1
    <2> QED BY <1>0, <2>3, <2>4, <2>5, <2>7, <2>8, Zenon DEF FillingInv, Leaves
  <1>2. ASSUME NEW i \in Ids, NEW yanked \in BOOLEAN, SetYanked(i, yanked) PROVE FillingInv'
    <2> DEFINE r == [versionRows[i] EXCEPT !.yanked = yanked]
    <2>1. versionRows[i] \in ListedRows BY <1>0
    <2>2. r \in ListedRows BY <2>1 DEF ListedRows
    <2>3. r.required = versionRows[i].required /\ r.needs = versionRows[i].needs /\ r.indexed = versionRows[i].indexed
      BY <2>1, Zenon DEF ListedRows
    <2>4. versionRows' = [versionRows EXCEPT ![i] = r] /\ UNCHANGED <<seconds, filling>>
      BY <1>2, <2>1 DEF SetYanked, Changes
    <2> HIDE DEF r
    <2>5. RequiresKept(r) BY <1>0, <2>3, Zenon DEF RequiresKept
    <2>6. versionRows[i].indexed => r.indexed BY <2>3, Zenon
    <2>7. FillingInv /\ UNCHANGED seconds BY <2>4
    <2>8. filling'.pc = "fill" => Leaves(filling'.todo \cup {i}) /\ (r.indexed \/ Leaves(filling'.todo))
      BY <1>f, <1>g, <2>4, Zenon
    <2>9. filling'.pc = "filled" => Leaves({i}) /\ (r.indexed \/ Leaves({}))
      BY <1>f, <1>g, <1>h, <2>4, Zenon
    <2> QED BY <2>2, <2>4, <2>5, <2>6, <2>7, <2>8, <2>9, RowLeft, Zenon
  <1>3. ASSUME NEW p \in ListedPath, SetQuarantined(p) PROVE FillingInv' BY <1>3, <1>f, NoRowChanges DEF SetQuarantined
  <1>4. CASE ClockTicks
    <2>1. UNCHANGED <<versionRows, filling>> /\ seconds' \in Nat BY <1>0, <1>4 DEF ClockTicks
    <2> QED BY <2>1 DEF FillingInv, Leaves, Ids
  <1>5. CASE ListUnindexed
    <2> DEFINE todo == {i \in Ids : ~versionRows[i].indexed}
    <2>1. filling' = GoesOnWith(todo) /\ UNCHANGED <<versionRows, seconds>> BY <1>5 DEF ListUnindexed
    <2>2. Leaves(todo) BY DEF Leaves
    <2>3. CASE todo = {} BY <2>1, <2>2, <2>3, NoRowChanges DEF GoesOnWith, Filled
    <2>4. CASE todo # {} BY <2>1, <2>2, <2>4, NoRowChanges DEF GoesOnWith, Filled
    <2> QED BY <2>3, <2>4
  <1>6. CASE RecordRequire
    <2>1. PICK i : \E p \in versionRows[i].needs \ versionRows[i].required :
            versionRows' = [versionRows EXCEPT ![i].required = @ \cup {p}]
      BY <1>6 DEF RecordRequire
    <2>2. PICK p \in versionRows[i].needs \ versionRows[i].required :
            versionRows' = [versionRows EXCEPT ![i].required = @ \cup {p}]
      BY <2>1
    <2>3. UNCHANGED <<seconds, filling>> BY <1>6 DEF RecordRequire
    <2>4. CASE i \notin Ids
      <3>1. versionRows' = versionRows BY <1>0, <2>2, <2>4 DEF Ids
      <3> QED BY <1>f, <2>3, <3>1, NoRowChanges
    <2>5. CASE i \in Ids
      <3> DEFINE r == [versionRows[i] EXCEPT !.required = @ \cup {p}]
      <3>1. versionRows[i] \in ListedRows /\ RequiresKept(versionRows[i]) BY <1>0, <2>5
      <3>2. versionRows[i].needs \in GoMods /\ versionRows[i].required \subseteq Required BY <3>1 DEF ListedRows
      <3>3. versionRows[i].required \cup {p} \subseteq Required BY <3>2 DEF Required
      <3>4. r \in ListedRows BY <3>1, <3>3 DEF ListedRows
      <3>5. r.required = versionRows[i].required \cup {p} /\ r.needs = versionRows[i].needs
            /\ r.indexed = versionRows[i].indexed
        BY <3>1, Zenon DEF ListedRows
      <3>6. versionRows' = [versionRows EXCEPT ![i] = r] BY <2>2
      <3> HIDE DEF r
      <3>7. ~versionRows[i].indexed BY <3>1, Zenon DEF RequiresKept
      <3>8. r.required \subseteq r.needs BY <3>1, <3>5 DEF RequiresKept
      <3>9. RequiresKept(r) BY <3>5, <3>7, <3>8, Zenon DEF RequiresKept
      <3>10. UNCHANGED seconds BY <2>3
      <3>11. filling'.pc = "fill" => Leaves(filling'.todo \cup {i}) /\ (r.indexed \/ Leaves(filling'.todo))
        BY <1>f, <1>g, <2>3, Zenon
      <3>12. filling'.pc = "filled" => Leaves({i}) /\ (r.indexed \/ Leaves({}))
        BY <1>f, <1>g, <1>h, <2>3, Zenon
      <3> QED BY <2>5, <3>4, <3>6, <3>7, <3>9, <3>10, <3>11, <3>12, RowLeft, Zenon
    <2> QED BY <2>4, <2>5
  <1>7. CASE MarkIndexed
    <2>1. PICK i : /\ versionRows[i].needs = versionRows[i].required
                   /\ versionRows' = [versionRows EXCEPT ![i].indexed = TRUE]
                   /\ filling' = GoesOnWith(filling.todo \ {i})
      BY <1>7 DEF MarkIndexed
    <2>2. UNCHANGED seconds /\ filling.pc = "fill" BY <1>7 DEF MarkIndexed
    <2> DEFINE todo == filling.todo \ {i}
    <2>3. /\ filling'.pc = "fill" => filling'.todo = todo
          /\ filling'.pc = "filled" => todo = {}
      BY <2>1 DEF GoesOnWith, Filled
    <2>4. Leaves(filling.todo) BY <2>2 DEF FillingInv
    <2>5. CASE i \notin Ids
      <3>1. versionRows' = versionRows BY <1>0, <2>1, <2>5 DEF Ids
      <3>2. Leaves(todo) BY <2>4, <2>5 DEF Leaves
      <3> QED BY <2>2, <2>3, <3>1, <3>2, NoRowChanges
    <2>6. CASE i \in Ids
      <3> DEFINE r == [versionRows[i] EXCEPT !.indexed = TRUE]
      <3>1. versionRows[i] \in ListedRows BY <1>0, <2>6
      <3>2. r \in ListedRows BY <3>1 DEF ListedRows
      <3>3. r.required = versionRows[i].required /\ r.needs = versionRows[i].needs /\ r.indexed = TRUE
        BY <3>1, Zenon DEF ListedRows
      <3>4. versionRows' = [versionRows EXCEPT ![i] = r] BY <2>1
      <3> HIDE DEF r
      <3>5. RequiresKept(r) BY <2>1, <3>3, Zenon DEF RequiresKept
      <3>6. Leaves(todo \cup {i}) BY <2>4 DEF Leaves
      <3>7. r.indexed BY <3>3, Zenon
      <3> QED BY <1>h, <2>2, <2>3, <2>6, <3>2, <3>4, <3>5, <3>6, <3>7, RowLeft
    <2> QED BY <2>5, <2>6
  <1>8. CASE FillingEnds BY <1>8, NoRowChanges DEF FillingEnds, NotFilling
  <1>9. CASE UNCHANGED catalogVars BY <1>9, <1>f, NoRowChanges DEF catalogVars
  <1> QED BY <1>1, <1>2, <1>3, <1>4, <1>5, <1>6, <1>7, <1>8, <1>9 DEF CatalogNext

\* A version that counts as indexed has all its requirements recorded, and
\* once filling in ended well the dependents of a module are all there are
\* (registry/dependents.go): for any modules, requirements, stops and failures.
THEOREM UsedByBecomesComplete == CatalogSpec => []UsedByIsComplete
  <1>1. FillingInv => UsedByIsComplete BY DEF FillingInv, Leaves, RequiresKept, UsedByIsComplete, Dependents, Filled
  <1>2. FillingInv /\ [CatalogNext]_catalogVars => FillingInv' BY FillingStep
  <1> QED BY FillingStarts, <1>1, <1>2, PTL DEF CatalogSpec

-----------------------------------------------------------------------------
(* Lists.                                                                  *)

\* Releases are in one order, by when they were published and their ids.
LEMMA NewerOrders ==
  ASSUME versionRows \in Seq(ListedRows), NEW set \in SUBSET Ids
  PROVE  /\ IsFiniteSet(set)
         /\ Orders({ij \in set \X set : Newer(ij[1], ij[2])}, set)
  <1> PICK n : n = Len(versionRows)
    OBVIOUS
  <1>1. n \in Nat /\ Ids = 1..n
    BY DEF Ids
  <1>2. IsFiniteSet(1..n)
    BY <1>1, FS_Interval
  <1>3. IsFiniteSet(set)
    BY <1>1, <1>2, FS_Subset
  <1> DEFINE order == {ij \in set \X set : Newer(ij[1], ij[2])}
  <1>4. \A i, j \in set : <<i, j>> \in order <=> Newer(i, j)
    OBVIOUS
  <1> HIDE DEF order
  <1>5. \A i \in set : i \in Nat /\ versionRows[i].at \in Nat
    <2> SUFFICES ASSUME NEW i \in set PROVE i \in Nat /\ versionRows[i].at \in Nat
      OBVIOUS
    <2>1. i \in 1..n
      BY <1>1
    <2>2. versionRows[i] \in ListedRows
      BY <1>1, <2>1
    <2> QED
      BY <1>1, <2>1, <2>2 DEF ListedRows
  <1>6. Orders(order, set)
    <2>1. \A i \in set : ~Newer(i, i)
      BY <1>5 DEF Newer
    <2>2. \A i, j, k \in set : Newer(i, j) /\ Newer(j, k) => Newer(i, k)
      BY <1>5 DEF Newer
    <2>3. \A i, j \in set : i = j \/ Newer(i, j) \/ Newer(j, i)
      BY <1>5 DEF Newer
    <2> QED
      BY <1>4, <2>1, <2>2, <2>3 DEF Orders
  <1> QED
    BY <1>3, <1>6 DEF order

\* A feed has the newest first, and everything once.
LEMMA NewestFirstIs ==
  ASSUME versionRows \in Seq(ListedRows), NEW set \in SUBSET Ids
  PROVE  /\ Cardinality(set) \in Nat
         /\ NewestFirst(set) \in [1..Cardinality(set) -> set]
         /\ \A i, j \in 1..Cardinality(set) : i < j => Newer(NewestFirst(set)[i], NewestFirst(set)[j])
         /\ \A i, j \in 1..Cardinality(set) : NewestFirst(set)[i] = NewestFirst(set)[j] => i = j
         /\ \A x \in set : \E i \in 1..Cardinality(set) : NewestFirst(set)[i] = x
  <1> DEFINE order == {ij \in set \X set : Newer(ij[1], ij[2])}
             n == Cardinality(set)
             s == Sorted(set, order)
  <1>1. IsFiniteSet(set) /\ Orders(order, set)
    BY NewerOrders
  <1>2. \A i, j \in set : <<i, j>> \in order <=> Newer(i, j)
    OBVIOUS
  <1>3. NewestFirst(set) = s
    BY DEF NewestFirst
  <1> HIDE DEF order
  <1>4. /\ n \in Nat
        /\ s \in [1..n -> set]
        /\ \A i, j \in 1..n : i < j => <<s[i], s[j]>> \in order
        /\ \A i, j \in 1..n : s[i] = s[j] => i = j
        /\ \A x \in set : \E i \in 1..n : s[i] = x
    BY <1>1, SortedIs
  <1> HIDE DEF n, s
  <1>5. \A i, j \in 1..n : i < j => Newer(s[i], s[j])
    BY <1>2, <1>4
  <1> QED
    BY <1>3, <1>4, <1>5 DEF n

\* The one before all others is the newest, and no other is.
LEMMA TheNewest ==
  ASSUME versionRows \in Seq(ListedRows), NEW set \in SUBSET Ids, set # {}
  PROVE  /\ NewestFirst(set)[1] \in set
         /\ NewestOf(set) = {NewestFirst(set)[1]}
  <1> PICK s, n : s = NewestFirst(set) /\ n = Cardinality(set)
    OBVIOUS
  <1>1. /\ n \in Nat
        /\ s \in [1..n -> set]
        /\ \A i, j \in 1..n : i < j => Newer(s[i], s[j])
        /\ \A i, j \in 1..n : s[i] = s[j] => i = j
        /\ \A x \in set : \E i \in 1..n : s[i] = x
    BY NewestFirstIs
  <1>2. 1 \in 1..n
    <2>1. PICK i \in 1..n : TRUE
      BY <1>1
    <2> QED
      BY <1>1, <2>1
  <1>3. s[1] \in set
    BY <1>1, <1>2
  <1>4. \A j \in set \ {s[1]} : Newer(s[1], j)
    <2> SUFFICES ASSUME NEW j \in set \ {s[1]} PROVE Newer(s[1], j)
      OBVIOUS
    <2>1. PICK i \in 1..n : s[i] = j
      BY <1>1
    <2>2. 1 < i
      BY <1>1, <2>1
    <2> QED
      BY <1>1, <1>2, <2>1, <2>2
  <1>5. ASSUME NEW x \in NewestOf(set), x # s[1] PROVE FALSE
    <2>1. x \in set /\ Newer(x, s[1]) /\ Newer(s[1], x)
      BY <1>3, <1>4, <1>5 DEF NewestOf
    <2>2. <<x, s[1]>> \in {ij \in set \X set : Newer(ij[1], ij[2])}
          /\ <<s[1], x>> \in {ij \in set \X set : Newer(ij[1], ij[2])}
      BY <1>3, <2>1
    <2> QED
      BY <1>3, <2>1, <2>2, NewerOrders DEF Orders
  <1>6. s[1] \in NewestOf(set)
    BY <1>3, <1>4 DEF NewestOf
  <1> QED
    BY <1>3, <1>5, <1>6

\* What ListsAgree says of one module, and of the pages of a namespace.
ListedOnce(p) ==
  LET listings == {n \in DOMAIN RecentlyUpdated : versionRows[RecentlyUpdated[n]].path = p} IN
  IF p \in hiddenNow \/ Installable(p) = {} THEN listings = {} /\ ReleasesOf({p}) = <<>>
  ELSE \E n \in listings : listings = {n} /\ RecentlyUpdated[n] = ReleasesOf({p})[1]

\* Only the latest of each module is on the list, which is the first of its feed.
LEMMA EachIsListedOnce ==
  ASSUME versionRows \in Seq(ListedRows), NEW p \in ListedPath
  PROVE  ListedOnce(p)
  <1> PICK latest : latest = {i \in Ids : ~versionRows[i].yanked /\ IsLatest(i)}
    OBVIOUS
  <1> PICK s, n : s = NewestFirst(latest) /\ n = Cardinality(latest)
    OBVIOUS
  <1>1. /\ n \in Nat
        /\ s \in [1..n -> latest]
        /\ \A i, j \in 1..n : s[i] = s[j] => i = j
        /\ \A x \in latest : \E i \in 1..n : s[i] = x
    <2>1. latest \in SUBSET Ids
      OBVIOUS
    <2>2. versionRows \in Seq(ListedRows)
      OBVIOUS
    <2>3. /\ Cardinality(latest) \in Nat
          /\ NewestFirst(latest) \in [1..Cardinality(latest) -> latest]
          /\ \A i, j \in 1..Cardinality(latest) : NewestFirst(latest)[i] = NewestFirst(latest)[j] => i = j
          /\ \A x \in latest : \E i \in 1..Cardinality(latest) : NewestFirst(latest)[i] = x
      BY <2>1, <2>2, NewestFirstIs, Zenon
    <2> QED
      BY <2>3, Zenon
  <1>2. RecentlyUpdated = s
    BY DEF RecentlyUpdated
  <1> PICK feed : feed = {i \in Ids : versionRows[i].path \in {p} \ hiddenNow /\ ~versionRows[i].yanked}
    OBVIOUS
  <1>3. ReleasesOf({p}) = NewestFirst(feed)
    BY DEF ReleasesOf
  <1>4. /\ p \in hiddenNow => feed = {}
        /\ p \notin hiddenNow => feed = Installable(p)
    BY DEF Installable, OfPath
  <1>5. \A i \in latest : versionRows[i].path = p => p \notin hiddenNow /\ i \in NewestOf(Installable(p))
    BY DEF IsLatest
  <1>6. CASE p \in hiddenNow \/ Installable(p) = {}
    <2>1. \A m \in 1..n : versionRows[s[m]].path # p
      <3> SUFFICES ASSUME NEW m \in 1..n, versionRows[s[m]].path = p PROVE FALSE
        OBVIOUS
      <3>1. p \notin hiddenNow /\ s[m] \in NewestOf(Installable(p))
        BY <1>1, <1>5
      <3> QED
        BY <1>6, <3>1 DEF NewestOf
    <2>2. feed = {}
      BY <1>4, <1>6
    <2>3. Cardinality({}) = 0
      BY FS_EmptySet
    <2>4. NewestFirst({}) \in [1..0 -> {}]
      <3>1. {} \in SUBSET Ids
        OBVIOUS
      <3> QED
        BY <2>3, <3>1, NewestFirstIs
    <2>5. NewestFirst({}) = <<>>
      BY <2>4
    <2>6. {m \in 1..n : versionRows[s[m]].path = p} = {}
      BY <2>1
    <2>7. DOMAIN s = 1..n
      BY <1>1
    <2> QED
      BY <1>2, <1>3, <1>6, <2>2, <2>5, <2>6, <2>7 DEF ListedOnce
  <1>7. CASE p \notin hiddenNow /\ Installable(p) # {}
    <2> PICK x : x = NewestFirst(Installable(p))[1]
      OBVIOUS
    <2>1. x \in Installable(p) /\ NewestOf(Installable(p)) = {x}
      <3>1. Installable(p) \in SUBSET Ids
        BY DEF Installable, OfPath
      <3> QED
        BY <1>7, <3>1, TheNewest
    <2>2. x \in Ids /\ versionRows[x].path = p /\ ~versionRows[x].yanked
      BY <2>1 DEF Installable, OfPath
    <2>3. x \in latest
      BY <1>7, <2>1, <2>2 DEF IsLatest
    <2>4. PICK m \in 1..n : s[m] = x
      BY <1>1, <2>3
    <2>5. \A k \in 1..n : versionRows[s[k]].path = p => k = m
      <3> SUFFICES ASSUME NEW k \in 1..n, versionRows[s[k]].path = p PROVE k = m
        OBVIOUS
      <3>1. s[k] \in latest
        BY <1>1
      <3>2. s[k] \in NewestOf(Installable(p))
        BY <1>5, <3>1
      <3> QED
        BY <1>1, <2>1, <2>4, <3>2
    <2>6. DOMAIN s = 1..n
      BY <1>1
    <2>7. {k \in DOMAIN s : versionRows[s[k]].path = p} = {m}
      BY <2>2, <2>4, <2>5, <2>6
    <2>8. ReleasesOf({p})[1] = x
      BY <1>3, <1>4, <1>7
    <2> QED
      BY <1>2, <1>7, <2>4, <2>7, <2>8 DEF ListedOnce
  <1> QED
    BY <1>6, <1>7

\* The sequence of a set has each of it once.
LEMMA ByPathIs ==
  ASSUME NEW set \in SUBSET ListedPath
  PROVE  ByPath(set) \in Seq(ListedPath) /\ Len(ByPath(set)) <= Cardinality(ListedPath)
  <1> PICK n : n = Cardinality(set)
    OBVIOUS
  <1>1. IsFiniteSet(set) /\ n \in Nat /\ n <= Cardinality(ListedPath) /\ ExistsBijection(1..n, set)
    BY CatalogConstants, FS_Subset, FS_CardinalityType
  <1>2. PICK f \in [1..n -> set] : IsInjective(f)
    BY <1>1 DEF ExistsBijection, Bijection, Injection
  <1>3. ByPath(set) \in [1..n -> set]
    BY <1>2 DEF ByPath, SetToSeq
  <1>4. ByPath(set) \in [1..n -> ListedPath]
    BY <1>3
  <1>5. ByPath(set) \in Seq(ListedPath) /\ Len(ByPath(set)) = n
    BY <1>1, <1>4
  <1> QED
    BY <1>1, <1>5

\* The pages of a namespace are the list of its modules.
LEMMA NoModuleIsLeftOut ==
  ASSUME NEW limit \in 1..Cardinality(ListedPath)
  PROVE  FlattenSeq([n \in 1..Cardinality(ListedPath) |-> NamespacePage(limit, (n - 1) * limit)])
           = ByPath(HasVersions \ hiddenNow)
  <1> PICK all, k : all = ByPath(HasVersions \ hiddenNow) /\ k = Cardinality(ListedPath)
    OBVIOUS
  <1>1. all \in Seq(ListedPath) /\ Len(all) <= k /\ k \in Nat
    BY ByPathIs, CatalogConstants, FS_CardinalityType DEF HasVersions
  <1>2. limit \in Nat \ {0} /\ k \in Nat \ {0}
    BY <1>1
  <1>3. \A o \in Nat : NamespacePage(limit, o) = Cut(all, o, limit)
    <2> SUFFICES ASSUME NEW o \in Nat PROVE NamespacePage(limit, o) = Cut(all, o, limit)
      OBVIOUS
    <2>1. o + limit \in Nat /\ Len(all) \in Nat
      BY <1>1, <1>2
    <2>2. Min({o + limit, Len(all)}) = Least(o + limit, Len(all))
      BY <2>1, LeastIsMin
    <2> QED
      BY <2>2 DEF NamespacePage, Cut
  <1>4. \A n \in 1..k : NamespacePage(limit, (n - 1) * limit) = Cut(all, (n - 1) * limit, limit)
    <2> SUFFICES ASSUME NEW n \in 1..k PROVE NamespacePage(limit, (n - 1) * limit) = Cut(all, (n - 1) * limit, limit)
      OBVIOUS
    <2>1. (n - 1) * limit \in Nat
      <3>1. n - 1 \in Nat /\ limit \in Nat
        BY <1>1, <1>2
      <3> QED
        BY <3>1
    <2> QED
      BY <1>3, <2>1
  <1>5. FlattenSeq(CutUp(all, limit, k)) = all
    <2>1. all \in Seq(ListedPath)
      BY <1>1
    <2>2. Len(all) <= k
      BY <1>1
    <2>3. limit \in Nat \ {0}
      BY <1>2
    <2>4. k \in Nat \ {0}
      BY <1>2
    <2> QED
      BY <2>1, <2>2, <2>3, <2>4, PagesAreTheList, Zenon
  <1> QED
    BY <1>4, <1>5 DEF CutUp

\* What is under review is an answer.
LEMMA RootUnderReview ==
  ASSUME hiddenNow \subseteq HasVersions, NEW p \in hiddenNow
  PROVE  ModuleRoot(p) = "hidden"
  BY DEF HasVersions, ModuleRoot, Sees

\* A release stays a release of its module, and the version it is.
SameRelease(r, q) == r.path = q.path /\ r.version = q.version

\* A row of the versions stays, and is of the same release.
LEMMA PathsStay ==
  ASSUME FillingInv, [CatalogNext]_catalogVars
  PROVE  \A i \in Ids : i \in Ids' /\ SameRelease(versionRows'[i], versionRows[i])
  <1>0. versionRows \in Seq(ListedRows)
    BY DEF FillingInv
  <1>1. CASE \E p \in ListedPath, needs \in GoMods : PublishRow(p, needs)
    <2>1. PICK row : versionRows' = Append(versionRows, row)
      BY <1>1 DEF PublishRow
    <2> QED
      BY <1>0, <2>1 DEF Ids, SameRelease
  <1>2. ASSUME NEW i \in Ids, NEW row, versionRows' = [versionRows EXCEPT ![i] = row], SameRelease(row, versionRows[i])
        PROVE  \A j \in Ids : j \in Ids' /\ SameRelease(versionRows'[j], versionRows[j])
    BY <1>0, <1>2 DEF Ids, SameRelease
  <1>3. ASSUME UNCHANGED versionRows PROVE \A i \in Ids : i \in Ids' /\ SameRelease(versionRows'[i], versionRows[i])
    BY <1>3 DEF Ids, SameRelease
  <1>4. CASE \E i \in Ids, yanked \in BOOLEAN : SetYanked(i, yanked)
    <2>1. PICK i \in Ids, yanked \in BOOLEAN : versionRows' = [versionRows EXCEPT ![i].yanked = yanked]
      BY <1>4 DEF SetYanked
    <2>2. SameRelease([versionRows[i] EXCEPT !.yanked = yanked], versionRows[i])
      BY <1>0 DEF Ids, ListedRows, SameRelease
    <2> QED
      BY <1>2, <2>1, <2>2
  <1>5. CASE RecordRequire
    <2>1. PICK i, p : versionRows' = [versionRows EXCEPT ![i].required = @ \cup {p}]
      BY <1>5 DEF RecordRequire
    <2>2. CASE i \in Ids
      <3>1. SameRelease([versionRows[i] EXCEPT !.required = @ \cup {p}], versionRows[i])
        BY <1>0, <2>2 DEF Ids, ListedRows, SameRelease
      <3> QED
        BY <1>2, <2>1, <2>2, <3>1
    <2>3. CASE i \notin Ids
      BY <1>0, <2>1, <2>3 DEF Ids, SameRelease
    <2> QED
      BY <2>2, <2>3
  <1>6. CASE MarkIndexed
    <2>1. PICK i : versionRows' = [versionRows EXCEPT ![i].indexed = TRUE]
      BY <1>6 DEF MarkIndexed
    <2>2. CASE i \in Ids
      <3>1. SameRelease([versionRows[i] EXCEPT !.indexed = TRUE], versionRows[i])
        BY <1>0, <2>2 DEF Ids, ListedRows, SameRelease
      <3> QED
        BY <1>2, <2>1, <2>2, <3>1
    <2>3. CASE i \notin Ids
      BY <1>0, <2>1, <2>3 DEF Ids, SameRelease
    <2> QED
      BY <2>2, <2>3
  <1>7. CASE \E p \in ListedPath : SetQuarantined(p)
    BY <1>3, <1>7 DEF SetQuarantined
  <1>8. CASE ClockTicks \/ ListUnindexed \/ FillingEnds
    BY <1>3, <1>8 DEF ClockTicks, ListUnindexed, FillingEnds
  <1>9. CASE UNCHANGED catalogVars
    BY <1>3, <1>9 DEF catalogVars
  <1> QED
    BY <1>1, <1>4, <1>5, <1>6, <1>7, <1>8, <1>9 DEF CatalogNext

\* Only a module that has a version is under review.
HiddenHaveVersions == hiddenNow \subseteq HasVersions

\* No step changes that.
LEMMA HiddenStep == FillingInv /\ HiddenHaveVersions /\ [CatalogNext]_catalogVars => HiddenHaveVersions'
  <1> SUFFICES ASSUME FillingInv, HiddenHaveVersions, [CatalogNext]_catalogVars, NEW p \in hiddenNow'
               PROVE  p \in ListedPath /\ (OfPath(p) # {})'
    BY DEF HiddenHaveVersions, HasVersions
  <1>1. p \in ListedPath /\ OfPath(p) # {}
    <2>1. CASE p \in hiddenNow
      BY <2>1 DEF HiddenHaveVersions, HasVersions
    <2>2. CASE p \notin hiddenNow
      <3>1. hiddenNow' # hiddenNow
        BY <2>2
      <3>2. PICK q \in ListedPath : SetQuarantined(q)
        BY <3>1 DEF CatalogNext, catalogVars, PublishRow, SetYanked, ClockTicks, ListUnindexed, RecordRequire,
                    MarkIndexed, FillingEnds
      <3>3. hiddenNow' = SymDiff(hiddenNow, {q}) /\ OfPath(q) # {}
        BY <3>2 DEF SetQuarantined
      <3>4. p = q
        BY <2>2, <3>3 DEF SymDiff
      <3> QED
        BY <3>3, <3>4
    <2> QED
      BY <2>1, <2>2
  <1>2. PICK i \in Ids : versionRows[i].path = p
    BY <1>1 DEF OfPath
  <1>3. i \in Ids' /\ versionRows'[i].path = p
    BY <1>2, PathsStay DEF SameRelease
  <1> QED
    BY <1>1, <1>3 DEF OfPath

\* What the registry lists is what it has (internal/registry): each module
\* once, with the release its feed begins with; every module of a namespace
\* on one of its pages; a module under review nowhere, nor in the place of
\* another; and every dependent. For any releases, reviews and page sizes.
THEOREM ListingsAreTrue == CatalogSpec => []CatalogIsTrue
  <1>1. CatalogInit => FillingInv /\ HiddenHaveVersions
    BY FillingStarts DEF CatalogInit, HiddenHaveVersions
  <1>2. FillingInv /\ HiddenHaveVersions /\ [CatalogNext]_catalogVars => FillingInv' /\ HiddenHaveVersions'
    BY FillingStep, HiddenStep
  <1>3. FillingInv => UsedByIsComplete
    BY DEF FillingInv, Leaves, RequiresKept, UsedByIsComplete, Dependents, Filled
  <1>4. FillingInv /\ HiddenHaveVersions => ListsAgree
    <2> SUFFICES ASSUME FillingInv, HiddenHaveVersions PROVE ListsAgree
      OBVIOUS
    <2>1. \A p \in ListedPath : ListedOnce(p)
      BY EachIsListedOnce DEF FillingInv
    <2>2. \A p \in ListedPath : p \in hiddenNow => ModuleRoot(p) = "hidden"
      BY RootUnderReview DEF HiddenHaveVersions
    <2> QED
      BY <2>1, <2>2, NoModuleIsLeftOut, Zenon DEF ListsAgree, ListedOnce
  <1>5. FillingInv /\ HiddenHaveVersions => CatalogIsTrue
    BY <1>3, <1>4 DEF CatalogIsTrue
  <1> QED
    BY <1>1, <1>2, <1>5, PTL DEF CatalogSpec

\* As many rows as there may be, of these versions; and BackfillRequires has
\* listed some of them.
RowsAreFew == Len(versionRows) <= MaxRows /\ \A i \in Ids : versionRows[i].version \in 1..MaxRows
FillingIsOfRows == filling \in {NotFilling, Filled} \cup [pc : {"fill"}, todo : SUBSET Ids]

\* The inductive invariant of the types of what is listed.
CatalogTypes == FillingInv /\ HiddenHaveVersions /\ RowsAreFew /\ FillingIsOfRows

\* A row that is changed keeps its number; one that is added has the next one.
LEMMA RowsStayFew == FillingInv /\ RowsAreFew /\ [CatalogNext]_catalogVars => RowsAreFew'
  <1> SUFFICES ASSUME FillingInv, RowsAreFew, [CatalogNext]_catalogVars PROVE RowsAreFew'
    OBVIOUS
  <1>0. versionRows \in Seq(ListedRows) /\ Len(versionRows) \in Nat /\ Ids = 1..Len(versionRows) /\ MaxRows \in Nat
    BY CatalogConstants DEF FillingInv, Ids
  <1>1. ASSUME NEW p \in ListedPath, NEW needs \in GoMods, PublishRow(p, needs) PROVE RowsAreFew'
    <2>1. PICK row : /\ versionRows' = Append(versionRows, row) /\ row.version = Len(versionRows) + 1
      BY <1>1 DEF PublishRow
    <2>2. Len(versionRows) + 1 \in 1..MaxRows
      BY <1>0, <1>1 DEF PublishRow
    <2>3. Len(versionRows') = Len(versionRows) + 1
      BY <1>0, <2>1
    <2>4. \A i \in Ids' : (i \in Ids /\ versionRows'[i] = versionRows[i]) \/ versionRows'[i] = row
      BY <1>0, <2>1 DEF Ids
    <2>5. Len(versionRows') <= MaxRows
      BY <1>0, <2>2, <2>3
    <2>6. \A i \in Ids' : versionRows'[i].version \in 1..MaxRows
      BY <2>1, <2>2, <2>4, Zenon DEF RowsAreFew
    <2> QED
      BY <2>5, <2>6 DEF RowsAreFew
  <1>2. ASSUME Ids' = Ids PROVE RowsAreFew'
    <2>1. \A i \in Ids : versionRows'[i].version = versionRows[i].version
      BY PathsStay DEF SameRelease
    <2>2. versionRows' \in Seq(ListedRows)
      BY FillingStep DEF FillingInv
    <2>3. Len(versionRows') = Len(versionRows)
      BY <1>0, <1>2, <2>2 DEF Ids
    <2> QED
      BY <1>2, <2>1, <2>3 DEF RowsAreFew
  <1>3. (\E p \in ListedPath, needs \in GoMods : PublishRow(p, needs)) \/ Ids' = Ids
    BY <1>0 DEF CatalogNext, catalogVars, SetYanked, SetQuarantined, ClockTicks, ListUnindexed, RecordRequire,
                MarkIndexed, FillingEnds, Ids
  <1> QED
    BY <1>1, <1>2, <1>3

\* What is still to fill in are rows.
LEMMA FillingStaysOfRows == FillingInv /\ FillingIsOfRows /\ [CatalogNext]_catalogVars => FillingIsOfRows'
  <1> SUFFICES ASSUME FillingInv, FillingIsOfRows, [CatalogNext]_catalogVars PROVE FillingIsOfRows'
    OBVIOUS
  <1>1. Ids \subseteq Ids'
    BY PathsStay
  <1>2. ASSUME NEW todo \in SUBSET Ids, filling' = GoesOnWith(todo) PROVE FillingIsOfRows'
    BY <1>1, <1>2 DEF GoesOnWith, FillingIsOfRows
  <1>3. CASE filling' = filling
    BY <1>1, <1>3 DEF FillingIsOfRows
  <1>4. CASE ListUnindexed
    BY <1>2, <1>4 DEF ListUnindexed
  <1>5. CASE MarkIndexed
    <2>1. PICK i : filling' = GoesOnWith(filling.todo \ {i})
      BY <1>5 DEF MarkIndexed
    <2>2. filling.todo \in SUBSET Ids
      BY <1>5 DEF MarkIndexed, FillingIsOfRows, NotFilling, Filled
    <2> QED
      BY <1>2, <2>1, <2>2
  <1>6. CASE FillingEnds
    BY <1>6 DEF FillingEnds, FillingIsOfRows
  <1> QED
    BY <1>3, <1>4, <1>5, <1>6 DEF CatalogNext, catalogVars, PublishRow, SetYanked, SetQuarantined, ClockTicks, RecordRequire

\* They hold at first.
LEMMA CatalogTypesInit == CatalogInit => CatalogTypes
  <1> SUFFICES ASSUME CatalogInit PROVE CatalogTypes
    OBVIOUS
  <1>1. FillingInv /\ HiddenHaveVersions /\ FillingIsOfRows
    BY FillingStarts DEF CatalogInit, HiddenHaveVersions, FillingIsOfRows
  <1>2. 1 \in 1..MaxRows /\ MaxRows \in Nat
    BY CatalogConstants
  <1>3. ASSUME versionRows = <<>> PROVE RowsAreFew
    <2>1. Len(versionRows) = 0 /\ Ids = {} /\ 0 <= MaxRows
      BY <1>2, <1>3 DEF Ids
    <2>2. Len(versionRows) <= MaxRows
      BY <2>1
    <2>3. \A i \in Ids : versionRows[i].version \in 1..MaxRows
      BY <2>1
    <2> QED
      BY <2>2, <2>3 DEF RowsAreFew
  <1>4. ASSUME NEW old \in OldRow, versionRows = <<old>> PROVE RowsAreFew
    <2>1. old.version = 1
      BY DEF OldRow
    <2> QED
      BY <1>2, <1>4, <2>1 DEF RowsAreFew, Ids
  <1> QED
    BY <1>1, <1>3, <1>4 DEF CatalogInit, CatalogTypes

\* Every step keeps them.
LEMMA CatalogTypesStep == CatalogTypes /\ [CatalogNext]_catalogVars => CatalogTypes'
  BY FillingStep, HiddenStep, RowsStayFew, FillingStaysOfRows DEF CatalogTypes

\* They are the types.
LEMMA CatalogTypesHold == CatalogTypes => CatalogTypeOK
  <1> SUFFICES ASSUME CatalogTypes PROVE CatalogTypeOK
    OBVIOUS
  <1>1. \A i \in Ids : versionRows[i] \in ListedRows /\ versionRows[i].version \in 1..MaxRows
    BY DEF CatalogTypes, FillingInv, RowsAreFew, Ids
  <1>2. \A r \in ListedRows : r.version \in 1..MaxRows => r \in CatalogRow
    BY DEF ListedRows, CatalogRow
  <1>3. Range(versionRows) \subseteq CatalogRow
    BY <1>1, <1>2 DEF Range, Ids
  <1> QED
    BY <1>3 DEF CatalogTypes, CatalogTypeOK, HiddenHaveVersions, FillingIsOfRows

-----------------------------------------------------------------------------
(* Types of the command line and of texts.                                 *)

\* What the client's invariant says of runs, uploads and releases is of their
\* types.
LEMMA ClientIsTyped == ClientInv => ClientTypeOK
  <1> SUFFICES ASSUME ClientInv PROVE ClientTypeOK
    OBVIOUS
  <1>1. \A p \in Runner : job[p] \in Job /\ job[p].run \in Nat /\ job[p].run <= runs /\ runs \in Nat
    BY DEF ClientInv, RunsOfTheirTags, RunsAreNumbered, Job
  <1>2. \A p \in Runner : job[p].run \in 0..runs
    BY <1>1
  <1>4. \A p \in Runner : {job[p].commit, job[p].zip} \subseteq GitCommit \cup {NoCommit}
    BY <1>1 DEF Job
  <1>3. \A u \in uploads : u.run \in 1..runs
    <2>1. \A u \in uploads : u.run \in Nat /\ u.run <= runs /\ u.run # 0
      BY DEF ClientInv, UploadsAreOfRuns, UploadType
    <2>2. runs \in Nat
      BY DEF ClientInv, RunsAreNumbered
    <2> QED
      BY <2>1, <2>2
  <1> QED
    BY <1>2, <1>3, <1>4 DEF ClientInv, ClientTypeOK, TagsAreNamed, ReleasesAreOfCommits, Path

\* What a request carries is a token, whatever the command was.
RequestsAreTyped == request \subseteq [url : Url, token : Tok, saved : BOOLEAN]

\* No step sends anything else.
LEMMA RequestsStayTyped ==
  CredentialsInv /\ RequestsAreTyped /\ [CredentialsNext]_credentialVars => RequestsAreTyped'
  <1> SUFFICES ASSUME CredentialsInv, RequestsAreTyped, [CredentialsNext]_credentialVars PROVE RequestsAreTyped'
    OBVIOUS
  <1> DEFINE Registries == {{}} \cup {{raw} : raw \in Written}
  <1>r. \A raws \in Registries : raws \in SUBSET Written
    OBVIOUS
  <1>1. ASSUME NEW p \in Cmd, NEW raws \in Registries, UseToken(p, raws) PROVE RequestsAreTyped'
    <2>1. PICK url \in Resolved(raws) : /\ TokenFor(url) # NoTok
                                        /\ request' = {[url |-> url, token |-> TokenFor(url), saved |-> TRUE]}
      BY <1>1 DEF UseToken
    <2>2. url \in Url
      BY <1>r, ResolvedIsAllowed DEF CredentialsInv
    <2>3. TokenFor(url) \in Tok
      BY <2>1, <2>2 DEF TokenFor, CredentialsInv, Sound, CredentialFile
    <2> QED
      BY <2>1, <2>2, <2>3 DEF RequestsAreTyped
  <1>2. ASSUME NEW p \in Cmd, AskWho(p) PROVE RequestsAreTyped'
    BY <1>2 DEF AskWho, CredentialsInv, CommandsAreSound, RequestsAreTyped
  <1>3. request' = {} => RequestsAreTyped'
    BY DEF RequestsAreTyped
  <1>4. request' = request => RequestsAreTyped'
    BY DEF RequestsAreTyped
  <1> QED
    BY <1>1, <1>2, <1>3, <1>4 DEF CredentialsNext, BeginLogin, BeginLogout, SaveConfig, CommandFails, NoRequest, credentialVars

\* The file, the commands and their requests are what they should be.
LEMMA CredentialsAreTyped == CredentialsSpec => []CredentialsTypeOK
  <1>1. CredentialsInit => CredentialsInv /\ RequestsAreTyped
    BY CredentialsInitially DEF CredentialsInit, RequestsAreTyped
  <1>2. CredentialsInv /\ RequestsAreTyped => CredentialsTypeOK
    BY DEF CredentialsInv, RequestsAreTyped, CredentialsTypeOK, Sound, CommandsAreSound
  <1> QED
    BY <1>1, <1>2, CredentialsStep, RequestsStayTyped, PTL DEF CredentialsSpec

\* What is typed is of characters, and what is listed of versions.
LEMMA TextsAreTyped == VersionsSpec => []VersionsTypeOK
  <1> DEFINE Characters == Small \cup Big \cup Marks
             Typed == text \in Seq(Characters) /\ listed \in Seq(RawVersion)
  <1>1. VersionsInit => Typed
    BY DEF VersionsInit
  <1>2. Typed /\ [VersionsNext]_versionsVars => Typed'
    <2> SUFFICES ASSUME Typed, [VersionsNext]_versionsVars PROVE Typed'
      OBVIOUS
    <2>1. ASSUME NEW x \in Characters, Types(x) PROVE Typed'
      BY <2>1 DEF Types
    <2>2. ASSUME NEW v \in RawVersion, Lists(v) PROVE Typed'
      BY <2>2 DEF Lists
    <2>3. CASE UNCHANGED versionsVars
      BY <2>3 DEF versionsVars
    <2> QED
      BY <2>1, <2>2, <2>3 DEF VersionsNext
  <1>3. Typed => VersionsTypeOK
    BY RangeOfSeq DEF VersionsTypeOK
  <1> HIDE DEF Typed
  <1> QED
    BY <1>1, <1>2, <1>3, PTL DEF VersionsSpec

\* Names are no longer than names may be.
LEMMA NamesAreTyped == TyposSpec => []TyposTypeOK
  <1>0. MaxName \in Nat
    BY TyposConstants
  <1>1. TyposInit => TyposTypeOK
    BY <1>0 DEF TyposInit, TyposTypeOK, BoundedSeq, SeqOf
  <1>2. ASSUME NEW s \in BoundedSeq(Char, MaxName), NEW x \in Char, Longer(s)
        PROVE  Append(s, x) \in BoundedSeq(Char, MaxName)
    <2>1. PICK m \in 0..MaxName : s \in [1..m -> Char]
      BY DEF BoundedSeq, SeqOf
    <2>2. s \in Seq(Char) /\ Len(s) = m
      BY <2>1
    <2>3. m \in Nat /\ m + 1 \in 0..MaxName
      BY <1>0, <1>2, <2>2 DEF Longer
    <2>4. Append(s, x) \in Seq(Char) /\ Len(Append(s, x)) = m + 1
      BY <2>2
    <2>5. ASSUME NEW t \in Seq(Char) PROVE t \in [1..Len(t) -> Char]
      OBVIOUS
    <2>6. Append(s, x) \in [1..(m + 1) -> Char]
      BY <2>4, <2>5
    <2> QED
      BY <2>3, <2>6 DEF BoundedSeq, SeqOf
  <1>3. TyposTypeOK /\ [TyposNext]_typosVars => TyposTypeOK'
    <2> SUFFICES ASSUME TyposTypeOK, [TyposNext]_typosVars PROVE TyposTypeOK'
      OBVIOUS
    <2> QED
      BY <1>2 DEF TyposTypeOK, TyposNext, typosVars
  <1> QED
    BY <1>1, <1>3, PTL DEF TyposSpec

\* A file has lines.
LEMMA LinesAreTyped == GoModSpec => []GoModTypeOK
  <1>1. GoModInit => lines \in Seq(Line)
    BY DEF GoModInit
  <1>2. lines \in Seq(Line) /\ [GoModNext]_goModVars => (lines \in Seq(Line))'
    BY DEF GoModNext, goModVars
  <1>3. lines \in Seq(Line) => GoModTypeOK
    BY RangeOfSeq DEF GoModTypeOK
  <1> QED
    BY <1>1, <1>2, <1>3, PTL DEF GoModSpec

-----------------------------------------------------------------------------
(* All of them.                                                            *)

\* What is published, listed, written and reviewed is well formed, whatever
\* each of these parts does meanwhile.
THEOREM RegistryTypes == RegistrySpec => []RegistryTypeOK
  <1>1. CommandLineSpec => []ClientTypeOK
    BY ClientInitially, ClientStep, ClientIsTyped, PTL DEF CommandLineSpec, ClientSpec
  <1>2. CommandLineSpec => []CredentialsTypeOK
    BY CredentialsAreTyped DEF CommandLineSpec
  <1>3. CatalogSpec => []CatalogTypeOK
    BY CatalogTypesInit, CatalogTypesStep, CatalogTypesHold, PTL DEF CatalogSpec
  <1>4. TextsSpec => []VersionsTypeOK /\ []TyposTypeOK /\ []GoModTypeOK
    BY TextsAreTyped, NamesAreTyped, LinesAreTyped DEF TextsSpec
  <1>5. ModerationSpec => []ModerationTypeOK
    <2>1. ModerationInv => ModerationTypeOK
      BY DEF ModerationInv
    <2> QED
      BY ModerationInitially, ModerationStep, <2>1, PTL DEF ModerationSpec
  <1> QED
    BY PublishingTypes, <1>1, <1>2, <1>3, <1>4, <1>5, PTL DEF RegistrySpec, RegistryTypeOK
=============================================================================

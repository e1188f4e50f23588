--------------------------- MODULE DerivedProofs ----------------------------
(***************************************************************************)
(* What is promised of data that is computed from the tables, and of what  *)
(* is copied from elsewhere, for any modules, handlers, pages and times:   *)
(* every download is counted once, search has the entries the tables call  *)
(* for, the listings never go back, the copy of the vulnerability database *)
(* is as new as it says, and a server that stops leaves nothing behind.    *)
(***************************************************************************)
EXTENDS Derived, Sums, FiniteSetTheorems, TLAPS

-----------------------------------------------------------------------------
(* Downloads.                                                              *)

Counts == [Key -> Nat]

\* What is counted, and where: while no batch is being written there is none.
\* Without the last conjunct, Take would drop a batch.
CountInv ==
  /\ today \in Day
  /\ pending \in Counts /\ batch \in Counts /\ downloads \in Counts
  /\ served \in Counts /\ lost \in Counts
  /\ CountedOnce
  /\ flusher.pc # "write" => batch = None

\* Adding counts to counts gives counts, key by key.
LEMMA PlusCounts ==
  ASSUME NEW f \in Counts, NEW g \in Counts
  PROVE  /\ Plus(f, g) \in Counts
         /\ \A k \in Key : Plus(f, g)[k] = f[k] + g[k]
  BY DEF Plus, Counts

\* Nothing is counted at first.
LEMMA NoneCounts == None \in Counts /\ \A k \in Key : None[k] = 0
  BY DEF None, Counts

\* Counts start out well formed, and equal.
LEMMA CountInit == Init => CountInv
  <1> SUFFICES ASSUME Init PROVE CountInv
    OBVIOUS
  <1>1. today \in Day
    BY DownloadsConstants DEF Init, Day
  <1>2. CountedOnce
    BY NoneCounts DEF Init, CountedOnce
  <1> QED
    BY <1>1, <1>2, NoneCounts DEF Init, CountInv

\* Every step of the counter, the flusher and the clock, and a restart,
\* preserves that everything is counted once.
LEMMA CountStep == CountInv /\ [Next]_downloadVars => CountInv'
  <1> SUFFICES ASSUME CountInv, [Next]_downloadVars PROVE CountInv'
    OBVIOUS
  <1> USE PlusCounts, NoneCounts DEF CountInv
  <1>1. ASSUME NEW m \in Module, Count(m) PROVE CountInv'
    <2>1. <<m, today>> \in Key
      BY DEF Key
    <2>2. pending' \in Counts /\ served' \in Counts
      BY <1>1, <2>1 DEF Count, Counts
    <2>3. \A k \in Key : /\ pending'[k] = pending[k] + IF k = <<m, today>> THEN 1 ELSE 0
                         /\ served'[k] = served[k] + IF k = <<m, today>> THEN 1 ELSE 0
      BY <1>1, <2>1 DEF Count, Counts
    <2>4. CountedOnce'
      BY <1>1, <2>3 DEF Count, CountedOnce, Counts
    <2> QED
      BY <1>1, <2>2, <2>4 DEF Count
  <1>2. ASSUME NEW m \in Module, ReindexCounts(m) PROVE CountInv'
    BY <1>2 DEF ReindexCounts, CountedOnce
  <1>3. CASE Take
    <2>1. batch = None
      BY <1>3 DEF Take, IdleFlush
    <2>2. CountedOnce'
      BY <1>3, <2>1 DEF Take, CountedOnce, Counts
    <2> QED
      BY <1>3, <2>2 DEF Take
  <1>4. CASE Write
    <2>1. CountedOnce'
      BY <1>4 DEF Write, CountedOnce, Counts
    <2> QED
      BY <1>4, <2>1 DEF Write
  <1>5. CASE PutBack
    <2>1. pending' = Plus(pending, batch) /\ batch' = None
      BY <1>5 DEF PutBack
    <2>2. \A k \in Key : pending'[k] = pending[k] + batch[k] /\ batch'[k] = 0
      BY <2>1
    <2>3. CountedOnce'
      BY <1>5, <2>2 DEF PutBack, FlushFails, CountedOnce, Counts
    <2> QED
      BY <1>5, <2>1, <2>3 DEF PutBack, FlushFails
  <1>6. CASE Refresh
    <2>1. CountedOnce'
      BY <1>6 DEF Refresh, CountedOnce
    <2> QED
      BY <1>6, <2>1 DEF Refresh
  <1>7. CASE RefreshFails
    <2>1. CountedOnce'
      BY <1>7 DEF RefreshFails, FlushFails, CountedOnce
    <2> QED
      BY <1>7, <2>1 DEF RefreshFails, FlushFails
  <1>8. CASE NextDay
    <2>1. today' \in Day
      BY <1>8, DownloadsConstants DEF NextDay, Day
    <2> QED
      BY <1>8, <2>1 DEF NextDay, flushVars, CountedOnce
  <1>9. CASE Restart
    <2>1. Plus(pending, batch) \in Counts
      OBVIOUS
    <2>2. lost' \in Counts /\ \A k \in Key : lost'[k] = lost[k] + (pending[k] + batch[k])
      BY <1>9, <2>1 DEF Restart
    <2>3. CountedOnce'
      BY <1>9, <2>2 DEF Restart, CountedOnce, Counts
    <2> QED
      BY <1>9, <2>2, <2>3 DEF Restart
  <1>10. CASE UNCHANGED downloadVars
    BY <1>10 DEF downloadVars, flushVars, CountedOnce
  <1> QED
    BY <1>1, <1>2, <1>3, <1>4, <1>5, <1>6, <1>7, <1>8, <1>9, <1>10 DEF Next, Flush

\* Every download is in the table, in memory, or was lost with a server that
\* went down -- once, for any number of downloads while batches are written,
\* put back and written again.
THEOREM DownloadsCountedOnce == Spec => []CountedOnce
  <1>1. CountInv => CountedOnce
    BY DEF CountInv
  <1> QED
    BY CountInit, CountStep, <1>1, PTL DEF Spec

-----------------------------------------------------------------------------
\* The refresh of today is done with the counts of all modules, and every
\* batch written since has brought its own modules up to date.
RecentInv ==
  /\ CountInv
  /\ RecentOnceRefreshed
  /\ refreshed <= today /\ refreshed \in Nat
  /\ flusher.pc = "refresh" => flusher.day \in Nat /\ flusher.day <= today

\* The modules a batch has no downloads of keep the count of their window.
LEMMA UntouchedKeepCount ==
  ASSUME NEW f \in Counts, NEW g \in Counts, NEW m \in Module \ Touched(g)
  PROVE  Recent(Plus(f, g), m) = Recent(f, m)
  <1>1. ASSUME NEW d \in Day PROVE Plus(f, g)[<<m, d>>] = f[<<m, d>>]
    <2>1. <<m, d>> \in Key
      BY DEF Key
    <2>2. ~(g[<<m, d>>] > 0)
      BY DEF Touched
    <2>3. f[<<m, d>>] \in Nat /\ g[<<m, d>>] \in Nat
      BY <2>1 DEF Counts
    <2>4. Plus(f, g)[<<m, d>>] = f[<<m, d>>] + g[<<m, d>>]
      BY <2>1, PlusCounts
    <2> QED
      BY <2>2, <2>3, <2>4
  <1>2. [d \in Day |-> Plus(f, g)[<<m, d>>]] = [d \in Day |-> f[<<m, d>>]]
    BY <1>1
  <1> QED
    BY <1>2 DEF Recent

\* At first nothing has been refreshed.
LEMMA RecentInit == Init => RecentInv
  BY CountInit DEF Init, RecentInv, CountInv, RecentOnceRefreshed, IdleFlush, Day

\* Every step preserves it.
LEMMA RecentStep == RecentInv /\ [Next]_downloadVars => RecentInv'
  <1> SUFFICES ASSUME RecentInv, [Next]_downloadVars PROVE RecentInv'
    OBVIOUS
  <1>0. CountInv' /\ today \in Nat /\ today > 0 /\ refreshed \in Nat /\ refreshed <= today
    BY CountStep DEF RecentInv, CountInv, Day
  <1>a. ASSUME downloads' = downloads, today' = today
        PROVE  \A m \in Module : Recent(downloads, m)' = Recent(downloads, m)
    BY <1>a DEF Recent
  <1>1. ASSUME NEW m \in Module, Count(m) PROVE RecentInv'
    BY <1>0, <1>1, <1>a DEF RecentInv, Count, RecentOnceRefreshed
  <1>2. ASSUME NEW m \in Module, ReindexCounts(m) PROVE RecentInv'
    <2>1. \A n \in Module : recent'[n] = IF n = m THEN Recent(downloads, n) ELSE recent[n]
      BY <1>2 DEF ReindexCounts, Refreshed
    <2>2. RecentOnceRefreshed'
      BY <1>2, <1>a, <2>1 DEF ReindexCounts, RecentOnceRefreshed, RecentInv
    <2> QED
      BY <1>0, <1>2, <2>2 DEF RecentInv, ReindexCounts
  <1>3. CASE Take
    BY <1>0, <1>3, <1>a DEF RecentInv, Take, RecentOnceRefreshed
  <1>4. CASE Write
    <2>1. ASSUME NEW m \in Module, refreshed' = today'
          PROVE  recent'[m] = Recent(downloads, m)'
      <3>1. recent[m] = Recent(downloads, m)
        BY <1>4, <2>1 DEF Write, RecentInv, RecentOnceRefreshed
      <3>2. Recent(downloads, m)' = Recent(Plus(downloads, batch), m)
        BY <1>4 DEF Write, Recent
      <3>3. recent'[m] = IF m \in Touched(batch) THEN Recent(Plus(downloads, batch), m) ELSE recent[m]
        BY <1>4 DEF Write, Refreshed, Recent
      <3>4. m \notin Touched(batch) => Recent(Plus(downloads, batch), m) = Recent(downloads, m)
        BY UntouchedKeepCount DEF RecentInv, CountInv
      <3> QED
        BY <3>1, <3>2, <3>3, <3>4
    <2>2. RecentOnceRefreshed'
      BY <2>1 DEF RecentOnceRefreshed
    <2>3. flusher'.pc = "refresh" => flusher'.day \in Nat /\ flusher'.day <= today'
      BY <1>0, <1>4 DEF Write, IdleFlush
    <2> QED
      BY <1>0, <1>4, <2>2, <2>3 DEF RecentInv, Write
  <1>5. CASE PutBack
    BY <1>0, <1>5, <1>a DEF RecentInv, PutBack, FlushFails, RecentOnceRefreshed, IdleFlush
  <1>6. CASE Refresh
    <2>1. \A m \in Module : recent'[m] = Recent(downloads, m)'
      BY <1>6 DEF Refresh, Refreshed, Recent
    <2>2. RecentOnceRefreshed'
      BY <2>1 DEF RecentOnceRefreshed
    <2> QED
      BY <1>0, <1>6, <2>2 DEF RecentInv, Refresh, IdleFlush
  <1>7. CASE RefreshFails
    BY <1>0, <1>7, <1>a DEF RecentInv, RefreshFails, FlushFails, RecentOnceRefreshed, IdleFlush
  <1>8. CASE NextDay
    <2>1. refreshed' # today' /\ refreshed' <= today'
      BY <1>0, <1>8 DEF NextDay, flushVars
    <2> QED
      BY <1>0, <1>8, <2>1 DEF RecentInv, NextDay, flushVars, RecentOnceRefreshed
  <1>9. CASE Restart
    BY <1>0, <1>9 DEF RecentInv, Restart, RecentOnceRefreshed, IdleFlush
  <1>10. CASE UNCHANGED downloadVars
    BY <1>0, <1>10, <1>a DEF RecentInv, downloadVars, flushVars, RecentOnceRefreshed
  <1> QED
    BY <1>1, <1>2, <1>3, <1>4, <1>5, <1>6, <1>7, <1>8, <1>9, <1>10 DEF Next, Flush

\* Once the day's refresh is done, the 30-day count of every module is that
\* of its table, for any window.
THEOREM RecentIsRecent == Spec => []RecentOnceRefreshed
  <1>1. RecentInv => RecentOnceRefreshed
    BY DEF RecentInv
  <1> QED
    BY RecentInit, RecentStep, <1>1, PTL DEF Spec

-----------------------------------------------------------------------------
(* The 30-day counts.                                                      *)

\* Days are few, and a table has a natural number for each: the 30-day count
\* is one, and that of a later day, of the same table, is no larger.
LEMMA RecentIsANumber ==
  ASSUME NEW f \in Counts, NEW m \in Module, today \in Nat
  PROVE  Recent(f, m) \in Nat
  <1> DEFINE g == [d \in Day |-> f[<<m, d>>]]
             S == {d \in Day : d > today - Window}
  <1>1. \A d \in Day : g[d] \in Nat
    BY DEF Counts, Key
  <1>2. IsFiniteSet(S)
    <2>1. IsFiniteSet(Day)
      BY DownloadsConstants, FS_Interval DEF Day
    <2> QED
      BY <2>1, FS_Subset
  <1>3. \A d \in S : g[d] \in Nat
    BY <1>1
  <1> HIDE DEF g, S
  <1>4. SumFunctionOnSet(g, S) \in Nat
    BY <1>2, <1>3, SumNat
  <1> QED
    BY <1>4 DEF Recent, g, S

\* At midnight the window moves: the same table is summed over the days that
\* are still in it.
LEMMA NextDayRecent ==
  ASSUME NEW m \in Module, today \in Nat, NextDay
  PROVE  Recent(downloads, m)'
           = SumFunctionOnSet([d \in Day |-> downloads[<<m, d>>]], {d \in Day : d > today + 1 - Window})
  <1>1. downloads' = downloads /\ today' = today + 1
    BY DEF NextDay, flushVars
  <1>2. {d \in Day : d > today' - Window} = {d \in Day : d > today + 1 - Window}
    <2>1. today' - Window = today + 1 - Window
      BY <1>1, DownloadsConstants
    <2> DEFINE firstDay == today' - Window
               second == today + 1 - Window
    <2>2. firstDay = second
      BY <2>1
    <2> HIDE DEF firstDay, second
    <2>3. {d \in Day : d > firstDay} = {d \in Day : d > second}
      BY <2>2
    <2> QED
      BY <2>3 DEF firstDay, second
  <1>3. [d \in Day |-> downloads'[<<m, d>>]] = [d \in Day |-> downloads[<<m, d>>]]
    BY <1>1
  <1>4. Recent(downloads, m)'
          = SumFunctionOnSet([d \in Day |-> downloads'[<<m, d>>]], {d \in Day : d > today' - Window})
    BY DEF Recent
  <1> QED
    BY <1>2, <1>3, <1>4

\* So at midnight the 30-day count of the tables falls, if anything.
LEMMA RecentOnlyFalls ==
  ASSUME NEW m \in Module, downloads \in Counts, today \in Nat, NextDay
  PROVE  Recent(downloads, m)' <= Recent(downloads, m)
  <1> DEFINE g == [d \in Day |-> downloads[<<m, d>>]]
             S == {d \in Day : d > today - Window}
             T == {d \in Day : d > today + 1 - Window}
  <1>1. \A d \in Day : g[d] \in Nat
    BY DEF Counts, Key
  <1>2. IsFiniteSet(S)
    <2>1. IsFiniteSet(Day)
      BY DownloadsConstants, FS_Interval DEF Day
    <2> QED
      BY <2>1, FS_Subset
  <1>3. \A d \in S : g[d] \in Nat
    BY <1>1
  <1>4. T \in SUBSET S
    <2>1. Window \in Int
      BY DownloadsConstants
    <2>2. ASSUME NEW d \in Day, d > today + 1 - Window PROVE d > today - Window
      BY <2>1, <2>2 DEF Day
    <2> QED
      BY <2>2
  <1>5. Recent(downloads, m)' = SumFunctionOnSet(g, T)
    BY NextDayRecent
  <1>6. Recent(downloads, m) = SumFunctionOnSet(g, S)
    BY DEF Recent
  <1> HIDE DEF g, S, T
  <1>7. SumFunctionOnSet(g, T) <= SumFunctionOnSet(g, S)
    BY <1>2, <1>3, <1>4, SumMono
  <1> QED
    BY <1>5, <1>6, <1>7

\* The inductive invariant: the counts of the tables are numbers, and so is
\* the 30-day count kept for each module.
FloorInv ==
  /\ CountInv
  /\ recent \in [Module -> Nat]
  /\ RecentNeverTooLow

\* It holds at first.
LEMMA FloorInit == Init => FloorInv
  <1> SUFFICES ASSUME Init PROVE FloorInv
    OBVIOUS
  <1>1. CountInv
    BY CountInit
  <1>2. ASSUME NEW m \in Module PROVE Recent(downloads, m) = 0
    <2> DEFINE g == [d \in Day |-> downloads[<<m, d>>]]
               S == {d \in Day : d > today - Window}
    <2>1. IsFiniteSet(S)
      <3>1. IsFiniteSet(Day)
        BY DownloadsConstants, FS_Interval DEF Day
      <3> QED
        BY <3>1, FS_Subset
    <2>2. \A d \in S : g[d] = 0
      BY DEF Init, None, Key
    <2> HIDE DEF g, S
    <2>3. SumFunctionOnSet(g, S) = 0
      BY <2>1, <2>2, SumNone
    <2> QED
      BY <2>3 DEF Recent, g, S
  <1> QED
    BY <1>1, <1>2 DEF Init, FloorInv, RecentNeverTooLow

\* Every step keeps it: what is written is added to both, a day that passes
\* only takes away, and a refresh writes what the table says.
LEMMA FloorStep == FloorInv /\ [Next]_downloadVars => FloorInv'
  <1> SUFFICES ASSUME FloorInv, [Next]_downloadVars PROVE FloorInv'
    OBVIOUS
  <1>0. /\ CountInv /\ CountInv' /\ today \in Nat /\ today' \in Nat
        /\ downloads \in Counts /\ downloads' \in Counts /\ batch \in Counts
        /\ recent \in [Module -> Nat]
        /\ \A m \in Module : recent[m] >= Recent(downloads, m)
    BY CountStep DEF FloorInv, CountInv, Day, RecentNeverTooLow
  <1>1. ASSUME NEW m \in Module
        PROVE  Recent(downloads, m) \in Nat /\ Recent(downloads, m)' \in Nat
    <2>1. Recent(downloads, m) \in Nat
      BY <1>0, RecentIsANumber
    <2>2. (downloads' = downloads /\ today' = today) \/ NextDay \/ Write
      BY DEF Next, Flush, Count, ReindexCounts, Take, PutBack, FlushFails, Refresh, RefreshFails,
             Restart, downloadVars, flushVars
    <2>3. CASE downloads' = downloads /\ today' = today
      BY <2>1, <2>3 DEF Recent
    <2>4. CASE NextDay
      <3>1. Recent(downloads, m)' = SumFunctionOnSet([d \in Day |-> downloads[<<m, d>>]], {d \in Day : d > today + 1 - Window})
        BY <1>0, <2>4, NextDayRecent
      <3> DEFINE g == [d \in Day |-> downloads[<<m, d>>]]
                 T == {d \in Day : d > today + 1 - Window}
      <3>2. \A d \in T : g[d] \in Nat
        BY <1>0 DEF Counts, Key
      <3>3. IsFiniteSet(T)
        <4>1. IsFiniteSet(Day)
          BY DownloadsConstants, FS_Interval DEF Day
        <4> QED
          BY <4>1, FS_Subset
      <3> HIDE DEF g, T
      <3>4. SumFunctionOnSet(g, T) \in Nat
        BY <3>2, <3>3, SumNat
      <3> QED
        BY <2>1, <3>1, <3>4 DEF g, T
    <2>5. CASE Write
      <3>1. Plus(downloads, batch) \in Counts
        BY <1>0, PlusCounts
      <3>2. Recent(Plus(downloads, batch), m) \in Nat
        BY <1>0, <3>1, RecentIsANumber
      <3>3. Recent(downloads, m)' = Recent(Plus(downloads, batch), m)
        BY <2>5 DEF Write, Recent
      <3> QED
        BY <2>1, <3>2, <3>3
    <2> QED
      BY <2>2, <2>3, <2>4, <2>5
  <1>2. ASSUME NEW m \in Module
        PROVE  recent'[m] \in Nat /\ recent'[m] >= Recent(downloads, m)'
    <2>0. recent[m] \in Nat /\ recent[m] >= Recent(downloads, m)
      BY <1>0
    <2>1. CASE recent' = recent /\ downloads' = downloads /\ today' = today
      <3>1. Recent(downloads, m)' = Recent(downloads, m)
        BY <2>1 DEF Recent
      <3> QED
        BY <2>0, <2>1, <3>1
    <2>2. CASE \E n \in Module : ReindexCounts(n)
      <3>1. downloads' = downloads /\ today' = today /\ recent'[m] \in {recent[m], Recent(downloads, m)}
        BY <2>2 DEF ReindexCounts, Refreshed
      <3>2. Recent(downloads, m)' = Recent(downloads, m)
        BY <3>1 DEF Recent
      <3> QED
        BY <1>1, <2>0, <3>1, <3>2
    <2>3. CASE Refresh
      <3>1. downloads' = downloads /\ today' = today /\ recent'[m] = Recent(downloads, m)
        BY <2>3 DEF Refresh, Refreshed
      <3>2. Recent(downloads, m)' = Recent(downloads, m)
        BY <3>1 DEF Recent
      <3> QED
        BY <1>1, <3>1, <3>2
    <2>4. CASE NextDay
      <3>1. recent' = recent
        BY <2>4 DEF NextDay, flushVars
      <3>2. Recent(downloads, m)' <= Recent(downloads, m)
        BY <1>0, <2>4, RecentOnlyFalls
      <3> QED
        BY <1>1, <2>0, <3>1, <3>2
    <2>5. CASE Write
      <3>1. recent'[m] = IF m \in Touched(batch) THEN Recent(Plus(downloads, batch), m) ELSE recent[m]
        BY <2>5 DEF Write, Refreshed, Recent
      <3>2. m \notin Touched(batch) => Recent(Plus(downloads, batch), m) = Recent(downloads, m)
        BY <1>0, UntouchedKeepCount
      <3>3. Recent(downloads, m)' = Recent(Plus(downloads, batch), m)
        BY <2>5 DEF Write, Recent
      <3> QED
        BY <1>1, <2>0, <3>1, <3>2, <3>3
    <2> QED
      BY <2>1, <2>2, <2>3, <2>4, <2>5 DEF Next, Flush, Count, Take, PutBack, FlushFails, RefreshFails,
             Restart, downloadVars, flushVars
  <1>3. recent' \in [Module -> Nat]
    <2>1. recent' = [m \in Module |-> recent'[m]]
      BY <1>0 DEF Next, Flush, Count, Take, Write, Refreshed, Refresh, PutBack, FlushFails, RefreshFails,
             ReindexCounts, NextDay, Restart, downloadVars, flushVars
    <2> QED
      BY <1>2, <2>1
  <1> QED
    BY <1>0, <1>2, <1>3 DEF FloorInv, RecentNeverTooLow

\* The 30-day count search sorts by is never less than what the table holds
\* for the window.
THEOREM RecentIsAFloor == Spec => []RecentNeverTooLow
  <1>1. FloorInv => RecentNeverTooLow
    BY DEF FloorInv
  <1> QED
    BY FloorInit, FloorStep, <1>1, PTL DEF Spec

\* The inductive invariant of the types of the counts.
CountTypes == FloorInv /\ DownloadsTypeOK

\* Every step keeps it.
LEMMA CountTypesStep == CountTypes /\ [Next]_downloadVars => CountTypes'
  <1> SUFFICES ASSUME CountTypes, [Next]_downloadVars PROVE CountTypes'
    OBVIOUS
  <1>1. FloorInv'
    BY FloorStep DEF CountTypes
  <1>2. /\ today' \in Day
        /\ \A f \in {pending', batch', downloads', served', lost'} : f \in [Key -> Nat]
        /\ recent' \in [Module -> Nat]
        /\ flusher'.pc # "write" => batch' = None'
    BY <1>1 DEF FloorInv, CountInv, Counts
  <1>3. /\ today \in Day /\ refreshed \in Day \cup {0} /\ failures \in 0..MaxFail /\ crashes \in 0..MaxCrash
        /\ flusher \in {IdleFlush, [pc |-> "write"]} \cup [pc : {"refresh"}, day : Day]
        /\ MaxFail \in Nat /\ MaxCrash \in Nat
    BY DownloadsConstants DEF CountTypes, DownloadsTypeOK
  <1>4. /\ refreshed' \in Day \cup {0} /\ failures' \in 0..MaxFail /\ crashes' \in 0..MaxCrash
        /\ flusher' \in {IdleFlush, [pc |-> "write"]} \cup [pc : {"refresh"}, day : Day]
    <2>1. CASE \E m \in Module : Count(m) \/ ReindexCounts(m)
      BY <1>3, <2>1 DEF Count, ReindexCounts
    <2>2. CASE Take
      BY <1>3, <2>2 DEF Take
    <2>3. CASE Write
      BY <1>3, <2>3 DEF Write
    <2>4. CASE PutBack
      BY <1>3, <2>4 DEF PutBack, FlushFails
    <2>5. CASE Refresh
      <3>1. flusher.day \in Day
        BY <1>3, <2>5 DEF Refresh, IdleFlush
      <3> QED
        BY <1>3, <2>5, <3>1 DEF Refresh
    <2>6. CASE RefreshFails
      BY <1>3, <2>6 DEF RefreshFails, FlushFails
    <2>7. CASE NextDay
      BY <1>3, <2>7 DEF NextDay, flushVars
    <2>8. CASE Restart
      BY <1>3, <2>8 DEF Restart
    <2>9. CASE UNCHANGED downloadVars
      BY <1>3, <2>9 DEF downloadVars, flushVars
    <2> QED
      BY <2>1, <2>2, <2>3, <2>4, <2>5, <2>6, <2>7, <2>8, <2>9 DEF Next, Flush
  <1> QED
    BY <1>1, <1>2, <1>4 DEF CountTypes, DownloadsTypeOK

\* It holds at first.
LEMMA CountTypesInit == Init => CountTypes
  <1> SUFFICES ASSUME Init PROVE CountTypes
    OBVIOUS
  <1>1. FloorInv
    BY FloorInit
  <1>2. /\ \A f \in {pending, batch, downloads, served, lost} : f \in [Key -> Nat]
    BY <1>1 DEF FloorInv, CountInv, Counts
  <1> QED
    BY <1>1, <1>2, DownloadsConstants DEF CountTypes, DownloadsTypeOK, FloorInv, CountInv, Init

-----------------------------------------------------------------------------
(* The search index.                                                       *)

\* w is at work on a module, or has just been, and nobody else was.
Alone(w) == work[w].pc \in Reading \cup {"ok", "error"} /\ work[w].alone

JobsOK ==
  /\ work \in [Worker -> Job \cup {NoJob, [pc |-> "list"]}]
  /\ missing \subseteq Path
  /\ entry = [m \in Path |-> entry[m]]
  /\ published \in [Path -> SUBSET Version]
  /\ yanked \in [Path -> SUBSET Version]

\* Whoever is alone is the only one to reindex the module.
AloneIsAlone ==
  \A w, x \in Worker : (Alone(w) /\ x # w) => ~Reindexes(x, work[w].mod)

\* What a job that is alone has read is what the tables say.
ReadIsTrue ==
  \A w \in Worker : Alone(w) =>
    /\ work[w].pc \in {"versions", "entry"} =>
         /\ work[w].quarantined = (work[w].mod \in quarantined)
         /\ work[w].deprecated = (work[w].mod \in deprecated)
    /\ work[w].pc = "entry" => work[w].versions = published[work[w].mod] \ yanked[work[w].mod]

QuarantineHolds ==
  \A w \in Worker : (Alone(w) /\ work[w].kind = "Quarantine") => work[w].mod \in quarantined

\* Without the middle three an entry could be written from what was so before.
SearchInv ==
  /\ JobsOK
  /\ AloneIsAlone
  /\ ReadIsTrue
  /\ QuarantineHolds
  /\ RequestsAreIndexed

\* No step outside a request changes the tables, and a request only those of
\* its own module.
SameTables(m) ==
  /\ published'[m] = published[m]
  /\ yanked'[m] = yanked[m]
  /\ m \in quarantined' <=> m \in quarantined
  /\ m \in deprecated' <=> m \in deprecated

\* A request of h changes the tables of m, and begins to reindex it.
Requests(h, kind, m) ==
  /\ work[h] = NoJob
  /\ Begins(h, kind, m)
  /\ \A n \in Path \ {m} : SameTables(n)
  /\ kind = "Quarantine" => m \in quarantined'
  /\ published' \in [Path -> SUBSET Version]
  /\ yanked' \in [Path -> SUBSET Version]
  /\ UNCHANGED <<entry, missing, stale, restarts>>

\* Whatever is asked, a request begins in this way, or finds nothing to do.
LEMMA RequestBegins ==
  ASSUME JobsOK, NEW h \in Handler, Request(h)
  PROVE  \/ \E kind \in Kind, m \in Path : Requests(h, kind, m)
         \/ \E kind \in Kind, m \in Path : kind # "Quarantine" /\ Nothing(h, kind, m)
  <1> USE DEF JobsOK, Kind, Requests, SameTables, Begin
  <1>1. PICK m \in Path :
          \/ \E v \in Version : Publish(h, m, v) \/ Yank(h, m, v) \/ Unyank(h, m, v)
          \/ Deprecate(h, m)
          \/ Undeprecate(h, m)
          \/ Quarantine(h, m)
          \/ Release(h, m)
    BY DEF Request
  <1>2. ASSUME NEW v \in Version, Publish(h, m, v) PROVE Requests(h, "Publish", m)
    BY <1>2 DEF Publish
  <1>3. ASSUME NEW v \in Version, Yank(h, m, v)
        PROVE  Requests(h, "Yank", m) \/ Nothing(h, "Yank", m)
    BY <1>3 DEF Yank
  <1>4. ASSUME NEW v \in Version, Unyank(h, m, v)
        PROVE  Requests(h, "Unyank", m) \/ Nothing(h, "Unyank", m)
    BY <1>4 DEF Unyank
  <1>5. Deprecate(h, m) => Requests(h, "Deprecate", m)
    BY DEF Deprecate
  <1>6. Undeprecate(h, m) => Requests(h, "Undeprecate", m)
    BY DEF Undeprecate
  <1>7. Quarantine(h, m) => Requests(h, "Quarantine", m)
    BY DEF Quarantine
  <1>8. Release(h, m) => Requests(h, "Release", m)
    BY DEF Release
  <1> HIDE DEF Requests
  <1> QED
    BY <1>1, <1>2, <1>3, <1>4, <1>5, <1>6, <1>7, <1>8

\* A job begins: nobody else is alone with the module from now on.
LEMMA BeginsAlone ==
  ASSUME JobsOK, NEW w \in Worker, NEW kind \in Kind \cup {"Backfill"}, NEW m \in Path,
         work[w] = NoJob, Begins(w, kind, m)
  PROVE  /\ work' \in [Worker -> Job \cup {NoJob, [pc |-> "list"]}]
         /\ work'[w] = NewJob(kind, m, ~AtWork(m))
         /\ \A x \in Worker \ {w} : /\ work'[x].pc = work[x].pc
                                    /\ Alone(x)' => work'[x] = work[x] /\ work[x].mod # m
                                    /\ \A n \in Path : Reindexes(x, n)' <=> Reindexes(x, n)
  <1>1. NewJob(kind, m, ~AtWork(m)) \in Job
    BY DEF NewJob, Job, Reading
  <1>2. work'[w] = NewJob(kind, m, ~AtWork(m))
    BY DEF Begins
  <1>3. ASSUME NEW x \in Worker \ {w}
        PROVE  /\ work'[x] \in Job \cup {NoJob, [pc |-> "list"]}
               /\ work'[x].pc = work[x].pc
               /\ Alone(x)' => work'[x] = work[x] /\ work[x].mod # m
               /\ \A n \in Path : Reindexes(x, n)' <=> Reindexes(x, n)
    <2>1. CASE IsAbout(x, m)
      <3>1. work'[x] = [work[x] EXCEPT !.alone = FALSE]
        BY <2>1 DEF Begins
      <3>2. work[x] \in Job
        BY <2>1 DEF IsAbout, JobsOK, NoJob, Reading
      <3> QED
        BY <3>1, <3>2 DEF Job, Alone, Reindexes
    <2>2. CASE ~IsAbout(x, m)
      <3>1. work'[x] = work[x]
        BY <2>2 DEF Begins
      <3> QED
        BY <3>1, <2>2 DEF JobsOK, Alone, IsAbout, Reindexes
    <2> QED
      BY <2>1, <2>2
  <1>4. work' = [x \in Worker |-> work'[x]]
    BY DEF Begins
  <1> QED
    BY <1>1, <1>2, <1>3, <1>4

\* A request, or Backfill, begins to reindex a module: what it changed is of
\* that module only, and whoever was alone with it is so no more.
LEMMA BeginsInv ==
  ASSUME SearchInv, NEW w \in Worker, NEW kind \in Kind \cup {"Backfill"}, NEW m \in Path,
         work[w] = NoJob, Begins(w, kind, m), entry' = entry, stale' = stale,
         missing' \subseteq Path,
         published' \in [Path -> SUBSET Version], yanked' \in [Path -> SUBSET Version],
         \A n \in Path \ {m} : SameTables(n),
         w = Backfill => SameTables(m),
         kind = "Quarantine" => m \in quarantined'
  PROVE  SearchInv'
  <1> USE DEF SearchInv
  <1>1. /\ work' \in [Worker -> Job \cup {NoJob, [pc |-> "list"]}]
        /\ work'[w] = NewJob(kind, m, ~AtWork(m))
        /\ \A x \in Worker \ {w} : /\ work'[x].pc = work[x].pc
                                   /\ Alone(x)' => work'[x] = work[x] /\ work[x].mod # m
                                   /\ \A n \in Path : Reindexes(x, n)' <=> Reindexes(x, n)
    BY BeginsAlone
  <1>2. JobsOK'
    BY <1>1 DEF JobsOK
  <1>3. /\ work'[w].pc = "row" /\ work'[w].mod = m /\ work'[w].kind = kind
        /\ work'[w].alone = ~AtWork(m)
    BY <1>1 DEF NewJob
  <1>4. \A x \in Worker \ {w} : Alone(x)' => Alone(x) /\ work[x].mod \in Path \ {m}
    <2> SUFFICES ASSUME NEW x \in Worker \ {w}, Alone(x)' PROVE Alone(x) /\ work[x].mod \in Path \ {m}
      OBVIOUS
    <2>1. work'[x] = work[x] /\ work[x].mod # m
      BY <1>1
    <2>2. Alone(x)
      BY <2>1 DEF Alone
    <2>3. work[x] \in Job
      BY <2>2 DEF Alone, JobsOK, NoJob, Reading
    <2> QED
      BY <2>1, <2>2, <2>3 DEF Job
  <1>5. AloneIsAlone'
    <2> SUFFICES ASSUME NEW v \in Worker, NEW x \in Worker, Alone(v)', x # v
                 PROVE  ~Reindexes(x, work[v].mod)'
      BY DEF AloneIsAlone
    <2>1. CASE v = w
      <3>1. ~AtWork(m)
        BY <1>3, <2>1 DEF Alone
      <3>2. ~Reindexes(x, m)'
        BY <1>1, <2>1, <3>1 DEF AtWork
      <3> QED
        BY <1>3, <2>1, <3>2 DEF Reindexes
    <2>2. CASE v # w
      <3>1. Alone(v) /\ work[v].mod \in Path \ {m} /\ work'[v] = work[v]
        BY <1>1, <1>4, <2>2
      <3>2. ~Reindexes(x, work[v].mod)
        BY <3>1 DEF AloneIsAlone
      <3>3. x = w => ~(work'[x].pc \in Reading /\ work'[x].mod = work[v].mod)
        BY <1>3, <3>1
      <3>4. x # w => ~(work'[x].pc \in Reading /\ work'[x].mod = work[v].mod)
        <4> SUFFICES ASSUME x # w, work'[x].pc \in Reading, work'[x].mod = work[v].mod PROVE FALSE
          OBVIOUS
        <4>1. PICK n \in Path : n = work[v].mod
          BY <3>1
        <4>2. Reindexes(x, n)'
          BY <4>1 DEF Reindexes
        <4> QED
          BY <1>1, <3>2, <4>1, <4>2
      <3> QED
        BY <3>1, <3>3, <3>4 DEF Reindexes
    <2> QED
      BY <2>1, <2>2
  <1>6. ReadIsTrue'
    <2> SUFFICES ASSUME NEW v \in Worker, Alone(v)'
                 PROVE  (/\ work[v].pc \in {"versions", "entry"} =>
                              /\ work[v].quarantined = (work[v].mod \in quarantined)
                              /\ work[v].deprecated = (work[v].mod \in deprecated)
                         /\ work[v].pc = "entry" =>
                              work[v].versions = published[work[v].mod] \ yanked[work[v].mod])'
      BY DEF ReadIsTrue
    <2>1. CASE v = w
      BY <1>3, <2>1
    <2>2. CASE v # w
      <3>1. Alone(v) /\ work[v].mod \in Path \ {m} /\ work'[v] = work[v]
        BY <1>1, <1>4, <2>2
      <3>2. SameTables(work[v].mod)
        BY <3>1
      <3>3. (work[v].mod \in quarantined') = (work[v].mod \in quarantined)
            /\ (work[v].mod \in deprecated') = (work[v].mod \in deprecated)
        BY <3>2 DEF SameTables
      <3>4. /\ work[v].pc \in {"versions", "entry"} =>
                 /\ work[v].quarantined = (work[v].mod \in quarantined)
                 /\ work[v].deprecated = (work[v].mod \in deprecated)
            /\ work[v].pc = "entry" => work[v].versions = published[work[v].mod] \ yanked[work[v].mod]
        BY <3>1 DEF ReadIsTrue
      <3> QED
        BY <3>1, <3>2, <3>3, <3>4 DEF SameTables
    <2> QED
      BY <2>1, <2>2
  <1>7. QuarantineHolds'
    <2> SUFFICES ASSUME NEW v \in Worker, Alone(v)', work'[v].kind = "Quarantine"
                 PROVE  work'[v].mod \in quarantined'
      BY DEF QuarantineHolds
    <2>1. CASE v = w
      BY <1>3, <2>1
    <2>2. CASE v # w
      <3>1. Alone(v) /\ work[v].mod \in Path \ {m} /\ work'[v] = work[v]
        BY <1>1, <1>4, <2>2
      <3>2. SameTables(work[v].mod)
        BY <3>1
      <3> QED
        BY <3>1, <3>2 DEF SameTables, QuarantineHolds
    <2> QED
      BY <2>1, <2>2
  <1>8. QuarantineWorked'
    <2> SUFFICES ASSUME NEW h \in Handler, work'[h].pc = "ok", work'[h].kind = "Quarantine", work'[h].alone
                 PROVE  entry'[work'[h].mod] = NoEntry
      BY DEF QuarantineWorked
    <2>1. Alone(h)' /\ h \in Worker /\ h # w
      BY <1>3 DEF Alone, Worker
    <2>2. work'[h] = work[h]
      BY <1>1, <2>1
    <2> QED
      BY <2>2 DEF RequestsAreIndexed, QuarantineWorked
  <1>9. IndexIsCurrent'
    <2> SUFFICES ASSUME NEW n \in Path, n \notin stale, \A h \in Handler : ~Reindexes(h, n)'
                 PROVE  IsCurrent(n)'
      BY DEF IndexIsCurrent
    <2>1. SameTables(n)
      <3>1. CASE n = m
        BY <1>3, <3>1 DEF Reindexes, Reading, Worker
      <3> QED
        BY <3>1
    <2>2. \A h \in Handler : ~Reindexes(h, n)
      <3> SUFFICES ASSUME NEW h \in Handler, Reindexes(h, n) PROVE FALSE
        OBVIOUS
      <3>1. h # w
        BY DEF Reindexes, NoJob, Reading
      <3> QED
        BY <1>1, <3>1 DEF Worker
    <2>3. IsCurrent(n)
      BY <2>2 DEF RequestsAreIndexed, IndexIsCurrent
    <2>4. EntryOf(published'[n] \ yanked'[n], n \in quarantined', n \in deprecated')
          = EntryOf(published[n] \ yanked[n], n \in quarantined, n \in deprecated)
      BY <2>1 DEF SameTables, EntryOf
    <2> QED
      BY <2>3, <2>4 DEF IsCurrent
  <1> QED
    BY <1>2, <1>5, <1>6, <1>7, <1>8, <1>9 DEF RequestsAreIndexed

\* What w did on its job is what it goes on with, or the job is over.
Continues(w, j) ==
  /\ j \in Job \cup {NoJob, [pc |-> "list"]}
  /\ work' = [work EXCEPT ![w] = j]
  /\ (j \in Job /\ (j.alone \/ j.pc \in Reading)) =>
        /\ work[w] \in Job
        /\ j.mod = work[w].mod /\ j.kind = work[w].kind /\ j.alone = work[w].alone
        /\ j.pc \in Reading => work[w].pc \in Reading
        /\ (j.alone /\ j.pc \in {"versions", "entry"}) =>
             /\ j.quarantined = (j.mod \in quarantined)
             /\ j.deprecated = (j.mod \in deprecated)
        /\ (j.alone /\ j.pc = "entry") => j.versions = published[j.mod] \ yanked[j.mod]

\* A job that goes on, or ends, keeps what is known of the jobs.
LEMMA ContinuesInv ==
  ASSUME SearchInv, NEW w \in Worker, NEW j, Continues(w, j), UNCHANGED sourceVars,
         missing' \subseteq Path, entry' = [m \in Path |-> entry'[m]]
  PROVE  JobsOK' /\ AloneIsAlone' /\ ReadIsTrue' /\ QuarantineHolds'
  <1> USE DEF SearchInv, sourceVars
  <1>1. /\ work' \in [Worker -> Job \cup {NoJob, [pc |-> "list"]}]
        /\ work'[w] = j
        /\ \A x \in Worker \ {w} : work'[x] = work[x]
    BY DEF Continues, JobsOK
  <1>2. JobsOK'
    BY <1>1 DEF JobsOK
  <1>3. ASSUME Alone(w)'
        PROVE  /\ Alone(w)
               /\ j.mod = work[w].mod /\ j.kind = work[w].kind
               /\ j \in Job /\ j.alone
    <2>1. j \in Job /\ j.alone
      BY <1>1, <1>3 DEF Alone, Continues, NoJob, Reading
    <2> QED
      BY <2>1 DEF Alone, Continues, Job
  <1>4. \A x \in Worker : \A n : Reindexes(x, n)' => Reindexes(x, n)
    <2> SUFFICES ASSUME NEW x \in Worker, NEW n, Reindexes(x, n)' PROVE Reindexes(x, n)
      OBVIOUS
    <2>1. CASE x = w
      <3>1. j.pc \in Reading /\ j.mod = n
        BY <1>1, <2>1 DEF Reindexes
      <3>2. j \in Job
        BY <3>1 DEF Continues, NoJob, Reading
      <3> QED
        BY <2>1, <3>1, <3>2 DEF Reindexes, Continues
    <2>2. CASE x # w
      BY <1>1, <2>2 DEF Reindexes
    <2> QED
      BY <2>1, <2>2
  <1>5. \A v \in Worker : Alone(v)' => Alone(v) /\ work'[v].mod = work[v].mod
                                        /\ work'[v].kind = work[v].kind
    BY <1>1, <1>3 DEF Alone
  <1>6. AloneIsAlone'
    <2> SUFFICES ASSUME NEW v \in Worker, NEW x \in Worker, Alone(v)', x # v, Reindexes(x, work[v].mod)'
                 PROVE  FALSE
      BY DEF AloneIsAlone
    <2>1. Alone(v) /\ work'[v].mod = work[v].mod
      BY <1>5
    <2>2. work'[x].pc \in Reading /\ work'[x].mod = work'[v].mod
      BY DEF Reindexes
    <2>3. Reindexes(x, work[v].mod)
      BY <1>4, <2>1, <2>2 DEF Reindexes
    <2> QED
      BY <2>1, <2>3 DEF AloneIsAlone
  <1>7. ReadIsTrue'
    <2> SUFFICES ASSUME NEW v \in Worker, Alone(v)'
                 PROVE  (/\ work[v].pc \in {"versions", "entry"} =>
                              /\ work[v].quarantined = (work[v].mod \in quarantined)
                              /\ work[v].deprecated = (work[v].mod \in deprecated)
                         /\ work[v].pc = "entry" =>
                              work[v].versions = published[work[v].mod] \ yanked[work[v].mod])'
      BY DEF ReadIsTrue
    <2>1. CASE v = w
      BY <1>1, <1>3, <2>1 DEF Continues
    <2>2. CASE v # w
      BY <1>1, <1>5, <2>2 DEF ReadIsTrue
    <2> QED
      BY <2>1, <2>2
  <1>8. QuarantineHolds'
    BY <1>5 DEF QuarantineHolds
  <1> QED
    BY <1>2, <1>6, <1>7, <1>8

\* Only the entry of a module that nobody else reindexes can have changed.
LEMMA WriteEntryInv ==
  ASSUME SearchInv, NEW w \in Worker, WriteEntry(w)
  PROVE  SearchInv'
  <1> USE DEF SearchInv
  <1> DEFINE j == work[w]
             k == IF w = Backfill THEN NoJob ELSE [j EXCEPT !.pc = "ok"]
             new == EntryOf(j.versions, j.quarantined, j.deprecated)
  <1>1. j \in Job /\ j.pc = "entry" /\ j.mod \in Path
    BY DEF WriteEntry, JobsOK, NoJob, Job
  <1>2. Continues(w, k) /\ UNCHANGED sourceVars
    <2>1. work' = [work EXCEPT ![w] = k]
      BY <1>1 DEF WriteEntry, JobsOK
    <2>2. w # Backfill => k \in Job /\ k.pc = "ok" /\ k.mod = j.mod /\ k.kind = j.kind /\ k.alone = j.alone
      BY <1>1 DEF Job
    <2>3. w = Backfill => k = NoJob /\ k \notin Job
      <3> SUFFICES NoJob \notin Job
        OBVIOUS
      <3> QED
        BY DEF NoJob, Job, Reading
    <2> HIDE DEF k
    <2>4. "ok" \notin Reading
      BY DEF Reading
    <2> QED
      BY <1>1, <2>1, <2>2, <2>3, <2>4 DEF Continues, WriteEntry
  <1>3. entry' = [entry EXCEPT ![j.mod] = new]
    BY DEF WriteEntry
  <1>4. entry' = [m \in Path |-> entry'[m]] /\ missing' \subseteq Path
    BY <1>3 DEF JobsOK, WriteEntry
  <1>5. JobsOK' /\ AloneIsAlone' /\ ReadIsTrue' /\ QuarantineHolds'
    BY <1>2, <1>4, ContinuesInv
  <1>6. /\ entry'[j.mod] = new
        /\ \A m \in Path \ {j.mod} : entry'[m] = entry[m]
    BY <1>1, <1>3 DEF JobsOK
  <1>7. work'[w] = k /\ \A x \in Worker \ {w} : work'[x] = work[x]
    BY <1>2 DEF Continues, JobsOK
  <1>8. QuarantineWorked'
    <2> SUFFICES ASSUME NEW h \in Handler, work'[h].pc = "ok", work'[h].kind = "Quarantine", work'[h].alone
                 PROVE  entry'[work'[h].mod] = NoEntry
      BY DEF QuarantineWorked
    <2>1. h \in Worker
      BY DEF Worker
    <2>2. CASE h = w
      <3>1. work'[h] = [j EXCEPT !.pc = "ok"]
        BY <1>7, <2>2, SearchConstants
      <3>2. work'[h].mod = j.mod /\ j.kind = "Quarantine" /\ j.alone
        BY <1>1, <3>1 DEF Job
      <3>3. Alone(w)
        BY <1>1, <3>2 DEF Alone, Reading
      <3>4. j.quarantined
        BY <1>1, <3>2, <3>3 DEF ReadIsTrue, QuarantineHolds
      <3> QED
        BY <1>6, <3>2, <3>4 DEF EntryOf
    <2>3. CASE h # w
      <3>1. work'[h] = work[h]
        BY <1>7, <2>1, <2>3
      <3>2. Alone(h) /\ work[h].mod \in Path
        BY <2>1, <3>1 DEF Alone, JobsOK, NoJob, Job
      <3>3. work[h].mod # j.mod
        BY <1>1, <2>1, <2>3, <3>2 DEF AloneIsAlone, Reindexes, Reading
      <3> QED
        BY <1>6, <3>1, <3>2, <3>3 DEF RequestsAreIndexed, QuarantineWorked
    <2> QED
      BY <2>2, <2>3
  <1>9. IndexIsCurrent'
    <2> SUFFICES ASSUME NEW m \in Path, m \notin stale', \A h \in Handler : ~Reindexes(h, m)'
                 PROVE  IsCurrent(m)'
      BY DEF IndexIsCurrent
    <2>0. UNCHANGED <<published, yanked, quarantined, deprecated>>
      BY <1>2 DEF sourceVars
    <2>1. CASE m = j.mod
      <3>1. j.alone
        BY <2>1 DEF WriteEntry
      <3>2. Alone(w)
        BY <1>1, <3>1 DEF Alone, Reading
      <3>3. new = EntryOf(published[m] \ yanked[m], m \in quarantined, m \in deprecated)
        BY <1>1, <2>1, <3>2 DEF ReadIsTrue
      <3> HIDE DEF new
      <3> QED
        BY <1>6, <2>0, <2>1, <3>3 DEF IsCurrent
    <2>2. CASE m # j.mod
      <3>1. m \notin stale
        BY <2>2 DEF WriteEntry
      <3>2. \A h \in Handler : ~Reindexes(h, m)
        <4> SUFFICES ASSUME NEW h \in Handler, Reindexes(h, m) PROVE FALSE
          OBVIOUS
        <4>1. h # w /\ h \in Worker
          BY <2>2 DEF Reindexes, Worker
        <4> QED
          BY <1>7, <4>1 DEF Reindexes
      <3>3. IsCurrent(m)
        BY <3>1, <3>2 DEF RequestsAreIndexed, IndexIsCurrent
      <3> QED
        BY <1>6, <2>0, <2>2, <3>3 DEF IsCurrent
    <2> QED
      BY <2>1, <2>2
  <1> QED
    BY <1>5, <1>8, <1>9 DEF RequestsAreIndexed

\* While no entry and no table changes, the index stays current, except of
\* modules whose reindexing broke off.
LEMMA SameEntryInv ==
  ASSUME SearchInv, UNCHANGED sourceVars, entry' = entry, stale \subseteq stale',
         \A h \in Handler, m \in Path : Reindexes(h, m) => m \in stale' \/ Reindexes(h, m)',
         \A h \in Handler : (work'[h].pc = "ok" /\ work'[h].kind = "Quarantine" /\ work'[h].alone)
                               => work'[h] = work[h]
  PROVE  RequestsAreIndexed'
  <1>1. QuarantineWorked'
    BY DEF SearchInv, RequestsAreIndexed, QuarantineWorked
  <1>2. IndexIsCurrent'
    <2> SUFFICES ASSUME NEW m \in Path, m \notin stale', \A h \in Handler : ~Reindexes(h, m)'
                 PROVE  IsCurrent(m)'
      BY DEF IndexIsCurrent
    <2>1. m \notin stale /\ \A h \in Handler : ~Reindexes(h, m)
      OBVIOUS
    <2>2. IsCurrent(m)
      BY <2>1 DEF SearchInv, RequestsAreIndexed, IndexIsCurrent
    <2> QED
      BY <2>2 DEF IsCurrent, sourceVars
  <1> QED
    BY <1>1, <1>2 DEF RequestsAreIndexed

\* The steps of a job, except its first and last.
LEMMA ReadRowInv ==
  ASSUME SearchInv, NEW w \in Worker, ReadRow(w)
  PROVE  SearchInv'
  <1> USE DEF SearchInv
  <1> DEFINE j == [work[w] EXCEPT !.quarantined = work[w].mod \in quarantined,
                                  !.deprecated = work[w].mod \in deprecated,
                                  !.pc = "versions"]
  <1>1. work[w] \in Job /\ work[w].pc = "row"
    BY DEF ReadRow, JobsOK, NoJob
  <1>2. /\ j \in Job /\ j.mod = work[w].mod /\ j.kind = work[w].kind /\ j.alone = work[w].alone
        /\ j.pc = "versions"
        /\ j.quarantined = (j.mod \in quarantined) /\ j.deprecated = (j.mod \in deprecated)
    <2> DEFINE q == work[w].mod \in quarantined
               d == work[w].mod \in deprecated
    <2>1. q \in BOOLEAN /\ d \in BOOLEAN
      OBVIOUS
    <2> HIDE DEF q, d
    <2> DEFINE k == [work[w] EXCEPT !.quarantined = q, !.deprecated = d, !.pc = "versions"]
    <2>2. /\ k \in Job /\ k.mod = work[w].mod /\ k.kind = work[w].kind /\ k.alone = work[w].alone
          /\ k.pc = "versions" /\ k.quarantined = q /\ k.deprecated = d
      BY <1>1, <2>1 DEF Job, Reading
    <2>3. k = j
      BY DEF q, d
    <2> HIDE DEF k, j
    <2> QED
      BY <2>2, <2>3, Zenon DEF q, d
  <1>3. work' = [work EXCEPT ![w] = j] /\ UNCHANGED <<sourceVars, entry, missing, stale>>
    BY <1>1 DEF ReadRow, JobsOK, Job
  <1> HIDE DEF j
  <1>4. Continues(w, j)
    BY <1>1, <1>2, <1>3 DEF Continues, Reading
  <1>5. JobsOK' /\ AloneIsAlone' /\ ReadIsTrue' /\ QuarantineHolds'
    BY <1>3, <1>4, ContinuesInv DEF JobsOK
  <1>6. work'[w] = j /\ \A x \in Worker \ {w} : work'[x] = work[x]
    BY <1>3 DEF JobsOK
  <1>7. \A h \in Handler, m \in Path : Reindexes(h, m) => Reindexes(h, m)'
    BY <1>2, <1>6 DEF Reindexes, Reading, Worker
  <1>8. \A h \in Handler : work'[h].pc = "ok" => work'[h] = work[h]
    BY <1>2, <1>6 DEF Worker
  <1> QED
    BY <1>3, <1>5, <1>7, <1>8, SameEntryInv

\* The versions are read: with the two conditions that were read before, they
\* are what the tables say as long as the job is alone.
LEMMA ReadVersionsInv ==
  ASSUME SearchInv, NEW w \in Worker, ReadVersions(w)
  PROVE  SearchInv'
  <1> USE DEF SearchInv
  <1> DEFINE j == [work[w] EXCEPT !.versions = Installable(work[w].mod), !.pc = "entry"]
  <1>1. work[w] \in Job /\ work[w].pc = "versions"
    BY DEF ReadVersions, JobsOK, NoJob
  <1>2. /\ j \in Job /\ j.mod = work[w].mod /\ j.kind = work[w].kind /\ j.alone = work[w].alone
        /\ j.pc = "entry"
        /\ j.quarantined = work[w].quarantined /\ j.deprecated = work[w].deprecated
        /\ j.versions = published[j.mod] \ yanked[j.mod]
    BY <1>1 DEF Job, Reading, Installable, JobsOK
  <1>3. work' = [work EXCEPT ![w] = j] /\ UNCHANGED <<sourceVars, entry, missing, stale>>
    BY <1>1 DEF ReadVersions, JobsOK, Job
  <1>4. j.alone => /\ j.quarantined = (j.mod \in quarantined)
                   /\ j.deprecated = (j.mod \in deprecated)
    BY <1>1, <1>2 DEF ReadIsTrue, Alone, Reading
  <1> HIDE DEF j
  <1>5. Continues(w, j)
    BY <1>1, <1>2, <1>3, <1>4 DEF Continues, Reading
  <1>6. JobsOK' /\ AloneIsAlone' /\ ReadIsTrue' /\ QuarantineHolds'
    BY <1>3, <1>5, ContinuesInv DEF JobsOK
  <1>7. work'[w] = j /\ \A x \in Worker \ {w} : work'[x] = work[x]
    BY <1>3 DEF JobsOK
  <1>8. \A h \in Handler, m \in Path : Reindexes(h, m) => Reindexes(h, m)'
    BY <1>2, <1>7 DEF Reindexes, Reading, Worker
  <1>9. \A h \in Handler : work'[h].pc = "ok" => work'[h] = work[h]
    BY <1>2, <1>7 DEF Worker
  <1> QED
    BY <1>3, <1>6, <1>8, <1>9, SameEntryInv

\* A quarantine whose reindexing fails is answered with the error.
LEMMA IndexFailsInv ==
  ASSUME SearchInv, NEW h \in Handler, IndexFails(h)
  PROVE  SearchInv'
  <1> USE DEF SearchInv
  <1>1. h \in Worker /\ work[h] \in Job /\ work[h].pc \in Reading
    BY DEF IndexFails, JobsOK, NoJob, Reading, Worker
  <1>2. PICK answer \in {"ok", "error"} :
          /\ work[h].kind = "Quarantine" => answer = "error"
          /\ work' = [work EXCEPT ![h].pc = answer]
    <2>1. PICK answer \in (IF work[h].kind \in {"Quarantine", "Release"} THEN {"error"}
                           ELSE {"ok", "error"}) : work' = [work EXCEPT ![h].pc = answer]
      BY DEF IndexFails
    <2> QED
      BY <2>1
  <1> DEFINE j == [work[h] EXCEPT !.pc = answer]
  <1>3. /\ j \in Job /\ j.mod = work[h].mod /\ j.kind = work[h].kind /\ j.alone = work[h].alone
        /\ j.pc = answer
    BY <1>1, <1>2 DEF Job
  <1>4. work' = [work EXCEPT ![h] = j]
    BY <1>1, <1>2 DEF JobsOK
  <1>5. /\ UNCHANGED <<sourceVars, entry, missing>>
        /\ stale' = stale \cup {work[h].mod}
    BY DEF IndexFails
  <1> HIDE DEF j
  <1>6. Continues(h, j)
    BY <1>1, <1>2, <1>3, <1>4 DEF Continues, Reading
  <1>7. JobsOK' /\ AloneIsAlone' /\ ReadIsTrue' /\ QuarantineHolds'
    BY <1>1, <1>5, <1>6, ContinuesInv DEF JobsOK
  <1>8. work'[h] = j /\ \A x \in Worker \ {h} : work'[x] = work[x]
    BY <1>1, <1>4 DEF JobsOK
  <1>9. \A g \in Handler, m \in Path : Reindexes(g, m) => m \in stale' \/ Reindexes(g, m)'
    BY <1>5, <1>8 DEF Reindexes, Worker
  <1>10. \A g \in Handler : (work'[g].pc = "ok" /\ work'[g].kind = "Quarantine") => work'[g] = work[g]
    BY <1>2, <1>3, <1>8 DEF Worker
  <1> QED
    BY <1>5, <1>7, <1>9, <1>10, SameEntryInv

\* A job that is over leaves all as it is.
LEMMA OverInv ==
  ASSUME SearchInv, NEW w \in Worker, work' = [work EXCEPT ![w] = NoJob], UNCHANGED sourceVars,
         entry' = entry, missing' \subseteq Path, stale' = stale,
         w \in Handler => work[w].pc \notin Reading
  PROVE  SearchInv'
  <1> USE DEF SearchInv
  <1>1. NoJob \notin Job /\ NoJob.pc = "idle"
    BY DEF NoJob, Job, Reading
  <1>2. Continues(w, NoJob)
    BY <1>1 DEF Continues
  <1>3. JobsOK' /\ AloneIsAlone' /\ ReadIsTrue' /\ QuarantineHolds'
    BY <1>2, ContinuesInv DEF JobsOK
  <1>4. work'[w] = NoJob /\ \A x \in Worker \ {w} : work'[x] = work[x]
    BY DEF JobsOK
  <1>5. \A h \in Handler, m \in Path : Reindexes(h, m) => Reindexes(h, m)'
    BY <1>4 DEF Reindexes, Worker
  <1>6. \A h \in Handler : work'[h].pc = "ok" => work'[h] = work[h]
    BY <1>1, <1>4 DEF Worker
  <1> QED
    BY <1>3, <1>5, <1>6, SameEntryInv

\* Answered at once, because there was nothing to change.
LEMMA NothingInv ==
  ASSUME SearchInv, NEW h \in Handler, NEW kind \in Kind, NEW m \in Path,
         kind # "Quarantine", Nothing(h, kind, m)
  PROVE  SearchInv'
  <1> USE DEF SearchInv
  <1> DEFINE j == [NewJob(kind, m, FALSE) EXCEPT !.pc = "ok"]
  <1>1. j \in Job /\ j.pc = "ok" /\ j.kind = kind /\ ~j.alone
    BY DEF NewJob, Job, Reading
  <1>2. h \in Worker /\ work[h] = NoJob /\ work' = [work EXCEPT ![h] = j]
    BY DEF Nothing, Worker
  <1>3. UNCHANGED <<sourceVars, entry, missing, stale>>
    BY DEF Nothing
  <1> HIDE DEF j
  <1>4. Continues(h, j)
    BY <1>1, <1>2 DEF Continues, Reading
  <1>5. JobsOK' /\ AloneIsAlone' /\ ReadIsTrue' /\ QuarantineHolds'
    BY <1>2, <1>3, <1>4, ContinuesInv DEF JobsOK
  <1>6. work'[h] = j /\ \A x \in Worker \ {h} : work'[x] = work[x]
    BY <1>2 DEF JobsOK
  <1>7. \A g \in Handler, n \in Path : Reindexes(g, n) => Reindexes(g, n)'
    BY <1>2, <1>6 DEF Reindexes, Worker, NoJob, Reading
  <1>8. \A g \in Handler : (work'[g].pc = "ok" /\ work'[g].kind = "Quarantine") => work'[g] = work[g]
    BY <1>1, <1>6 DEF Worker
  <1> QED
    BY <1>3, <1>5, <1>7, <1>8, SameEntryInv

\* After a restart nobody is at work, and what somebody was at is stale.
LEMMA ServerRestartsInv == SearchInv /\ ServerRestarts => SearchInv'
  <1> SUFFICES ASSUME SearchInv, ServerRestarts PROVE SearchInv'
    OBVIOUS
  <1> USE DEF SearchInv
  <1>1. \A w \in Worker : /\ work'[w] \in {NoJob, [pc |-> "list"]}
                          /\ work'[w].pc \in {"idle", "list"}
    BY DEF ServerRestarts, Started, NoJob
  <1>2. work' \in [Worker -> Job \cup {NoJob, [pc |-> "list"]}]
    BY DEF ServerRestarts, Started
  <1>3. UNCHANGED <<sourceVars, entry>> /\ missing' = {} /\ stale' = stale \cup {m \in Path : AtWork(m)}
    BY DEF ServerRestarts
  <1>4. JobsOK'
    BY <1>2, <1>3 DEF JobsOK, sourceVars
  <1>5. \A w \in Worker : ~Alone(w)'
    BY <1>1 DEF Alone, Reading
  <1>6. AloneIsAlone' /\ ReadIsTrue' /\ QuarantineHolds'
    BY <1>5 DEF AloneIsAlone, ReadIsTrue, QuarantineHolds
  <1>7. \A h \in Handler, m \in Path : Reindexes(h, m) => m \in stale'
    BY <1>3 DEF AtWork, Worker
  <1>8. \A h \in Handler : work'[h].pc # "ok"
    BY <1>1 DEF Worker
  <1> QED
    BY <1>3, <1>4, <1>6, <1>7, <1>8, SameEntryInv

\* Nothing is published, so nothing is to be found.
LEMMA SearchInitInv == SearchInit => SearchInv
  <1> SUFFICES ASSUME SearchInit PROVE SearchInv
    OBVIOUS
  <1>1. \A w \in Worker : /\ work[w] \in {NoJob, [pc |-> "list"]}
                          /\ work[w].pc \in {"idle", "list"}
    BY DEF SearchInit, Started, NoJob
  <1>2. JobsOK
    BY DEF SearchInit, Unindexed, Started, JobsOK
  <1>3. \A w \in Worker : ~Alone(w)
    BY <1>1 DEF Alone, Reading
  <1>4. \A h \in Handler : work[h].pc # "ok"
    BY <1>1 DEF Worker
  <1>5. \A m \in Path : IsCurrent(m)
    BY DEF SearchInit, Unindexed, IsCurrent, EntryOf
  <1> QED
    BY <1>2, <1>3, <1>4, <1>5
    DEF SearchInv, AloneIsAlone, ReadIsTrue, QuarantineHolds, RequestsAreIndexed, QuarantineWorked,
        IndexIsCurrent

\* Every step keeps the invariant.
LEMMA SearchInvStep == SearchInv /\ [SearchNext]_searchVars => SearchInv'
  <1> SUFFICES ASSUME SearchInv, [SearchNext]_searchVars PROVE SearchInv'
    OBVIOUS
  <1>1. ASSUME NEW h \in Handler, Request(h) PROVE SearchInv'
    <2>1. CASE \E kind \in Kind, m \in Path : Requests(h, kind, m)
      <3>1. PICK kind \in Kind, m \in Path : Requests(h, kind, m)
        BY <2>1
      <3>2. h \in Worker /\ h # Backfill
        BY SearchConstants DEF Worker
      <3> QED
        BY <3>1, <3>2, BeginsInv DEF Requests, SearchInv, JobsOK
    <2>2. CASE \E kind \in Kind, m \in Path : kind # "Quarantine" /\ Nothing(h, kind, m)
      BY <2>2, NothingInv
    <2> QED
      BY <1>1, <2>1, <2>2, RequestBegins DEF SearchInv
  <1>2. ASSUME NEW h \in Handler, Respond(h) PROVE SearchInv'
    <2>1. h \in Worker /\ work[h].pc \notin Reading
      BY <1>2 DEF Respond, Worker, Reading
    <2> QED
      BY <1>2, <2>1, OverInv DEF Respond, SearchInv, JobsOK
  <1>3. BackfillList => SearchInv'
    <2> SUFFICES ASSUME BackfillList PROVE SearchInv'
      OBVIOUS
    <2>1. Backfill \in Worker /\ Backfill \notin Handler
      BY SearchConstants DEF Worker
    <2> QED
      BY <2>1, OverInv DEF BackfillList, UnindexedModules
  <1>4. BackfillFails => SearchInv'
    <2> SUFFICES ASSUME BackfillFails PROVE SearchInv'
      OBVIOUS
    <2>1. Backfill \in Worker /\ Backfill \notin Handler
      BY SearchConstants DEF Worker
    <2> QED
      BY <2>1, OverInv DEF BackfillFails
  <1>5. BackfillNext => SearchInv'
    <2> SUFFICES ASSUME BackfillNext PROVE SearchInv'
      OBVIOUS
    <2>1. PICK m \in missing : missing' = missing \ {m} /\ Begins(Backfill, "Backfill", m)
      BY DEF BackfillNext
    <2>2. Backfill \in Worker /\ m \in Path /\ work[Backfill] = NoJob /\ missing' \subseteq Path
      BY <2>1 DEF Worker, SearchInv, JobsOK, BackfillNext
    <2>3. UNCHANGED <<published, yanked, deprecated, quarantined, entry, stale>>
      BY DEF BackfillNext, sourceVars
    <2>4. \A n \in Path : SameTables(n)
      BY <2>3 DEF SameTables
    <2> QED
      BY <2>1, <2>2, <2>3, <2>4, BeginsInv DEF SearchInv, JobsOK
  <1>6. CASE UNCHANGED searchVars
    BY <1>6 DEF searchVars, sourceVars, indexVars, SearchInv, JobsOK, Alone, AloneIsAlone,
                ReadIsTrue, QuarantineHolds, RequestsAreIndexed, QuarantineWorked, IndexIsCurrent,
                Reindexes, IsCurrent
  <1> QED
    BY <1>1, <1>2, <1>3, <1>4, <1>5, <1>6, IndexFailsInv, ReadRowInv, ReadVersionsInv,
       WriteEntryInv, ServerRestartsInv DEF SearchNext, Reindex, BackfillStep

\* Whatever is changed at the same time, fails or is cut off by a restart: of
\* a module whose last reindexing came to its end and was alone, search shows
\* what the tables say, until somebody is at work on it again; and a
\* quarantine that was answered with success is hidden.
THEOREM SearchFollowsTheTables == SearchSpec => []RequestsAreIndexed
  <1>1. SearchInv => RequestsAreIndexed
    BY DEF SearchInv
  <1> QED
    BY <1>1, SearchInitInv, SearchInvStep, PTL DEF SearchSpec

\* What the tables hold is well formed: only versions there are can be yanked,
\* and only modules there are deprecated or quarantined.
TablesOK ==
  /\ \A m \in Path : IsFiniteSet(published[m]) /\ yanked[m] \subseteq published[m]
  /\ deprecated \cup quarantined \subseteq {m \in Path : published[m] # {}}

\* A job has read finitely many versions.
JobsAreFinite == \A w \in Worker : work[w].pc \in Reading \cup {"ok", "error"} => IsFiniteSet(work[w].versions)

EntriesOK == entry \in [Path -> Entry \cup {NoEntry}]

\* The inductive invariant of the types of the search index.  An entry shows a
\* version because what a job reads is finitely many.
SearchTypes ==
  /\ SearchInv
  /\ TablesOK
  /\ JobsAreFinite
  /\ EntriesOK
  /\ stale \subseteq Path
  /\ restarts \in 0..MaxRestart

\* An entry shows one of the versions.
LEMMA EntryOfVersions ==
  ASSUME NEW vs \in SUBSET Version, IsFiniteSet(vs), NEW q, NEW d \in BOOLEAN
  PROVE  EntryOf(vs, q, d) \in Entry \cup {NoEntry}
  <1>1. CASE vs = {} \/ q
    BY <1>1 DEF EntryOf
  <1>2. CASE ~(vs = {} \/ q)
    <2>1. vs \in SUBSET Nat /\ vs \ Prerelease \in SUBSET Nat /\ IsFiniteSet(vs \ Prerelease)
      BY FS_Difference, SearchConstants
    <2>2. Latest(vs) \in vs
      <3>1. CASE vs \ Prerelease # {}
        BY <2>1, <3>1, MaxIs DEF Latest
      <3>2. CASE vs \ Prerelease = {}
        BY <1>2, <2>1, <3>2, MaxIs DEF Latest
      <3> QED
        BY <3>1, <3>2
    <2> QED
      BY <1>2, <2>2 DEF EntryOf, Entry
  <1> QED
    BY <1>1, <1>2

\* Every step keeps the tables well formed.
LEMMA TablesKept == JobsOK /\ TablesOK /\ [SearchNext]_searchVars => TablesOK'
  <1> SUFFICES ASSUME JobsOK, TablesOK, [SearchNext]_searchVars PROVE TablesOK'
    OBVIOUS
  <1>1. ASSUME NEW h \in Handler, NEW m \in Path, NEW v \in Version, Publish(h, m, v) PROVE TablesOK'
    <2>1. IsFiniteSet(published[m] \cup {v})
      BY FS_AddElement DEF TablesOK
    <2>2. \A n \in Path : published'[n] = (IF n = m THEN published[m] \cup {v} ELSE published[n])
      BY <1>1 DEF Publish, JobsOK
    <2>3. UNCHANGED <<yanked, deprecated, quarantined>>
      BY <1>1 DEF Publish
    <2> QED
      BY <2>1, <2>2, <2>3 DEF TablesOK
  <1>2. ASSUME NEW h \in Handler, NEW m \in Path, NEW v \in Version, Yank(h, m, v) \/ Unyank(h, m, v) PROVE TablesOK'
    <2>1. \A n \in Path : yanked'[n] \subseteq published[n]
      <3>1. v \in published[m] /\ \A n \in Path : yanked[n] \subseteq published[n]
        BY <1>2 DEF Yank, Unyank, TablesOK
      <3>2. \/ yanked' = yanked
            \/ yanked' = [yanked EXCEPT ![m] = @ \cup {v}]
            \/ yanked' = [yanked EXCEPT ![m] = @ \ {v}]
        BY <1>2 DEF Yank, Unyank, Nothing, sourceVars
      <3>3. \A n \in Path : yanked'[n] \subseteq yanked[n] \cup (IF n = m THEN {v} ELSE {})
        BY <3>2 DEF JobsOK
      <3> QED
        BY <3>1, <3>3
    <2>2. UNCHANGED <<published, deprecated, quarantined>>
      BY <1>2 DEF Yank, Unyank, Nothing, sourceVars
    <2> QED
      BY <2>1, <2>2 DEF TablesOK
  <1>3. ASSUME NEW h \in Handler, NEW m \in Path,
               Deprecate(h, m) \/ Undeprecate(h, m) \/ Quarantine(h, m) \/ Release(h, m)
        PROVE  TablesOK'
    <2>1. UNCHANGED <<published, yanked>>
      BY <1>3 DEF Deprecate, Undeprecate, Quarantine, Release
    <2>2. published[m] # {} /\ deprecated' \cup quarantined' \subseteq deprecated \cup quarantined \cup {m}
      BY <1>3 DEF Deprecate, Undeprecate, Quarantine, Release
    <2> QED
      BY <2>1, <2>2 DEF TablesOK
  <1>4. CASE UNCHANGED sourceVars
    BY <1>4 DEF TablesOK, sourceVars
  <1>5. CASE ~(\E h \in Handler : Request(h)) /\ SearchNext
    BY <1>4, <1>5 DEF SearchNext, IndexFails, Respond, Reindex, ReadRow, ReadVersions, WriteEntry, BackfillStep,
                      BackfillList, BackfillNext, BackfillFails, ServerRestarts
  <1>6. UNCHANGED searchVars => UNCHANGED sourceVars
    BY DEF searchVars, sourceVars
  <1> QED
    BY <1>1, <1>2, <1>3, <1>4, <1>5, <1>6 DEF Request

\* Whoever begins, or was done, has read nothing yet.
LEMMA BeginsFinite ==
  ASSUME JobsOK, JobsAreFinite, NEW w \in Worker, NEW kind \in Kind \cup {"Backfill"}, NEW m \in Path,
         Begins(w, kind, m)
  PROVE  JobsAreFinite'
  <1> SUFFICES ASSUME NEW x \in Worker, work'[x].pc \in Reading \cup {"ok", "error"} PROVE IsFiniteSet(work'[x].versions)
    BY DEF JobsAreFinite
  <1>1. CASE x = w
    BY <1>1, FS_EmptySet DEF Begins, NewJob
  <1>2. CASE x # w /\ IsAbout(x, m)
    <2>1. work[x] \in Job /\ work[x].pc \in Reading \cup {"ok", "error"}
      BY <1>2 DEF IsAbout, JobsOK, NoJob, Reading
    <2>2. work'[x] = [work[x] EXCEPT !.alone = FALSE]
      BY <1>2 DEF Begins
    <2> QED
      BY <2>1, <2>2 DEF Job, JobsAreFinite
  <1>3. CASE x # w /\ ~IsAbout(x, m)
    <2>1. work'[x] = work[x]
      BY <1>3 DEF Begins
    <2> QED
      BY <2>1 DEF JobsAreFinite
  <1> QED
    BY <1>1, <1>2, <1>3

\* One job changes, and has read no more than finitely many versions.
LEMMA OneJobFinite ==
  ASSUME JobsOK, JobsAreFinite, NEW w \in Worker, NEW j, work' = [work EXCEPT ![w] = j],
         j.pc \in Reading \cup {"ok", "error"} => IsFiniteSet(j.versions)
  PROVE  JobsAreFinite'
  BY DEF JobsOK, JobsAreFinite

\* Every step keeps what the jobs have read finite.
LEMMA JobsKept == JobsOK /\ TablesOK /\ JobsAreFinite /\ [SearchNext]_searchVars => JobsAreFinite'
  <1> SUFFICES ASSUME JobsOK, TablesOK, JobsAreFinite, [SearchNext]_searchVars PROVE JobsAreFinite'
    OBVIOUS
  <1>0. NoJob.pc \notin Reading \cup {"ok", "error"}
    BY DEF NoJob, Reading
  <1>1. ASSUME NEW h \in Handler, Request(h) PROVE JobsAreFinite'
    <2>1. h \in Worker
      BY DEF Worker
    <2>2. ASSUME NEW kind \in Kind, NEW m \in Path, Requests(h, kind, m) PROVE JobsAreFinite'
      BY <2>1, <2>2, BeginsFinite DEF Requests, Begin
    <2>3. ASSUME NEW kind \in Kind, NEW m \in Path, Nothing(h, kind, m) PROVE JobsAreFinite'
      <3> DEFINE j == [NewJob(kind, m, FALSE) EXCEPT !.pc = "ok"]
      <3>1. IsFiniteSet(j.versions)
        BY FS_EmptySet DEF NewJob
      <3>2. work' = [work EXCEPT ![h] = j]
        BY <2>3 DEF Nothing
      <3> HIDE DEF j
      <3> QED
        BY <2>1, <3>1, <3>2, OneJobFinite
    <2> QED
      BY <1>1, <2>2, <2>3, RequestBegins
  <1>2. ASSUME NEW h \in Handler, IndexFails(h) PROVE JobsAreFinite'
    <2>1. h \in Worker /\ work[h].pc \in Reading
      BY <1>2 DEF Worker, IndexFails
    <2>2. work[h] \in Job /\ IsFiniteSet(work[h].versions)
      BY <2>1 DEF JobsOK, JobsAreFinite, NoJob, Reading
    <2>3. PICK answer : work' = [work EXCEPT ![h].pc = answer]
      BY <1>2 DEF IndexFails
    <2> DEFINE j == [work[h] EXCEPT !.pc = answer]
    <2>4. j.versions = work[h].versions /\ work' = [work EXCEPT ![h] = j]
      BY <2>2, <2>3 DEF Job
    <2> HIDE DEF j
    <2> QED
      BY <2>1, <2>2, <2>4, OneJobFinite
  <1>3. ASSUME NEW h \in Handler, Respond(h) PROVE JobsAreFinite'
    BY <1>0, <1>3, OneJobFinite DEF Respond, Worker
  <1>4. ASSUME NEW w \in Worker, ReadRow(w) PROVE JobsAreFinite'
    <2>1. work[w] \in Job /\ IsFiniteSet(work[w].versions)
      BY <1>4 DEF ReadRow, JobsOK, JobsAreFinite, NoJob, Reading
    <2> DEFINE j == [work[w] EXCEPT !.quarantined = work[w].mod \in quarantined,
                                    !.deprecated = work[w].mod \in deprecated, !.pc = "versions"]
    <2>2. j.versions = work[w].versions
      BY <2>1 DEF Job
    <2>3. work' = [work EXCEPT ![w] = j]
      BY <1>4 DEF ReadRow, JobsOK
    <2> HIDE DEF j
    <2> QED
      BY <2>1, <2>2, <2>3, OneJobFinite
  <1>5. ASSUME NEW w \in Worker, ReadVersions(w) PROVE JobsAreFinite'
    <2>1. work[w] \in Job
      BY <1>5 DEF ReadVersions, JobsOK, NoJob, Reading
    <2>2. work[w].mod \in Path
      BY <2>1 DEF Job
    <2>3. IsFiniteSet(Installable(work[w].mod))
      BY <2>2, FS_Difference DEF Installable, TablesOK
    <2> DEFINE j == [work[w] EXCEPT !.versions = Installable(work[w].mod), !.pc = "entry"]
    <2>4. j.versions = Installable(work[w].mod)
      BY <2>1 DEF Job
    <2>5. work' = [work EXCEPT ![w] = j]
      BY <1>5 DEF ReadVersions, JobsOK
    <2> HIDE DEF j
    <2> QED
      BY <2>3, <2>4, <2>5, OneJobFinite
  <1>6. ASSUME NEW w \in Worker, WriteEntry(w) PROVE JobsAreFinite'
    <2>1. work[w] \in Job /\ IsFiniteSet(work[w].versions)
      BY <1>6 DEF WriteEntry, JobsOK, JobsAreFinite, NoJob, Reading
    <2>2. CASE w = Backfill
      BY <1>0, <1>6, <2>2, OneJobFinite DEF WriteEntry
    <2>3. CASE w # Backfill
      <3> DEFINE j == [work[w] EXCEPT !.pc = "ok"]
      <3>1. j.versions = work[w].versions
        BY <2>1 DEF Job
      <3>2. work' = [work EXCEPT ![w] = j]
        BY <1>6, <2>3 DEF WriteEntry, JobsOK
      <3> HIDE DEF j
      <3> QED
        BY <2>1, <3>1, <3>2, OneJobFinite
    <2> QED
      BY <2>2, <2>3
  <1>7. CASE BackfillList \/ BackfillFails
    BY <1>0, <1>7, OneJobFinite DEF BackfillList, BackfillFails, Worker
  <1>8. CASE BackfillNext
    <2>1. PICK m \in missing : Begins(Backfill, "Backfill", m)
      BY <1>8 DEF BackfillNext
    <2> QED
      BY <2>1, BeginsFinite DEF JobsOK, Worker
  <1>9. CASE ServerRestarts
    BY <1>0, <1>9 DEF ServerRestarts, Started, JobsAreFinite, Reading
  <1>10. CASE UNCHANGED searchVars
    BY <1>10 DEF searchVars, indexVars, JobsAreFinite
  <1> QED
    BY <1>1, <1>2, <1>3, <1>4, <1>5, <1>6, <1>7, <1>8, <1>9, <1>10 DEF SearchNext, Reindex, BackfillStep

\* Every step keeps the entries, and the rest, well formed.
LEMMA SearchTypesStep == SearchTypes /\ [SearchNext]_searchVars => SearchTypes'
  <1> SUFFICES ASSUME SearchTypes, [SearchNext]_searchVars PROVE SearchTypes'
    OBVIOUS
  <1>1. SearchInv' /\ TablesOK' /\ JobsAreFinite'
    BY SearchInvStep, TablesKept, JobsKept DEF SearchTypes, SearchInv
  <1>2. ASSUME NEW w \in Worker, WriteEntry(w) PROVE EntriesOK' /\ stale' \subseteq Path /\ restarts' = restarts
    <2>1. work[w] \in Job /\ IsFiniteSet(work[w].versions)
      BY <1>2 DEF WriteEntry, SearchTypes, SearchInv, JobsOK, JobsAreFinite, NoJob, Reading
    <2>2. /\ work[w].mod \in Path /\ work[w].versions \in SUBSET Version /\ work[w].deprecated \in BOOLEAN
      BY <2>1 DEF Job
    <2>3. EntryOf(work[w].versions, work[w].quarantined, work[w].deprecated) \in Entry \cup {NoEntry}
      BY <2>1, <2>2, EntryOfVersions
    <2>4. entry' = [entry EXCEPT ![work[w].mod] = EntryOf(work[w].versions, work[w].quarantined, work[w].deprecated)]
      BY <1>2 DEF WriteEntry
    <2>5. EntriesOK'
      BY <2>3, <2>4 DEF SearchTypes, EntriesOK
    <2>6. stale' \subseteq Path /\ restarts' = restarts
      BY <1>2, <2>2 DEF WriteEntry, SearchTypes
    <2> QED
      BY <2>5, <2>6
  <1>3. ASSUME NEW h \in Handler, IndexFails(h) PROVE entry' = entry /\ stale' \subseteq Path /\ restarts' = restarts
    <2>1. work[h] \in Job
      BY <1>3 DEF IndexFails, SearchTypes, SearchInv, JobsOK, NoJob, Reading, Worker
    <2> QED
      BY <1>3, <2>1 DEF IndexFails, SearchTypes, Job
  <1>4. CASE ServerRestarts
    <2>1. entry' = entry /\ stale' \subseteq Path
      BY <1>4 DEF ServerRestarts, SearchTypes
    <2>2. restarts' \in 0..MaxRestart
      BY <1>4, SearchConstants DEF ServerRestarts, SearchTypes
    <2> QED
      BY <1>1, <2>1, <2>2 DEF SearchTypes, EntriesOK
  <1>5. CASE UNCHANGED <<entry, stale, restarts>>
    BY <1>1, <1>5 DEF SearchTypes, EntriesOK
  <1>6. ASSUME NEW h \in Handler, Request(h) \/ Respond(h) PROVE UNCHANGED <<entry, stale, restarts>>
    BY <1>6 DEF Request, Respond, Publish, Yank, Unyank, Deprecate, Undeprecate, Quarantine, Release, Begin, Nothing
  <1>7. ASSUME NEW w \in Worker, ReadRow(w) \/ ReadVersions(w) PROVE UNCHANGED <<entry, stale, restarts>>
    BY <1>7 DEF ReadRow, ReadVersions
  <1>8. BackfillStep => UNCHANGED <<entry, stale, restarts>>
    BY DEF BackfillStep, BackfillList, BackfillNext, BackfillFails
  <1>9. UNCHANGED searchVars => UNCHANGED <<entry, stale, restarts>>
    BY DEF searchVars, indexVars
  <1> QED
    BY <1>1, <1>2, <1>3, <1>4, <1>5, <1>6, <1>7, <1>8, <1>9 DEF SearchNext, Reindex, SearchTypes, EntriesOK

\* They hold at first.
LEMMA SearchTypesInit == SearchInit => SearchTypes
  <1> SUFFICES ASSUME SearchInit PROVE SearchTypes
    OBVIOUS
  <1>1. SearchInv
    BY SearchInitInv
  <1>2. IsFiniteSet({}) /\ 0 \in 0..MaxRestart
    BY FS_EmptySet, SearchConstants
  <1>3. TablesOK /\ EntriesOK /\ stale \subseteq Path /\ restarts \in 0..MaxRestart
    BY <1>2 DEF SearchInit, Unindexed, TablesOK, EntriesOK
  <1>4. JobsAreFinite
    BY DEF SearchInit, Started, NoJob, JobsAreFinite, Reading
  <1> QED
    BY <1>1, <1>3, <1>4 DEF SearchTypes

\* It has the types in it.
LEMMA SearchTypesHold == SearchTypes => SearchTypeOK
  BY DEF SearchTypes, SearchTypeOK, SearchInv, JobsOK, TablesOK, EntriesOK

-----------------------------------------------------------------------------
(* Listings.                                                               *)

Load(n) == [pc : {"loading"}, got : n]
Loads(n) == {Resting, [pc |-> "started"]} \cup [pc : {"loaded"}, got : n]

\* The inductive invariant: there is one load at a time, the flag says so, and
\* what it read is no older than what is kept.  Before there is a value only
\* the first request loads.
ListInv ==
  /\ listed \in Nat
  /\ val \in Int
  /\ first = Resting \/ first.pc = "loading"
  /\ loader \in [Loader -> {Resting, [pc |-> "started"]} \cup [pc : {"loaded"}, got : Nat]]
  /\ val >= NotLoaded /\ val <= listed
  /\ first # Resting => val = NotLoaded /\ first.got \in Nat /\ first.got <= listed
  /\ \A l \in Loader : loader[l] # Resting => refreshing /\ val # NotLoaded
  /\ \A l, k \in Loader : loader[l] # Resting /\ loader[k] # Resting => l = k
  /\ \A l \in Loader : loader[l].pc = "loaded" => loader[l].got >= val /\ loader[l].got <= listed

\* It holds at first.
LEMMA ListInit == CacheInit => ListInv
  BY DEF CacheInit, ListInv, NotLoaded, Resting

\* Every step keeps it, and no step puts back an older value: who stores is
\* the only one who loaded, and read the tables after the value was stored.
LEMMA ListStep ==
  ASSUME ListInv, [CacheNext]_cacheVars
  PROVE  ListInv' /\ val' >= val
  <1>1. CASE FirstLoads BY <1>1 DEF FirstLoads, ListInv, NotLoaded, Resting
  <1>2. CASE FirstStores BY <1>2 DEF FirstStores, ListInv, NotLoaded, Resting
  <1>3. CASE FirstFails BY <1>3 DEF FirstFails, ListInv, NotLoaded, Resting
  <1>4. ASSUME NEW l \in Loader, AskForPage(l) PROVE ListInv' /\ val' >= val
    BY <1>4 DEF AskForPage, ListInv, NotLoaded, Resting
  <1>5. ASSUME NEW l \in Loader, RefreshReads(l) PROVE ListInv' /\ val' >= val
    BY <1>5 DEF RefreshReads, ListInv, NotLoaded, Resting
  <1>6. ASSUME NEW l \in Loader, RefreshStores(l) PROVE ListInv' /\ val' >= val
    BY <1>6 DEF RefreshStores, ListInv, NotLoaded, Resting
  <1>7. ASSUME NEW l \in Loader, RefreshGivesUp(l) PROVE ListInv' /\ val' >= val
    BY <1>7 DEF RefreshGivesUp, ListInv, NotLoaded, Resting
  <1>8. CASE TablesChange BY <1>8 DEF TablesChange, ListInv, NotLoaded, Resting
  <1>9. CASE ValueAges BY <1>9 DEF ValueAges, ListInv, NotLoaded, Resting
  <1>10. CASE UNCHANGED cacheVars BY <1>10 DEF cacheVars, ListInv
  <1> QED BY <1>1, <1>2, <1>3, <1>4, <1>5, <1>6, <1>7, <1>8, <1>9, <1>10 DEF CacheNext, PageRequest, LoadPage

\* What the home page shows never goes back to an earlier state of the tables
\* (server/cached.go): for any number of requests, changes and failed loads.
THEOREM ListingsNeverGoBack == CacheSpec => ServedNeverGoesBack
  <1>1. CacheInit => ListInv BY ListInit
  <1>2. ListInv /\ [CacheNext]_cacheVars => ListInv' BY ListStep
  <1>3. ListInv /\ [CacheNext]_cacheVars => [val' >= val]_cacheVars BY ListStep
  <1> QED BY <1>1, <1>2, <1>3, PTL DEF CacheSpec, ServedNeverGoesBack

\* The inductive invariant of the types of the listings.
ListTypes == ListInv /\ CacheTypeOK

\* Every step keeps it.
LEMMA ListTypesStep == ListTypes /\ [CacheNext]_cacheVars => ListTypes'
  <1> SUFFICES ASSUME ListTypes, [CacheNext]_cacheVars PROVE ListTypes'
    OBVIOUS
  <1>1. ListInv'
    BY ListStep DEF ListTypes
  <1>2. /\ listed \in 0..MaxChanges /\ val \in {NotLoaded} \cup 0..listed /\ old \in BOOLEAN /\ refreshing \in BOOLEAN
        /\ first \in {Resting} \cup [pc : {"loading"}, got : 0..listed]
        /\ loader \in [Loader -> {Resting, [pc |-> "started"]} \cup [pc : {"loaded"}, got : 0..listed]]
        /\ loadFails \in 0..MaxLoadFails /\ MaxLoadFails \in Nat /\ MaxChanges \in Nat /\ listed \in Nat
    BY CacheConstants DEF ListTypes, CacheTypeOK
  <1>3. CASE listed' = listed
    <2>1. CASE FirstLoads
      BY <1>1, <1>2, <2>1 DEF FirstLoads, ListTypes, CacheTypeOK
    <2>2. CASE FirstStores
      BY <1>1, <1>2, <2>2 DEF FirstStores, Resting, ListTypes, CacheTypeOK
    <2>3. CASE FirstFails
      BY <1>1, <1>2, <2>3 DEF FirstFails, ListTypes, CacheTypeOK
    <2>4. ASSUME NEW l \in Loader, AskForPage(l) PROVE ListTypes'
      BY <1>1, <1>2, <2>4 DEF AskForPage, ListTypes, CacheTypeOK
    <2>5. ASSUME NEW l \in Loader, RefreshReads(l) PROVE ListTypes'
      BY <1>1, <1>2, <2>5 DEF RefreshReads, ListTypes, CacheTypeOK
    <2>6. ASSUME NEW l \in Loader, RefreshStores(l) PROVE ListTypes'
      <3>1. loader[l].got \in 0..listed
        BY <1>2, <2>6 DEF RefreshStores, Resting
      <3> QED
        BY <1>1, <1>2, <2>6, <3>1 DEF RefreshStores, ListTypes, CacheTypeOK
    <2>7. ASSUME NEW l \in Loader, RefreshGivesUp(l) PROVE ListTypes'
      <3>1. loader' \in [Loader -> {Resting, [pc |-> "started"]} \cup [pc : {"loaded"}, got : 0..listed]]
        BY <1>2, <2>7 DEF RefreshGivesUp
      <3>2. loadFails' = loadFails + 1 /\ loadFails < MaxLoadFails /\ refreshing' = FALSE
            /\ UNCHANGED <<listed, val, old, first>>
        BY <2>7 DEF RefreshGivesUp
      <3>3. loadFails' \in 0..MaxLoadFails
        BY <1>2, <3>2
      <3> QED
        BY <1>1, <1>2, <3>1, <3>2, <3>3 DEF ListTypes, CacheTypeOK
    <2>8. CASE ValueAges
      BY <1>1, <1>2, <2>8 DEF ValueAges, ListTypes, CacheTypeOK
    <2>9. CASE UNCHANGED cacheVars
      BY <1>1, <1>2, <2>9 DEF cacheVars, ListTypes, CacheTypeOK
    <2>10. TablesChange => listed' # listed
      BY <1>2 DEF TablesChange
    <2> QED
      BY <1>3, <2>1, <2>2, <2>3, <2>4, <2>5, <2>6, <2>7, <2>8, <2>9, <2>10 DEF CacheNext, PageRequest, LoadPage
  <1>4. CASE TablesChange
    <2>1. /\ listed' = listed + 1 /\ listed' \in 0..MaxChanges
          /\ UNCHANGED <<val, old, refreshing, first, loader, loadFails>>
      BY <1>2, <1>4 DEF TablesChange
    <2>2. 0..listed \subseteq 0..listed'
      BY <1>2, <2>1
    <2>3. val' \in {NotLoaded} \cup 0..listed'
      BY <1>2, <2>1, <2>2
    <2>4. first' \in {Resting} \cup [pc : {"loading"}, got : 0..listed']
      BY <1>2, <2>1, <2>2
    <2>5. loader' \in [Loader -> {Resting, [pc |-> "started"]} \cup [pc : {"loaded"}, got : 0..listed']]
      <3>1. \A l \in Loader : loader[l] \in {Resting, [pc |-> "started"]} \cup [pc : {"loaded"}, got : 0..listed']
        BY <1>2, <2>2
      <3> QED
        BY <1>2, <2>1, <3>1
    <2> QED
      BY <1>1, <1>2, <2>1, <2>3, <2>4, <2>5 DEF ListTypes, CacheTypeOK
  <1> QED
    BY <1>3, <1>4 DEF CacheNext, PageRequest, LoadPage, FirstLoads, FirstStores, FirstFails, AskForPage, RefreshReads,
                      RefreshStores, RefreshGivesUp, ValueAges, cacheVars

\* It holds at first.
LEMMA ListTypesInit == CacheInit => ListTypes
  <1> SUFFICES ASSUME CacheInit PROVE ListTypes
    OBVIOUS
  <1>1. ListInv
    BY ListInit
  <1>2. 0 \in 0..MaxChanges /\ 0 \in 0..MaxLoadFails
    BY CacheConstants
  <1> QED
    BY <1>1, <1>2 DEF CacheInit, ListTypes, CacheTypeOK

-----------------------------------------------------------------------------
(* The copy of the vulnerability database.                                 *)

Copies == [db : Nat, modules : Nat, vulns : Nat, report : Nat]

\* The inductive invariant: the public database writes a report before the
\* indexes that name it, and those before the time; Refresh fetches in the
\* opposite order, so each file it has is no older than the time it has.
UpstreamInv ==
  /\ database \in Copies
  /\ meta \in Nat /\ modules \in Nat /\ vulns \in Nat /\ report \in Nat
  /\ database.db <= database.vulns /\ database.vulns <= database.modules /\ database.modules <= database.report
  /\ modules <= database.report /\ vulns <= database.report
  /\ CopyIsNoOlderThanItsTime
  /\ refresh.pc \in {"modules", "vulns", "store"} => refresh.meta \in Nat /\ refresh.meta <= database.db
  /\ refresh.pc \in {"vulns", "store"} =>
       refresh.modules \in Nat /\ refresh.meta <= refresh.modules /\ refresh.modules <= database.report
  /\ refresh.pc = "store" => refresh.vulns \in Nat /\ refresh.meta <= refresh.vulns /\ refresh.vulns <= database.report
  /\ page = [p \in Page |-> page[p]]
  /\ \A p \in Page : page[p].pc \in {"fetch", "fetched", "answered"} =>
       page[p].modified \in Nat /\ page[p].modified <= database.report
  /\ \A p \in Page : page[p].pc \in {"fetched", "answered"} => page[p].got \in Nat /\ page[p].got >= page[p].modified

\* It holds at first.
LEMMA UpstreamStarts == UpstreamInit => UpstreamInv
  BY DEF UpstreamInit, UpstreamInv, Copies, CopyIsNoOlderThanItsTime, NoCopy, Waiting, NoReport

\* Every step keeps it.
LEMMA UpstreamStep ==
  ASSUME UpstreamInv, [UpstreamNext]_upstreamVars
  PROVE  UpstreamInv'
  <1> USE DEF UpstreamInv, CopyIsNoOlderThanItsTime, Copies, copyVars, Waiting, NoReport, NoCopy
  <1>1. CASE FetchMeta BY <1>1 DEF FetchMeta
  <1>2. CASE FetchModules BY <1>2 DEF FetchModules
  <1>3. CASE FetchVulns BY <1>3 DEF FetchVulns
  <1>4. CASE StoreIndexes BY <1>4 DEF StoreIndexes
  <1>5. CASE GetFails BY <1>5 DEF GetFails
  <1>6. ASSUME NEW p \in Page, AskForReport(p) PROVE UpstreamInv'
    BY <1>6 DEF AskForReport, Kept
  <1>7. ASSUME NEW p \in Page, FetchReport(p) PROVE UpstreamInv'
    BY <1>7 DEF FetchReport
  <1>8. ASSUME NEW p \in Page, KeepReport(p) PROVE UpstreamInv'
    BY <1>8 DEF KeepReport
  <1>9. CASE DatabaseChanges BY <1>9 DEF DatabaseChanges
  <1>10. CASE UNCHANGED upstreamVars BY <1>10 DEF upstreamVars
  <1> QED BY <1>1, <1>2, <1>3, <1>4, <1>5, <1>6, <1>7, <1>8, <1>9, <1>10 DEF UpstreamNext, Refreshing

\* The copy of the vulnerability database is never older than the time it
\* states, nor a report older than the indexes it was asked for by
\* (vulndb/upstream.go): for any number of pages, changes and failures.
THEOREM CopyAgesHonestly == UpstreamSpec => [](CopyIsNoOlderThanItsTime /\ ReportIsNoOlder)
  <1>1. UpstreamInv => CopyIsNoOlderThanItsTime /\ ReportIsNoOlder BY DEF UpstreamInv, ReportIsNoOlder
  <1>2. UpstreamInv /\ [UpstreamNext]_upstreamVars => UpstreamInv' BY UpstreamStep
  <1> QED BY UpstreamStarts, <1>1, <1>2, PTL DEF UpstreamSpec

\* Every step keeps the types of the copy.
LEMMA CopyTypesStep == UpstreamTypeOK /\ [UpstreamNext]_upstreamVars => UpstreamTypeOK'
  <1> SUFFICES ASSUME UpstreamTypeOK, [UpstreamNext]_upstreamVars PROVE UpstreamTypeOK'
    OBVIOUS
  <1>0. /\ database \in [db : Modified, modules : Modified, vulns : Modified, report : Modified]
        /\ meta \in Modified /\ modules \in Modified /\ vulns \in Modified /\ report \in Modified
        /\ refresh \in {Waiting} \cup [pc : {"modules"}, meta : Modified]
             \cup [pc : {"vulns"}, meta : Modified, modules : Modified]
             \cup [pc : {"store"}, meta : Modified, modules : Modified, vulns : Modified]
        /\ page \in [Page -> {NoReport} \cup [pc : {"fetch"}, modified : Modified]
             \cup [pc : {"fetched", "answered"}, modified : Modified, got : Modified]]
        /\ getFails \in 0..MaxGetFails
        /\ Modified = 0..MaxModified /\ MaxModified \in Nat /\ MaxGetFails \in Nat
    BY UpstreamConstants DEF UpstreamTypeOK, Modified
  <1>1. CASE FetchMeta
    BY <1>0, <1>1 DEF FetchMeta, copyVars, UpstreamTypeOK
  <1>2. CASE FetchModules
    BY <1>0, <1>2 DEF FetchModules, copyVars, UpstreamTypeOK, Waiting
  <1>3. CASE FetchVulns
    BY <1>0, <1>3 DEF FetchVulns, copyVars, UpstreamTypeOK, Waiting
  <1>4. CASE StoreIndexes
    BY <1>0, <1>4 DEF StoreIndexes, UpstreamTypeOK, Waiting
  <1>5. CASE GetFails
    BY <1>0, <1>5 DEF GetFails, copyVars, UpstreamTypeOK
  <1>6. ASSUME NEW p \in Page, AskForReport(p) PROVE UpstreamTypeOK'
    BY <1>0, <1>6 DEF AskForReport, copyVars, UpstreamTypeOK
  <1>7. ASSUME NEW p \in Page, FetchReport(p) PROVE UpstreamTypeOK'
    <2>1. page[p].modified \in Modified
      BY <1>0, <1>7 DEF FetchReport, NoReport
    <2> QED
      BY <1>0, <1>7, <2>1 DEF FetchReport, copyVars, UpstreamTypeOK
  <1>8. ASSUME NEW p \in Page, KeepReport(p) PROVE UpstreamTypeOK'
    <2>1. page[p].modified \in Modified /\ page[p].got \in Modified
      BY <1>0, <1>8 DEF KeepReport, NoReport
    <2> QED
      BY <1>0, <1>8, <2>1 DEF KeepReport, copyVars, UpstreamTypeOK
  <1>9. CASE DatabaseChanges
    <2>1. database' \in [db : Modified, modules : Modified, vulns : Modified, report : Modified]
      <3>1. ASSUME NEW i \in Modified, NEW j \in Modified, i < j PROVE i + 1 \in Modified
        BY <1>0, <3>1
      <3>2. CASE database.report < MaxModified /\ database' = [database EXCEPT !.report = @ + 1]
        <4>1. database.report + 1 \in Modified
          BY <1>0, <3>2
        <4> QED
          BY <1>0, <3>2, <4>1
      <3>3. CASE database.modules < database.report /\ database' = [database EXCEPT !.modules = @ + 1]
        <4>1. database.modules + 1 \in Modified
          BY <1>0, <3>1, <3>3
        <4> QED
          BY <1>0, <3>3, <4>1
      <3>4. CASE database.vulns < database.modules /\ database' = [database EXCEPT !.vulns = @ + 1]
        <4>1. database.vulns + 1 \in Modified
          BY <1>0, <3>1, <3>4
        <4> QED
          BY <1>0, <3>4, <4>1
      <3>5. CASE database.db < database.vulns /\ database' = [database EXCEPT !.db = @ + 1]
        <4>1. database.db + 1 \in Modified
          BY <1>0, <3>1, <3>5
        <4> QED
          BY <1>0, <3>5, <4>1
      <3> QED
        BY <1>9, <3>2, <3>3, <3>4, <3>5 DEF DatabaseChanges
    <2> QED
      BY <1>0, <1>9, <2>1 DEF DatabaseChanges, copyVars, UpstreamTypeOK
  <1>10. CASE UNCHANGED upstreamVars
    BY <1>0, <1>10 DEF upstreamVars, copyVars, UpstreamTypeOK
  <1> QED
    BY <1>1, <1>2, <1>3, <1>4, <1>5, <1>6, <1>7, <1>8, <1>9, <1>10 DEF UpstreamNext, Refreshing

\* They hold at first.
LEMMA CopyTypesInit == UpstreamInit => UpstreamTypeOK
  <1>1. 0 \in Modified /\ 1 \in Modified /\ 0 \in 0..MaxGetFails
    BY UpstreamConstants DEF Modified
  <1> QED
    BY <1>1 DEF UpstreamInit, UpstreamTypeOK, NoCopy

-----------------------------------------------------------------------------
(* How the server stops.                                                   *)

\* The inductive invariant: past the wait for the requests there are none,
\* unless the stop was abrupt; past the last write there are no counts; past
\* the wait for the mirror, no notices.  The database is closed after all that.
StopInv ==
  /\ process \in {"serving", "draining", "notifying", "stopping", "closing", "closed", "exited"}
  /\ abrupt \in BOOLEAN /\ deadline \in BOOLEAN /\ dbOpen \in BOOLEAN
  /\ request = [c \in Conn |-> request[c]]
  /\ ~abrupt /\ process \in {"notifying", "stopping", "closing", "closed", "exited"} => Running = {}
  /\ ~abrupt /\ process \in {"closing", "closed", "exited"} => unwritten = 0
  /\ ~dbOpen => process \in {"closed", "exited"}
  /\ ~abrupt /\ ~deadline /\ process \in {"stopping", "closing", "closed", "exited"} => notices = {}

\* It holds at first.
LEMMA StopStarts == StopInit => StopInv
  BY DEF StopInit, StopInv, Running

\* Every step keeps it.
LEMMA StopKeeps ==
  ASSUME StopInv, [StopNext]_stopVars
  PROVE  StopInv'
  <1> USE DEF StopInv, Running, processVars, workVars
  <1>1. ASSUME NEW c \in Conn, NEW what \in {"upload", "download"}, BeginRequest(c, what) PROVE StopInv'
    BY <1>1 DEF BeginRequest
  <1>2. ASSUME NEW c \in Conn, Uploaded(c) PROVE StopInv' BY <1>2 DEF Uploaded
  <1>3. ASSUME NEW c \in Conn, Downloaded(c) PROVE StopInv' BY <1>3 DEF Downloaded
  <1>4. ASSUME NEW n \in notices, NoticeGoesOn(n) PROVE StopInv' BY <1>4 DEF NoticeGoesOn
  <1>5. CASE Flushes BY <1>5 DEF Flushes
  <1>6. CASE TellToStop BY <1>6 DEF TellToStop
  <1>7. CASE ListenerFails BY <1>7 DEF ListenerFails
  <1>8. CASE DeadlinePasses BY <1>8 DEF DeadlinePasses
  <1>9. CASE Drained BY <1>9 DEF Drained
  <1>10. CASE Notified BY <1>10 DEF Notified
  <1>11. CASE CountsStop BY <1>11 DEF CountsStop
  <1>12. CASE DatabaseCloses BY <1>12 DEF DatabaseCloses
  <1>13. CASE Exit BY <1>13 DEF Exit
  <1>14. CASE UNCHANGED stopVars BY <1>14 DEF stopVars
  <1> QED BY <1>1, <1>2, <1>3, <1>4, <1>5, <1>6, <1>7, <1>8, <1>9, <1>10, <1>11, <1>12, <1>13, <1>14 DEF StopNext, StopStep

\* A server that stops in its time has written every count and ended every
\* notice, and no request finds the database closed but one that outlasted the
\* deadline (cmd/gopherdex/main.go): for any number of connections.
THEOREM StopsWithNothingLeft ==
  StopSpec => [](StopKeepsCounts /\ DatabaseOutlivesRequests /\ NoticesAreWaitedFor)
  <1>1. StopInv => StopKeepsCounts /\ DatabaseOutlivesRequests /\ NoticesAreWaitedFor
    BY DEF StopInv, StopKeepsCounts, DatabaseOutlivesRequests, NoticesAreWaitedFor
  <1>2. StopInv /\ [StopNext]_stopVars => StopInv' BY StopKeeps
  <1> QED BY StopStarts, <1>1, <1>2, PTL DEF StopSpec

\* The inductive invariant of the types of a server that stops: every request
\* that was begun runs, or has left one count at most.
Notices == [for : Conn \X (1..MaxServed), service : {"mirror", "sumdb"}, attempt : 1..Attempts]
StopTypes ==
  /\ StopTypeOK
  /\ IsFiniteSet(Running)
  /\ Cardinality(Running) + unwritten + dropped <= begun

\* A request that ends, and what it leaves.
LEMMA OneRequestEnds ==
  ASSUME StopTypes, NEW c \in Conn, request[c] # "idle", request' = [request EXCEPT ![c] = "idle"]
  PROVE  /\ IsFiniteSet(Running)' /\ Cardinality(Running)' = Cardinality(Running) - 1
         /\ Cardinality(Running) \in Nat \ {0} /\ request' \in [Conn -> {"idle", "upload", "download"}]
  <1>1. Running' = Running \ {c} /\ c \in Running
    BY DEF StopTypes, StopTypeOK, Running
  <1>2. IsFiniteSet(Running \ {c}) /\ Cardinality(Running \ {c}) = Cardinality(Running) - 1
        /\ Cardinality(Running) \in Nat /\ Cardinality(Running \ {c}) \in Nat
    BY <1>1, FS_RemoveElement, FS_CardinalityType DEF StopTypes
  <1>3. Cardinality(Running) # 0
    BY <1>1, <1>2
  <1> QED
    BY <1>1, <1>2, <1>3 DEF StopTypes, StopTypeOK

\* Every step keeps it.
LEMMA StopTypesStep == StopTypes /\ [StopNext]_stopVars => StopTypes'
  <1> SUFFICES ASSUME StopTypes, [StopNext]_stopVars PROVE StopTypes'
    OBVIOUS
  <1> PICK n : n = Cardinality(Running)
    OBVIOUS
  <1>0. /\ process \in {"serving", "draining", "notifying", "stopping", "closing", "closed", "exited"}
        /\ deadline \in BOOLEAN /\ abrupt \in BOOLEAN /\ dbOpen \in BOOLEAN
        /\ request \in [Conn -> {"idle", "upload", "download"}]
        /\ notices \subseteq Notices
        /\ unwritten \in 0..MaxServed /\ dropped \in 0..MaxServed /\ begun \in 0..MaxServed
        /\ IsFiniteSet(Running) /\ n \in Nat /\ n + unwritten + dropped <= begun
        /\ MaxServed \in Nat /\ Attempts \in Nat \ {0}
    BY FS_CardinalityType, StoppingConstants DEF StopTypes, StopTypeOK, Notices
  <1>1. ASSUME NEW c \in Conn, NEW what \in {"upload", "download"}, BeginRequest(c, what) PROVE StopTypes'
    <2>1. Running' = Running \cup {c} /\ c \notin Running
      BY <1>0, <1>1 DEF BeginRequest, Running
    <2>2. IsFiniteSet(Running \cup {c}) /\ Cardinality(Running \cup {c}) = n + 1
      BY <1>0, <2>1, FS_AddElement
    <2>3. Cardinality(Running)' = n + 1 /\ IsFiniteSet(Running)'
      BY <2>1, <2>2
    <2>4. /\ begun' = begun + 1 /\ begun' \in 0..MaxServed /\ request' \in [Conn -> {"idle", "upload", "download"}]
          /\ UNCHANGED <<process, deadline, abrupt, dbOpen, notices, unwritten, dropped>>
      BY <1>0, <1>1 DEF BeginRequest, processVars
    <2>5. n + 1 + unwritten' + dropped' <= begun'
      BY <1>0, <2>4
    <2> QED
      BY <1>0, <2>3, <2>4, <2>5 DEF StopTypes, StopTypeOK, Notices
  <1>2. ASSUME NEW c \in Conn, Uploaded(c) PROVE StopTypes'
    <2>1. /\ IsFiniteSet(Running)' /\ Cardinality(Running)' = n - 1 /\ n \in Nat \ {0}
          /\ request' \in [Conn -> {"idle", "upload", "download"}]
      BY <1>2, OneRequestEnds DEF Uploaded
    <2>2. begun \in 1..MaxServed
      BY <1>0, <2>1
    <2>3. [for |-> <<c, begun>>, service |-> "mirror", attempt |-> 1] \in Notices
      BY <1>0, <2>2 DEF Notices
    <2>4. notices' \subseteq Notices /\ UNCHANGED <<process, deadline, abrupt, dbOpen, unwritten, dropped, begun>>
      BY <1>0, <1>2, <2>3 DEF Uploaded, processVars
    <2>5. n - 1 + unwritten' + dropped' <= begun'
      BY <1>0, <2>1, <2>4
    <2> QED
      BY <1>0, <2>1, <2>4, <2>5 DEF StopTypes, StopTypeOK, Notices
  <1>3. ASSUME NEW c \in Conn, Downloaded(c) PROVE StopTypes'
    <2>1. /\ IsFiniteSet(Running)' /\ Cardinality(Running)' = n - 1 /\ n \in Nat \ {0}
          /\ request' \in [Conn -> {"idle", "upload", "download"}]
      BY <1>3, OneRequestEnds DEF Downloaded
    <2>2. unwritten' = unwritten + 1 /\ UNCHANGED <<process, deadline, abrupt, dbOpen, notices, dropped, begun>>
      BY <1>3 DEF Downloaded, processVars
    <2>3. n - 1 + unwritten' + dropped' <= begun' /\ unwritten' \in 0..MaxServed
      BY <1>0, <2>1, <2>2
    <2> QED
      BY <1>0, <2>1, <2>2, <2>3 DEF StopTypes, StopTypeOK, Notices
  <1>4. ASSUME request' = request PROVE Running' = Running
    BY <1>4 DEF Running
  <1>5. ASSUME NEW m \in notices, NoticeGoesOn(m) PROVE StopTypes'
    <2>1. m \in Notices
      BY <1>0
    <2>2. [m EXCEPT !.service = "sumdb", !.attempt = 1] \in Notices
      <3>1. 1 \in 1..Attempts
        BY <1>0
      <3> QED
        BY <2>1, <3>1 DEF Notices
    <2>3. m.attempt < Attempts => [m EXCEPT !.attempt = @ + 1] \in Notices
      <3>1. m.attempt < Attempts => m.attempt + 1 \in 1..Attempts
        BY <1>0, <2>1 DEF Notices
      <3> QED
        BY <2>1, <3>1 DEF Notices
    <2>4. notices' \subseteq Notices /\ UNCHANGED <<process, deadline, abrupt, dbOpen, request, unwritten, dropped, begun>>
      BY <1>0, <1>5, <2>2, <2>3 DEF NoticeGoesOn, processVars
    <2> QED
      BY <1>0, <1>4, <2>4 DEF StopTypes, StopTypeOK, Notices
  <1>6. CASE Flushes
    <2>1. unwritten' = 0 /\ UNCHANGED <<process, deadline, abrupt, dbOpen, request, notices, dropped, begun>>
      BY <1>6 DEF Flushes, processVars
    <2>2. n + unwritten' + dropped' <= begun' /\ unwritten' \in 0..MaxServed
      BY <1>0, <2>1
    <2> QED
      BY <1>0, <1>4, <2>1, <2>2 DEF StopTypes, StopTypeOK, Notices
  <1>7. CASE CountsStop
    <2>1. UNCHANGED <<deadline, abrupt, dbOpen, request, notices, begun>> /\ process' = "closing"
      BY <1>7 DEF CountsStop
    <2>2. unwritten' = 0 /\ (dropped' = dropped \/ dropped' = dropped + unwritten)
      BY <1>7 DEF CountsStop
    <2>3. n + unwritten' + dropped' <= begun' /\ dropped' \in 0..MaxServed /\ unwritten' \in 0..MaxServed
      BY <1>0, <2>1, <2>2
    <2> QED
      BY <1>0, <1>4, <2>1, <2>2, <2>3 DEF StopTypes, StopTypeOK, Notices
  <1>8. CASE TellToStop \/ ListenerFails \/ DeadlinePasses \/ Drained \/ Notified \/ DatabaseCloses \/ Exit \/ UNCHANGED stopVars
    <2>1. UNCHANGED <<request, notices, unwritten, dropped, begun>>
      BY <1>8 DEF TellToStop, ListenerFails, DeadlinePasses, Drained, Notified, DatabaseCloses, Exit, stopVars, workVars
    <2>2. /\ process' \in {"serving", "draining", "notifying", "stopping", "closing", "closed", "exited"}
          /\ deadline' \in BOOLEAN /\ abrupt' \in BOOLEAN /\ dbOpen' \in BOOLEAN
      BY <1>0, <1>8 DEF TellToStop, ListenerFails, DeadlinePasses, Drained, Notified, DatabaseCloses, Exit, stopVars,
                        processVars
    <2> QED
      BY <1>0, <1>4, <2>1, <2>2 DEF StopTypes, StopTypeOK, Notices
  <1> QED
    BY <1>1, <1>2, <1>3, <1>5, <1>6, <1>7, <1>8 DEF StopNext, StopStep

\* It holds at first.
LEMMA StopTypesInit == StopInit => StopTypes
  <1> SUFFICES ASSUME StopInit PROVE StopTypes
    OBVIOUS
  <1>1. Running = {} /\ MaxServed \in Nat
    BY StoppingConstants DEF StopInit, Running
  <1>2. IsFiniteSet(Running) /\ Cardinality(Running) = 0
    BY <1>1, FS_EmptySet
  <1>3. request \in [Conn -> {"idle", "upload", "download"}]
    BY DEF StopInit
  <1>4. 0 \in 0..MaxServed /\ 0 + 0 + 0 <= 0
    BY <1>1
  <1> QED
    BY <1>1, <1>2, <1>3, <1>4 DEF StopInit, StopTypes, StopTypeOK

-----------------------------------------------------------------------------
(* All of them.                                                            *)

\* What is computed from the tables, copied from elsewhere, or at work when the
\* server stops, is well formed, whatever each of these parts does meanwhile.
THEOREM DerivedTypes == DerivedSpec => []DerivedTypeOK
  <1>1. SearchSpec => []SearchTypeOK
    BY SearchTypesInit, SearchTypesStep, SearchTypesHold, PTL DEF SearchSpec
  <1>2. Spec => []DownloadsTypeOK
    <2>1. CountTypes => DownloadsTypeOK
      BY DEF CountTypes
    <2> QED
      BY CountTypesInit, CountTypesStep, <2>1, PTL DEF Spec
  <1>3. CacheSpec => []CacheTypeOK
    <2>1. ListTypes => CacheTypeOK
      BY DEF ListTypes
    <2> QED
      BY ListTypesInit, ListTypesStep, <2>1, PTL DEF CacheSpec
  <1>4. UpstreamSpec => []UpstreamTypeOK
    BY CopyTypesInit, CopyTypesStep, PTL DEF UpstreamSpec
  <1>5. StopSpec => []StopTypeOK
    <2>1. StopTypes => StopTypeOK
      BY DEF StopTypes
    <2> QED
      BY StopTypesInit, StopTypesStep, <2>1, PTL DEF StopSpec
  <1> QED
    BY <1>1, <1>2, <1>3, <1>4, <1>5, PTL DEF DerivedSpec, DerivedTypeOK
=============================================================================

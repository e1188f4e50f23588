----------------------------- MODULE Downloads -----------------------------
(***************************************************************************)
(* Counting downloads.  The proxy counts a zip it has sent in memory; a    *)
(* goroutine takes what has gathered, adds it to the table downloads in    *)
(* one transaction together with the 30-day counts of the modules touched, *)
(* and puts it back when the transaction fails.  Once a day it recomputes  *)
(* the 30-day counts of all modules.  The versions of a module are not     *)
(* told apart.  What is counted while the batch is being written, and what *)
(* a crash takes along, are where a count could be lost or doubled.        *)
(***************************************************************************)
EXTENDS Integers, Functions

CONSTANTS Module,
          MaxDay,     \* bound: days go by until this one
          Window,     \* how many days are recent (30 in the code)
          MaxCount,   \* bound: downloads counted
          MaxFail,    \* bound: writes that fail
          MaxCrash    \* bound: how often the server goes down

ASSUME DownloadsConstants ==
  /\ MaxDay \in Nat \ {0}
  /\ Window \in Nat \ {0}
  /\ MaxCount \in Nat
  /\ MaxFail \in Nat
  /\ MaxCrash \in Nat

Day == 1..MaxDay
Key == Module \X Day
None == [k \in Key |-> 0]
IdleFlush == [pc |-> "idle"]

VARIABLES today,      \* the clock
          pending,    \* Downloads.pending
          batch,      \* what Flush has taken
          downloads,  \* table downloads
          recent,     \* module_meta.downloads_30d
          refreshed,  \* Downloads.refreshed
          flusher,    \* where Flush is
          served,     \* history: downloads counted
          lost,       \* history: counts that were in memory when the server went down
          failures,
          crashes

flushVars == <<pending, batch, downloads, recent, refreshed, flusher>>
downloadVars == <<today, flushVars, served, lost, failures, crashes>>

Plus(f, g) == [k \in Key |-> f[k] + g[k]]

\* Mutant: only downloads of the day the batch is written.
TouchedToday(f) == {m \in Module : f[<<m, today>>] > 0}
Touched(f) == {m \in Module : \E d \in Day : f[<<m, d>>] > 0}

\* The first day of the window is the one after downloadWindowStart.
Recent(table, m) == SumFunctionOnSet([d \in Day |-> table[<<m, d>>]], {d \in Day : d > today - Window})
Refreshed(table, ms) == [m \in Module |-> IF m \in ms THEN Recent(table, m) ELSE recent[m]]

-----------------------------------------------------------------------------
\* CountN: a zip was sent.
Count(m) ==
  /\ SumFunctionOnSet(served, Key) < MaxCount
  /\ pending' = [pending EXCEPT ![<<m, today>>] = @ + 1]
  /\ served' = [served EXCEPT ![<<m, today>>] = @ + 1]
  /\ UNCHANGED <<today, batch, downloads, recent, refreshed, flusher, lost, failures, crashes>>

\* The ticker, or Stop, starts a Flush; with nothing to write it is over.
Take ==
  /\ flusher = IdleFlush
  /\ pending # None
  /\ batch' = pending
  /\ pending' = None
  /\ flusher' = [pc |-> "write"]
  /\ UNCHANGED <<today, downloads, recent, refreshed, served, lost, failures, crashes>>

\* Flush looks at the clock once the transaction has committed.
Write ==
  /\ flusher.pc = "write"
  /\ downloads' = Plus(downloads, batch)
  /\ recent' = Refreshed(downloads', Touched(batch))
  /\ batch' = None
  /\ flusher' = IF today # refreshed THEN [pc |-> "refresh", day |-> today] ELSE IdleFlush
  /\ UNCHANGED <<today, pending, refreshed, served, lost, failures, crashes>>

\* The transaction of a Flush, or its refresh, fails.
FlushFails(pc) ==
  /\ flusher.pc = pc
  /\ failures < MaxFail
  /\ failures' = failures + 1
  /\ UNCHANGED <<today, downloads, recent, refreshed, served, lost, crashes>>

\* Mutants: the batch takes the place of what was counted meanwhile; the
\* goroutine ends at the first error.
PutBackOver ==
  /\ FlushFails("write")
  /\ pending' = batch
  /\ batch' = None
  /\ flusher' = IdleFlush
PutBackAndStop ==
  /\ FlushFails("write")
  /\ pending' = Plus(pending, batch)
  /\ batch' = None
  /\ flusher' = [pc |-> "stopped"]

\* The transaction rolls back; the batch is put back.
PutBack ==
  /\ FlushFails("write")
  /\ pending' = Plus(pending, batch)
  /\ batch' = None
  /\ flusher' = IdleFlush

\* Mutant: modules without recent downloads are passed over.
RefreshActive ==
  /\ flusher.pc = "refresh"
  /\ recent' = Refreshed(downloads, {m \in Module : Recent(downloads, m) > 0})
  /\ refreshed' = flusher.day
  /\ flusher' = IdleFlush
  /\ UNCHANGED <<today, pending, batch, downloads, served, lost, failures, crashes>>

\* RefreshDownloads looks at the clock again, for the window.
Refresh ==
  /\ flusher.pc = "refresh"
  /\ recent' = Refreshed(downloads, Module)
  /\ refreshed' = flusher.day
  /\ flusher' = IdleFlush
  /\ UNCHANGED <<today, pending, batch, downloads, served, lost, failures, crashes>>

RefreshFails ==
  /\ FlushFails("refresh")
  /\ flusher' = IdleFlush
  /\ UNCHANGED <<pending, batch>>

-----------------------------------------------------------------------------
\* Any handler that reindexes a module computes its 30-day count anew.
ReindexCounts(m) ==
  /\ recent' = Refreshed(downloads, {m})
  /\ UNCHANGED <<today, pending, batch, downloads, refreshed, flusher, served, lost, failures, crashes>>

NextDay ==
  /\ today < MaxDay
  /\ today' = today + 1
  /\ UNCHANGED <<flushVars, served, lost, failures, crashes>>

\* The server goes down and comes up again.  Stop flushes first, so a server
\* that is shut down loses what is counted after that, or what the last
\* Flush fails to write.
Restart ==
  /\ crashes < MaxCrash
  /\ crashes' = crashes + 1
  /\ lost' = Plus(lost, Plus(pending, batch))
  /\ pending' = None
  /\ batch' = None
  /\ refreshed' = 0
  /\ flusher' = IdleFlush
  /\ UNCHANGED <<today, downloads, recent, served, failures>>

-----------------------------------------------------------------------------
Init ==
  /\ today = 1
  /\ pending = None
  /\ batch = None
  /\ downloads = None
  /\ recent = [m \in Module |-> 0]
  /\ refreshed = 0
  /\ flusher = IdleFlush
  /\ served = None
  /\ lost = None
  /\ failures = 0
  /\ crashes = 0

Flush == Take \/ Write \/ PutBack \/ Refresh \/ RefreshFails

Next ==
  \/ \E m \in Module : Count(m) \/ ReindexCounts(m)
  \/ Flush
  \/ NextDay
  \/ Restart

Spec == Init /\ [][Next]_downloadVars

\* The ticker goes off again and again, and a statement that is running ends.
FairSpec == Spec /\ WF_downloadVars(Flush)

-----------------------------------------------------------------------------
(* Properties.                                                             *)

DownloadsTypeOK ==
  /\ today \in Day
  /\ \A f \in {pending, batch, downloads, served, lost} : f \in [Key -> Nat]
  /\ recent \in [Module -> Nat]
  /\ refreshed \in Day \cup {0}
  /\ flusher \in {IdleFlush, [pc |-> "write"]} \cup [pc : {"refresh"}, day : Day]
  /\ flusher.pc # "write" => batch = None
  /\ failures \in 0..MaxFail
  /\ crashes \in 0..MaxCrash

\* Every download is counted once: it is in the table, in memory, or went
\* down with the server ("Counts that fail to write are kept for the next
\* attempt") -- though downloads go on while a batch is being written.
CountedOnce ==
  \A k \in Key : served[k] = downloads[k] + pending[k] + batch[k] + lost[k]

\* The 30-day count search sorts by is never less than what the table holds
\* for the window, though a batch may hold yesterday's downloads.
RecentNeverTooLow == \A m \in Module : recent[m] >= Recent(downloads, m)

\* Once the day's refresh is done, the 30-day count of every module is that
\* of its table: the days that left the window came off all of them.
RecentOnceRefreshed ==
  refreshed = today => \A m \in Module : recent[m] = Recent(downloads, m)

\* When nobody downloads any more -- MaxCount ends every behaviour so -- all
\* downloads come to the table, but for those that went down with the server,
\* though a transaction fails now and then ("Counts that fail to write are
\* kept for the next attempt").
AllWritten == \A k \in Key : served[k] = downloads[k] + lost[k]
CountsAreWritten == []<>AllWritten

=============================================================================

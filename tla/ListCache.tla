----------------------------- MODULE ListCache -----------------------------
(***************************************************************************)
(* A value that is expensive to compute and served a little stale: the     *)
(* listings and totals of the home page.  The first request loads it and   *)
(* holds the mutex meanwhile; later ones are answered with what is there,  *)
(* and the first to find it older than TTL starts a refresh in the         *)
(* background.  A load takes time: what it stores is what the tables held  *)
(* when it read them.  The tables are a counter of changes.                *)
(***************************************************************************)
EXTENDS Integers

CONSTANTS Loader,       \* goroutines that may refresh at the same time
          MaxChanges,   \* bound: how often the tables change
          MaxLoadFails  \* bound: how often a load fails

ASSUME CacheConstants == MaxChanges \in Nat /\ MaxLoadFails \in Nat

NotLoaded == -1
Resting == [pc |-> "resting"]

VARIABLES listed,      \* what a load reads
          val,         \* cached.val, NotLoaded as long as "has" is FALSE
          old,         \* the value is older than TTL
          refreshing,  \* cached.refreshing
          first,       \* the request that loads the value first, holding the mutex
          loader,      \* the refresh goroutines
          loadFails

cacheVars == <<listed, val, old, refreshing, first, loader, loadFails>>

-----------------------------------------------------------------------------
\* get, before there is a value.  Requests that come meanwhile wait for it.
FirstLoads ==
  /\ val = NotLoaded
  /\ first = Resting
  /\ first' = [pc |-> "loading", got |-> listed]
  /\ UNCHANGED <<listed, val, old, refreshing, loader, loadFails>>

FirstStores ==
  /\ first.pc = "loading"
  /\ val' = first.got
  /\ first' = Resting
  /\ UNCHANGED <<listed, old, refreshing, loader, loadFails>>

\* The request that waited for it fails, the next one loads.
FirstFails ==
  /\ first.pc = "loading"
  /\ loadFails < MaxLoadFails
  /\ loadFails' = loadFails + 1
  /\ first' = Resting
  /\ UNCHANGED <<listed, val, old, refreshing, loader>>

\* Mutant: every request that finds the value old starts a refresh.
AskAlways(l) ==
  /\ val # NotLoaded
  /\ old
  /\ loader[l] = Resting
  /\ refreshing' = TRUE
  /\ loader' = [loader EXCEPT ![l] = [pc |-> "started"]]
  /\ UNCHANGED <<listed, val, old, first, loadFails>>

\* get, with a value that is old: it is answered with it, and one refresh
\* starts.  (With a value that is not old nothing changes.)
AskForPage(l) ==
  /\ val # NotLoaded
  /\ old
  /\ ~refreshing
  /\ loader[l] = Resting
  /\ refreshing' = TRUE
  /\ loader' = [loader EXCEPT ![l] = [pc |-> "started"]]
  /\ UNCHANGED <<listed, val, old, first, loadFails>>

RefreshReads(l) ==
  /\ loader[l].pc = "started"
  /\ loader' = [loader EXCEPT ![l] = [pc |-> "loaded", got |-> listed]]
  /\ UNCHANGED <<listed, val, old, refreshing, first, loadFails>>

RefreshStores(l) ==
  /\ loader[l].pc = "loaded"
  /\ val' = loader[l].got
  /\ old' = FALSE
  /\ refreshing' = FALSE
  /\ loader' = [loader EXCEPT ![l] = Resting]
  /\ UNCHANGED <<listed, first, loadFails>>

\* Mutant: the flag is put back only with a new value.
FailsRefreshing(l) ==
  /\ loader[l].pc = "started"
  /\ loadFails < MaxLoadFails
  /\ loadFails' = loadFails + 1
  /\ loader' = [loader EXCEPT ![l] = Resting]
  /\ UNCHANGED <<listed, val, old, refreshing, first>>

\* On failure it keeps the old value, which stays old.
RefreshGivesUp(l) ==
  /\ loader[l].pc = "started"
  /\ loadFails < MaxLoadFails
  /\ loadFails' = loadFails + 1
  /\ refreshing' = FALSE
  /\ loader' = [loader EXCEPT ![l] = Resting]
  /\ UNCHANGED <<listed, val, old, first>>

-----------------------------------------------------------------------------
TablesChange ==
  /\ listed < MaxChanges
  /\ listed' = listed + 1
  /\ UNCHANGED <<val, old, refreshing, first, loader, loadFails>>

\* TTL passes since the value was stored.
ValueAges ==
  /\ val # NotLoaded
  /\ ~old
  /\ old' = TRUE
  /\ UNCHANGED <<listed, val, refreshing, first, loader, loadFails>>

CacheInit ==
  /\ listed = 0
  /\ val = NotLoaded
  /\ old = FALSE
  /\ refreshing = FALSE
  /\ first = Resting
  /\ loader = [l \in Loader |-> Resting]
  /\ loadFails = 0

PageRequest == FirstLoads \/ \E l \in Loader : AskForPage(l)
LoadPage == FirstStores \/ FirstFails \/ \E l \in Loader : RefreshReads(l) \/ RefreshStores(l) \/ RefreshGivesUp(l)

CacheNext == PageRequest \/ LoadPage \/ TablesChange \/ ValueAges

\* A load ends, by its timeout at the latest; time passes; and the page is
\* asked for again and again, which is what its freshness is for.
CacheFairness == WF_cacheVars(LoadPage) /\ WF_cacheVars(ValueAges) /\ WF_cacheVars(PageRequest)
CacheSpec == CacheInit /\ [][CacheNext]_cacheVars /\ CacheFairness

-----------------------------------------------------------------------------
(* Properties.                                                             *)

CacheTypeOK ==
  /\ listed \in 0..MaxChanges
  /\ val \in {NotLoaded} \cup 0..listed
  /\ old \in BOOLEAN
  /\ refreshing \in BOOLEAN
  /\ first \in {Resting} \cup [pc : {"loading"}, got : 0..listed]
  /\ loader \in [Loader -> {Resting, [pc |-> "started"]} \cup [pc : {"loaded"}, got : 0..listed]]
  /\ loadFails \in 0..MaxLoadFails

\* What is served never goes back to an earlier state of the tables, though
\* loads take their time: a page does not lose a module it already listed.
ServedNeverGoesBack == [][val' >= val]_cacheVars

\* A page that is asked for again and again comes to show the tables of now,
\* once they no longer change, though loads failed in between.
ServedBecomesCurrent == <>[](val = listed)

=============================================================================

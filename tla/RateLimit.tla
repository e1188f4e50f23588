----------------------------- MODULE RateLimit -----------------------------
(***************************************************************************)
(* The limit on guesses and sign-ups: a counter per key for a fixed        *)
(* window of time, that starts with the first event.  Buckets that are     *)
(* over are cleared when there are many, at most once per SweepEvery, and  *)
(* a new key is refused when the table is full.  Allow is one step: it     *)
(* holds the mutex throughout.                                             *)
(***************************************************************************)
EXTENDS Integers, FiniteSets, Functions

CONSTANTS Client,      \* keys, usually addresses
          Limit,       \* Limiter.Max
          Span,        \* Limiter.Window
          SweepEvery,  \* one second
          SweepAbove,  \* sweepAbove
          MaxKeys,     \* maxKeys
          LastMoment,  \* bound: the clock stops there
          MaxTries     \* bound: events counted in one bucket

ASSUME LimiterConstants ==
  /\ Limit \in Nat \ {0}
  /\ Span \in Nat \ {0}
  /\ SweepEvery \in Nat \ {0}
  /\ SweepAbove \in Nat
  /\ MaxKeys \in Nat
  /\ SweepAbove < MaxKeys
  /\ LastMoment \in Nat /\ Span <= LastMoment
  /\ MaxTries \in Nat
  /\ Limit < MaxTries

NoBucket == [start |-> -1, count |-> 0]
Nobody == [is |-> "none"]
Clock == Span..LastMoment

VARIABLES moment,
          buckets,    \* Limiter.buckets
          lastSweep,  \* Limiter.lastSweep
          verdict,    \* the last answer
          allowed     \* history: how many events of a client were allowed at a time

limitVars == <<moment, buckets, lastSweep, verdict, allowed>>

Held(table) == {c \in Client : table[c] # NoBucket}
Over(bucket) == moment - bucket.start >= Span
Swept == [c \in Client |-> IF Over(buckets[c]) THEN NoBucket ELSE buckets[c]]

\* Mutants of SweepDue: when the table is full already; mutant of
\* Counted: the window starts anew with each event.
SweepWhenFull == Cardinality(Held(buckets)) > MaxKeys /\ moment - lastSweep >= SweepEvery
CountedFromNow(table, c) ==
  IF table[c] = NoBucket \/ Over(table[c]) THEN [start |-> moment, count |-> 1]
                                            ELSE [start |-> moment, count |-> table[c].count + 1]
\* Mutant of Remaining: buckets are cleared although their window is not over.
AllSwept(due) == IF due THEN [c \in Client |-> IF moment > buckets[c].start THEN NoBucket ELSE buckets[c]] ELSE buckets

\* Mutant of IsFull: one key too many.
IsFullLate(table) == Cardinality(Held(table)) > MaxKeys

SweepDue == Cardinality(Held(buckets)) > SweepAbove /\ moment - lastSweep >= SweepEvery
IsFull(table) == Cardinality(Held(table)) >= MaxKeys
Remaining(due) == IF due THEN Swept ELSE buckets
Counted(table, c) ==
  IF table[c] = NoBucket \/ Over(table[c]) THEN [start |-> moment, count |-> 1]
                                            ELSE [table[c] EXCEPT !.count = @ + 1]

-----------------------------------------------------------------------------
Allow(c) ==
  LET table == Remaining(SweepDue)
      full == table[c] = NoBucket /\ IsFull(table)
      bucket == Counted(table, c)
  IN /\ lastSweep' = IF SweepDue THEN moment ELSE lastSweep
     /\ \/ /\ full
           /\ buckets' = table
           /\ verdict' = [is |-> "full", client |-> c]
           /\ allowed' = allowed
        \/ /\ ~full
           /\ bucket.count <= MaxTries
           /\ buckets' = [table EXCEPT ![c] = bucket]
           /\ verdict' = [is |-> IF bucket.count <= Limit THEN "allowed" ELSE "refused", client |-> c]
           /\ allowed' = IF bucket.count <= Limit THEN [allowed EXCEPT ![c][moment] = @ + 1] ELSE allowed
     /\ moment' = moment

MomentPasses ==
  /\ moment < LastMoment
  /\ moment' = moment + 1
  /\ verdict' = Nobody
  /\ UNCHANGED <<buckets, lastSweep, allowed>>

LimitInit ==
  /\ moment = Span
  /\ buckets = [c \in Client |-> NoBucket]
  /\ lastSweep = 0
  /\ verdict = Nobody
  /\ allowed = [c \in Client |-> [t \in Clock |-> 0]]

LimitNext == (\E c \in Client : Allow(c)) \/ MomentPasses
LimitSpec == LimitInit /\ [][LimitNext]_limitVars

-----------------------------------------------------------------------------
(* Properties.                                                             *)

LimitTypeOK ==
  /\ moment \in Clock
  /\ buckets \in [Client -> {NoBucket} \cup [start : Clock, count : 1..MaxTries]]
  /\ lastSweep \in 0..LastMoment
  /\ verdict \in {Nobody} \cup [is : {"allowed", "refused", "full"}, client : Client]
  /\ allowed \in [Client -> [Clock -> 0..Limit]]
  /\ Cardinality(Held(buckets)) <= MaxKeys

AllowedFrom(c, t) == SumFunctionOnSet(allowed[c], {u \in Clock : t <= u /\ u < t + Span})

\* Whatever the times of the events, no client has more than twice Limit of
\* them allowed in any span of time as long as the window: the end of one
\* window and the start of the next.  Clearing buckets adds nothing.
AtMostTwice == \A c \in Client, t \in Clock : AllowedFrom(c, t) <= 2 * Limit

\* A client is refused, but for a full table, only if it had Limit events
\* allowed in the last Span: to go on trying does not keep it out.
RefusedHadTheirShare ==
  verdict.is = "refused" => AllowedFrom(verdict.client, moment - Span + 1) >= Limit

\* The table turns a client away only for buckets that were in use until less
\* than SweepEvery ago ("With the map full of live buckets, new keys are
\* refused until old ones expire").
FullOfLiveBuckets ==
  verdict.is = "full" => \A c \in Held(buckets) : buckets[c].start > moment - Span - SweepEvery

\* The limiter lets no more through than that, and turns nobody else away.
LimitIsKept == AtMostTwice /\ RefusedHadTheirShare /\ FullOfLiveBuckets

=============================================================================

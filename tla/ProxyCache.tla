----------------------------- MODULE ProxyCache -----------------------------
(***************************************************************************)
(* The client of the public module proxy keeps answers in memory: for a    *)
(* time, and within a number of entries and of bytes, of which it keeps    *)
(* count.  Requests that miss ask the proxy at the same time, and each     *)
(* stores what it got.  What the proxy would answer for a key changes when *)
(* a version is released.                                                  *)
(***************************************************************************)
EXTENDS Integers, FiniteSets, Functions

CONSTANTS Key,            \* paths at the proxy
          Asker,          \* requests at the same time
          SizeOf,         \* how many bytes the n-th answer for a key has
          MaxEntries, MaxBytes,
          MaxCachedBody,  \* what is larger is not kept
          CacheTTL,       \* mutableTTL
          Slowest,        \* the timeout of the HTTP client
          LastTick,       \* bound: the time
          Releases        \* bound: how often an answer changes

ASSUME ProxyCacheConstants ==
  /\ IsFiniteSet(Key)
  /\ SizeOf \in [Key \X (0..Releases) -> Nat]
  /\ MaxEntries \in Nat \ {0} /\ MaxBytes \in Nat
  /\ MaxCachedBody \in 0..MaxBytes
  /\ {CacheTTL, Slowest, LastTick, Releases} \subseteq Nat

VARIABLES tick,
          current,  \* what the proxy answers: how often it changed
          ended,    \* history: when each answer was no longer the proxy's
          cached,   \* ttlCache.items
          bytes,    \* ttlCache.bytes
          asker

proxyCacheVars == <<tick, current, ended, cached, bytes, asker>>

NotKept == [n |-> -1]
NotAsking == [pc |-> "idle"]
Kept == {k \in Key : cached[k] # NotKept}

\* Mutant: what was kept is used whatever its time.
KeptAtAll(k) == cached[k] # NotKept
Live(k) == cached[k] # NotKept /\ tick <= cached[k].expires
Bytes(items) == SumFunctionOnSet([k \in Key |-> IF items[k] = NotKept THEN 0 ELSE SizeOf[<<k, items[k].n>>]], Key)

-----------------------------------------------------------------------------
\* Client.get: from the cache, or from the proxy.
AskFor(a, k) ==
  /\ asker[a] = NotAsking
  /\ asker' = [asker EXCEPT ![a] =
       IF Live(k) THEN [pc |-> "done", key |-> k, n |-> cached[k].n]
                  ELSE [pc |-> "asking", key |-> k, since |-> tick]]
  /\ UNCHANGED <<tick, current, ended, cached, bytes>>

ProxyAnswers(a) ==
  /\ asker[a].pc = "asking"
  /\ asker' = [asker EXCEPT ![a] = [pc |-> "answered", key |-> @.key, n |-> current[@.key], since |-> @.since]]
  /\ UNCHANGED <<tick, current, ended, cached, bytes>>

ProxyFails(a) ==
  /\ asker[a].pc \in {"asking", "answered"}
  /\ asker' = [asker EXCEPT ![a] = NotAsking]
  /\ UNCHANGED <<tick, current, ended, cached, bytes>>

Without(items, gone) == [k \in Key |-> IF k \in gone THEN NotKept ELSE items[k]]
Count(items) == Cardinality({k \in Key : items[k] # NotKept})
Full(items, counted, size) == Count(items) >= MaxEntries \/ counted + size > MaxBytes

\* Mutant: the bytes of the answer that is replaced stay counted.
StillCounted(k) == 0
Replaced(k) == IF cached[k] = NotKept THEN 0 ELSE SizeOf[<<k, cached[k].n>>]

\* Mutant: a full cache is emptied only when it has too many entries.
FullOfEntries(items, counted, size) == Count(items) >= MaxEntries
StillFull(items, counted, size) == Full(items, counted, size)

\* ttlCache.put: the old answer goes; of a full cache those that expired,
\* and if that does not do, all of them.
Put(k, n) ==
  LET size == SizeOf[<<k, n>>]
      others == Without(cached, {k})
      counted == bytes - Replaced(k)
      expired == {j \in Key : others[j] # NotKept /\ tick > others[j].expires}
      swept == IF Full(others, counted, size) THEN Without(others, expired) ELSE others
      sweptBytes == IF Full(others, counted, size)
                    THEN counted - (Bytes(others) - Bytes(swept)) ELSE counted
      clear == Full(others, counted, size) /\ StillFull(swept, sweptBytes, size)
  IN /\ cached' = [(IF clear THEN Without(cached, Key) ELSE swept) EXCEPT ![k] = [n |-> n, expires |-> tick + CacheTTL]]
     /\ bytes' = (IF clear THEN 0 ELSE sweptBytes) + size

KeepAnswer(a) ==
  /\ asker[a].pc = "answered"
  /\ IF SizeOf[<<asker[a].key, asker[a].n>>] > MaxCachedBody
     THEN UNCHANGED <<cached, bytes>>
     ELSE Put(asker[a].key, asker[a].n)
  /\ asker' = [asker EXCEPT ![a] = [pc |-> "done", key |-> @.key, n |-> @.n]]
  /\ UNCHANGED <<tick, current, ended>>

Leave(a) ==
  /\ asker[a].pc = "done"
  /\ asker' = [asker EXCEPT ![a] = NotAsking]
  /\ UNCHANGED <<tick, current, ended, cached, bytes>>

ProxyChanges(k) ==
  /\ current[k] < Releases
  /\ current' = [current EXCEPT ![k] = @ + 1]
  /\ ended' = [ended EXCEPT ![<<k, current[k]>>] = tick]
  /\ UNCHANGED <<tick, cached, bytes, asker>>

\* A request that takes longer than the client's timeout has failed.
TickGoesOn ==
  /\ tick < LastTick
  /\ \A a \in Asker : asker[a].pc \in {"asking", "answered"} => tick < asker[a].since + Slowest
  /\ \A a \in Asker : asker[a].pc # "done"
  /\ tick' = tick + 1
  /\ UNCHANGED <<current, ended, cached, bytes, asker>>

ProxyCacheInit ==
  /\ tick = 0
  /\ current = [k \in Key |-> 0]
  /\ ended = [kn \in Key \X (0..Releases) |-> LastTick]
  /\ cached = [k \in Key |-> NotKept]
  /\ bytes = 0
  /\ asker = [a \in Asker |-> NotAsking]

ProxyCacheNext ==
  \/ \E a \in Asker : (\E k \in Key : AskFor(a, k)) \/ ProxyAnswers(a) \/ ProxyFails(a) \/ KeepAnswer(a) \/ Leave(a)
  \/ \E k \in Key : ProxyChanges(k)
  \/ TickGoesOn

ProxyCacheSpec == ProxyCacheInit /\ [][ProxyCacheNext]_proxyCacheVars

-----------------------------------------------------------------------------
ProxyCacheTypeOK ==
  /\ tick \in 0..LastTick
  /\ current \in [Key -> 0..Releases]
  /\ cached \in [Key -> {NotKept} \cup [n : 0..Releases, expires : 0..LastTick + CacheTTL]]
  /\ bytes \in Nat

\* The count of bytes is that of the answers that are kept, however they are
\* replaced and swept, and neither limit is exceeded.
BytesAreCounted == bytes = Bytes(cached)
CacheIsBounded == Cardinality(Kept) <= MaxEntries /\ Bytes(cached) <= MaxBytes

\* Whatever requests overtake each other, an answer was the proxy's at most
\* the time to live, and one request, ago.
AnswersAreRecent ==
  \A a \in Asker : asker[a].pc = "done" =>
    \/ asker[a].n = current[asker[a].key]
    \/ ended[<<asker[a].key, asker[a].n>>] >= tick - (CacheTTL + Slowest)

\* The cache stays within its bounds, and within its time.
CacheIsKept == BytesAreCounted /\ CacheIsBounded /\ AnswersAreRecent
=============================================================================

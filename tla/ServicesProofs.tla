--------------------------- MODULE ServicesProofs ---------------------------
(***************************************************************************)
(* What the services beside the registry's tables promise, for any keys,   *)
(* clients, programs and times: the keys that are trusted follow those the *)
(* issuer publishes; the schema is whole and nothing stored is lost with a *)
(* machine that has a copy; the rate limit and the cache of the module     *)
(* proxy keep their bounds; advisories are numbered and changed in order,  *)
(* and tools that follow them miss none; what a reader is told was so; the *)
(* pages of a search are one list.                                         *)
(***************************************************************************)
EXTENDS Services, Sums, FiniteSetTheorems, SequenceTheorems, TLAPS

-----------------------------------------------------------------------------
(* Keys of the issuer.                                                     *)

\* Nothing that is remembered is from the future.
TimesAreOver ==
  /\ KeysTTL <= time /\ fetchedAt <= time
  /\ \A k \in Kid : since[k] <= time /\ until[k] <= time
  /\ lookup # NoLookup => lookup.asked <= time
  /\ answer # NoAnswer => answer.asked <= time

\* A set of keys is what the issuer published at time t or later: its keys
\* were still published then, and keys it lacks were not published before.
AsOf(set, t) ==
  /\ \A k \in set : LastPublished(k) >= t
  /\ \A k \in issuerKeys \ set : since[k] >= t

\* The kept set is as of when it was asked for, which is why KeepKeys must
\* not look at the clock; so is the one that is on its way.
SetsAreDated ==
  /\ AsOf(keys, fetchedAt)
  /\ lookup.pc = "fetched" => AsOf(lookup.got, lookup.asked)

\* What a lookup has learned: the kept set is young enough to say no, and a
\* key that was found was published within KeysTTL.
LookupsAreYoung ==
  /\ lookup.pc = "find" => lookup.asked < fetchedAt + RefetchEvery
  /\ lookup.pc = "claims" => lookup.down \/ LastPublished(lookup.kid) + KeysTTL > lookup.asked

KeysInv ==
  /\ KeysTypeOK /\ TimesAreOver /\ SetsAreDated /\ LookupsAreYoung
  /\ KeysFollowTheIssuer

\* It holds at first: nothing is kept.
LEMMA KeysInitially == KeysInit => KeysInv
  <1> SUFFICES ASSUME KeysInit PROVE KeysInv
    OBVIOUS
  <1> USE KeysConstants DEF KeysInit, Longago, NoLookup, NoAnswer
  <1>1. KeysTypeOK
    BY DEF KeysTypeOK, Time
  <1>2. TimesAreOver
    BY DEF TimesAreOver
  <1>3. SetsAreDated
    BY DEF SetsAreDated, AsOf, LastPublished
  <1>4. LookupsAreYoung /\ KeysFollowTheIssuer
    BY DEF LookupsAreYoung, KeysFollowTheIssuer, AcceptedKeysAreFresh, RefusedKeysAreNew
  <1> QED
    BY <1>1, <1>2, <1>3, <1>4 DEF KeysInv

\* What is written to lookup and answer is of their types.
LEMMA RecordTypes ==
  ASSUME NEW k \in Kid, NEW t \in Time
  PROVE  /\ [pc |-> "fetch", kid |-> k, asked |-> t] \in [pc : {"fetch", "find"}, kid : Kid, asked : Time]
         /\ [pc |-> "find", kid |-> k, asked |-> t] \in [pc : {"fetch", "find"}, kid : Kid, asked : Time]
  OBVIOUS

\* A lookup in any state, by what it is doing.
LEMMA LookupForms ==
  ASSUME KeysTypeOK
  PROVE  /\ lookup # NoLookup => lookup.kid \in Kid /\ lookup.asked \in Time
         /\ lookup.pc = "fetched" => lookup.got \in SUBSET Kid
         /\ lookup.pc = "claims" => lookup.down \in BOOLEAN
         /\ lookup.pc # "idle" <=> lookup # NoLookup
         /\ answer.is # "none" => answer # NoAnswer
         /\ answer # NoAnswer => answer.kid \in Kid /\ answer.asked \in Time
         /\ answer.is = "accepted" => answer.down \in BOOLEAN
  BY DEF KeysTypeOK, NoLookup, NoAnswer

\* Every step keeps it.
LEMMA KeysStep == KeysInv /\ [KeysNext]_keyVars => KeysInv'
  <1> SUFFICES ASSUME KeysInv, [KeysNext]_keyVars PROVE KeysInv'
    OBVIOUS
  <1> USE KeysConstants, LookupForms DEF KeysInv, Longago
  <1>1. ASSUME NEW k \in Kid, Verify(k) PROVE KeysInv'
    <2> USE <1>1 DEF Verify, issuerVars
    <2> DEFINE Lookups(pcs) == [pc : pcs, kid : Kid, asked : Time]
    <2>a. time \in Time
      BY DEF KeysTypeOK
    <2>b. lookup' \in Lookups({"fetch", "find"}) \cup [pc : {"claims"}, kid : Kid, asked : Time, down : BOOLEAN]
      <3>1. CASE KeyFresh(k)
        <4>1. \E d \in BOOLEAN : lookup' = [pc |-> "claims", kid |-> k, asked |-> time, down |-> d]
          BY <3>1
        <4> QED
          BY <2>a, <4>1
      <3>2. CASE ~KeyFresh(k)
        BY <2>a, <3>2, RecordTypes
      <3> QED
        BY <3>1, <3>2
    <2>1. KeysTypeOK'
      BY <2>b DEF KeysTypeOK
    <2>2. TimesAreOver'
      BY DEF TimesAreOver, KeysTypeOK, NoLookup, NoAnswer, Time
    <2>3. SetsAreDated'
      BY DEF SetsAreDated, AsOf, LastPublished
    <2>4. LookupsAreYoung'
      BY DEF LookupsAreYoung, LastPublished, SetsAreDated, AsOf, KeyFresh, KnownUnneeded, KeysTypeOK, Time
    <2>5. KeysFollowTheIssuer'
      BY DEF KeysFollowTheIssuer, AcceptedKeysAreFresh, RefusedKeysAreNew, NoAnswer
    <2> QED
      BY <2>1, <2>2, <2>3, <2>4, <2>5
  <1>2. CASE IssuerAnswers
    <2> USE <1>2 DEF IssuerAnswers, issuerVars
    <2>1. KeysTypeOK'
      BY DEF KeysTypeOK, NoLookup
    <2>2. TimesAreOver'
      BY DEF TimesAreOver, NoLookup
    <2>3. SetsAreDated'
      BY DEF SetsAreDated, AsOf, LastPublished, KeysTypeOK, TimesAreOver, Time
    <2>4. LookupsAreYoung' /\ KeysFollowTheIssuer'
      BY DEF LookupsAreYoung, KeysFollowTheIssuer, AcceptedKeysAreFresh, RefusedKeysAreNew, LastPublished
    <2> QED
      BY <2>1, <2>2, <2>3, <2>4
  <1>3. CASE FetchFails
    <2> USE <1>3 DEF FetchFails, issuerVars
    <2>a. lookup.kid \in Kid /\ lookup.asked \in Time
      BY DEF NoLookup
    <2>b. lookup' = NoLookup \/ lookup' \in [pc : {"claims"}, kid : Kid, asked : Time, down : BOOLEAN]
      <3>1. CASE lookup.kid \in keys
        <4>1. \E d \in BOOLEAN : lookup' = [pc |-> "claims", kid |-> lookup.kid, asked |-> lookup.asked, down |-> d]
          BY <3>1
        <4> QED
          BY <2>a, <4>1
      <3>2. CASE lookup.kid \notin keys
        BY <3>2
      <3> QED
        BY <3>1, <3>2
    <2>c. answer' = answer \/ answer' \in [is : {"unknown", "unavailable", "invalid"}, kid : Kid, asked : Time]
      BY <2>a DEF Answer
    <2>1. KeysTypeOK'
      BY <2>b, <2>c DEF KeysTypeOK
    <2>2. TimesAreOver'
      BY DEF TimesAreOver, NoLookup, Answer
    <2>3. SetsAreDated'
      BY DEF SetsAreDated, AsOf, LastPublished, NoLookup
    <2>4. LookupsAreYoung'
      BY DEF LookupsAreYoung, NoLookup
    <2>5. KeysFollowTheIssuer'
      BY DEF KeysFollowTheIssuer, AcceptedKeysAreFresh, RefusedKeysAreNew, LastPublished, Answer
    <2> QED
      BY <2>1, <2>2, <2>3, <2>4, <2>5
  <1>4. CASE KeepKeys
    <2> USE <1>4 DEF KeepKeys, issuerVars
    <2>1. KeysTypeOK'
      BY DEF KeysTypeOK, NoLookup
    <2>2. TimesAreOver'
      BY DEF TimesAreOver, NoLookup
    <2>3. SetsAreDated'
      BY DEF SetsAreDated, AsOf, LastPublished
    <2>4. LookupsAreYoung' /\ KeysFollowTheIssuer'
      BY DEF LookupsAreYoung, KeysFollowTheIssuer, AcceptedKeysAreFresh, RefusedKeysAreNew, LastPublished, KeysTypeOK, Time
    <2> QED
      BY <2>1, <2>2, <2>3, <2>4
  <1>5. CASE FindKey
    <2> USE <1>5 DEF FindKey, issuerVars
    <2>a. lookup.kid \in Kid /\ lookup.asked \in Time
      BY DEF NoLookup
    <2>b. lookup' = NoLookup \/ lookup' \in [pc : {"claims"}, kid : Kid, asked : Time, down : BOOLEAN]
      <3>1. CASE lookup.kid \in keys
        <4>1. \E d \in BOOLEAN : lookup' = [pc |-> "claims", kid |-> lookup.kid, asked |-> lookup.asked, down |-> d]
          BY <3>1
        <4> QED
          BY <2>a, <4>1
      <3>2. CASE lookup.kid \notin keys
        BY <3>2
      <3> QED
        BY <3>1, <3>2
    <2>c. answer' = answer \/ answer' \in [is : {"unknown", "unavailable", "invalid"}, kid : Kid, asked : Time]
      BY <2>a DEF Answer
    <2>1. KeysTypeOK'
      BY <2>b, <2>c DEF KeysTypeOK
    <2>2. TimesAreOver'
      BY DEF TimesAreOver, NoLookup, Answer
    <2>3. SetsAreDated'
      BY DEF SetsAreDated, AsOf, LastPublished, NoLookup
    <2>4. LookupsAreYoung'
      BY DEF LookupsAreYoung, SetsAreDated, AsOf, LastPublished, NoLookup, KeysTypeOK, Time
    <2>5. RefusedKeysAreNew'
      BY DEF RefusedKeysAreNew, KeysFollowTheIssuer, LookupsAreYoung, SetsAreDated, AsOf, Answer, KeysTypeOK, Time
    <2>6. AcceptedKeysAreFresh'
      BY DEF AcceptedKeysAreFresh, KeysFollowTheIssuer, LastPublished, Answer
    <2> QED
      BY <2>1, <2>2, <2>3, <2>4, <2>5, <2>6 DEF KeysFollowTheIssuer
  <1>6. CASE CheckClaims
    <2> USE <1>6 DEF CheckClaims, issuerVars
    <2>1. KeysTypeOK'
      BY DEF KeysTypeOK, NoLookup, Answer
    <2>2. TimesAreOver'
      BY DEF TimesAreOver, NoLookup, Answer
    <2>3. SetsAreDated' /\ LookupsAreYoung'
      BY DEF SetsAreDated, LookupsAreYoung, AsOf, LastPublished, NoLookup
    <2>4. KeysFollowTheIssuer'
      BY DEF KeysFollowTheIssuer, AcceptedKeysAreFresh, RefusedKeysAreNew, LookupsAreYoung, LastPublished, Answer
    <2> QED
      BY <2>1, <2>2, <2>3, <2>4
  <1>7. ASSUME NEW k \in Kid, Rotate(k) PROVE KeysInv'
    <2> USE <1>7 DEF Rotate
    <2>1. KeysTypeOK'
      BY DEF KeysTypeOK
    <2>2. TimesAreOver'
      BY DEF TimesAreOver, KeysTypeOK, Time
    <2>3. \A n \in Kid : LastPublished(n)' >= LastPublished(n)
      BY DEF LastPublished, TimesAreOver, KeysTypeOK, Time
    <2>4. \A n \in issuerKeys' : (n \in issuerKeys /\ since'[n] = since[n]) \/ since'[n] = time
      BY DEF KeysTypeOK
    <2>5. \A n \in Kid : LastPublished(n) \in Int /\ LastPublished(n)' \in Int
      BY <2>1 DEF LastPublished, KeysTypeOK, Time
    <2>6. SetsAreDated'
      BY <2>1, <2>3, <2>4, <2>5 DEF SetsAreDated, AsOf, TimesAreOver, KeysTypeOK, Time, NoLookup
    <2>7. LookupsAreYoung'
      BY <2>3, <2>5 DEF LookupsAreYoung, KeysTypeOK, Time, NoLookup
    <2>8. KeysFollowTheIssuer'
      BY <2>1, <2>3, <2>4, <2>5 DEF KeysFollowTheIssuer, AcceptedKeysAreFresh, RefusedKeysAreNew,
         TimesAreOver, KeysTypeOK, Time, NoAnswer
    <2> QED
      BY <2>1, <2>2, <2>6, <2>7, <2>8
  <1>8. CASE KeysTick
    <2> USE <1>8 DEF KeysTick, issuerVars
    <2>1. KeysTypeOK'
      BY DEF KeysTypeOK, Time
    <2>2. TimesAreOver'
      BY DEF TimesAreOver, KeysTypeOK, Time
    <2>3. \A n \in Kid : LastPublished(n)' >= LastPublished(n) /\ LastPublished(n) \in Int /\ LastPublished(n)' \in Int
      BY <2>1 DEF LastPublished, KeysTypeOK, Time
    <2>4. SetsAreDated' /\ LookupsAreYoung'
      BY <2>3 DEF SetsAreDated, LookupsAreYoung, AsOf, KeysTypeOK, Time, NoLookup
    <2>5. KeysFollowTheIssuer'
      BY <2>3 DEF KeysFollowTheIssuer, AcceptedKeysAreFresh, RefusedKeysAreNew, KeysTypeOK, Time, NoAnswer
    <2> QED
      BY <2>1, <2>2, <2>4, <2>5
  <1>9. CASE UNCHANGED keyVars
    BY <1>9 DEF keyVars, issuerVars, KeysTypeOK, TimesAreOver, SetsAreDated, AsOf, LastPublished, LookupsAreYoung,
                KeysFollowTheIssuer, AcceptedKeysAreFresh, RefusedKeysAreNew
  <1> QED
    BY <1>1, <1>2, <1>3, <1>4, <1>5, <1>6, <1>7, <1>8, <1>9 DEF KeysNext

\* The types of module OidcKeys: clocks, key sets, lookups and answers.
THEOREM KeysTypes == KeysSpec => []KeysTypeOK
  <1>1. KeysInv => KeysTypeOK
    BY DEF KeysInv
  <1> QED
    BY KeysInitially, KeysStep, <1>1, PTL DEF KeysSpec

\* Verifier.key, with its two early answers and its failures: a token that is
\* accepted has a key the issuer published within KeysTTL, unless the issuer
\* cannot be asked; and a published key is called unknown for RefetchEvery
\* at most.
THEOREM TrustFollowsTheIssuer == KeysSpec => []KeysFollowTheIssuer
  <1>1. KeysInv => KeysFollowTheIssuer
    BY DEF KeysInv
  <1> QED
    BY KeysInitially, KeysStep, <1>1, PTL DEF KeysSpec

-----------------------------------------------------------------------------
(* Migrations.                                                             *)

Working == {"next", "check", "apply"}

\* Who checks whether a migration was applied, or applies it, has the lock;
\* so what was found out is still true when the statements are committed.
TheLockIsHeld ==
  \A p \in Program :
    /\ ProgramAt(p, "check") \/ ProgramAt(p, "apply") => p \in lock
    /\ ProgramAt(p, "apply") => program[p].at \notin applied

\* A program gets to a migration after all those before it.
OneAfterAnother ==
  \A p \in Program :
    program[p].pc \in Working =>
      /\ program[p].at \in 1..Knows[p]
      /\ \A n \in 1..Knows[p] : n < program[p].at => n \in applied

MigrationInv == MigrationTypeOK /\ SchemaIsWhole /\ TheLockIsHeld /\ OneAfterAnother

\* Going on from migration n, which was applied with all before it.
LEMMA GoesOnRightly ==
  ASSUME NEW p \in Program, NEW n \in Nat, n <= Knows[p], MigrationTypeOK, GoesOn(p, n),
         \A i \in 1..Knows[p] : i <= n => i \in applied'
  PROVE  /\ program' \in [Program -> [pc : {"none", "next", "check", "apply", "open"}, at : Nat]]
         /\ \A q \in Program : q # p => program'[q] = program[q]
         /\ program'[p].pc \in {"next", "open"}
         /\ program'[p].pc = "next" => program'[p].at \in 1..Knows[p] /\ program'[p].at = n + 1
         /\ program'[p].pc = "open" => \A i \in 1..Knows[p] : i \in applied'
  <1> USE MigrationConstants DEF MigrationTypeOK, GoesOn, Does
  <1>1. Knows[p] \in Nat
    OBVIOUS
  <1> DEFINE Work == [pc : {"none", "next", "check", "apply", "open"}, at : Nat]
  <1>a. [pc |-> "next", at |-> n + 1] \in Work /\ [pc |-> "open", at |-> n] \in Work
    OBVIOUS
  <1>2. CASE n < Knows[p]
    <2>1. program' = [program EXCEPT ![p] = [pc |-> "next", at |-> n + 1]]
      BY <1>2
    <2>2. program'[p] = [pc |-> "next", at |-> n + 1] /\ program' \in [Program -> Work]
      BY <1>a, <2>1
    <2> QED
      BY <1>1, <1>2, <2>1, <2>2
  <1>3. CASE ~(n < Knows[p])
    <2>1. program' = [program EXCEPT ![p] = [pc |-> "open", at |-> n]]
      BY <1>3
    <2>2. program'[p] = [pc |-> "open", at |-> n] /\ program' \in [Program -> Work]
      BY <1>a, <2>1
    <2> QED
      BY <1>1, <1>3, <2>1, <2>2
  <1> QED
    BY <1>2, <1>3

\* It holds at first.
LEMMA MigrationsInitially == MigrationInit => MigrationInv
  BY MigrationConstants
     DEF MigrationInit, MigrationInv, MigrationTypeOK, SchemaIsWhole, AppliedInOrder, OpenIsMigrated, TheLockIsHeld,
         OneAfterAnother, Working, ProgramAt, NotRunning

\* Every step keeps it.
LEMMA MigrationStep == MigrationInv /\ [MigrationNext]_migrationVars => MigrationInv'
  <1> SUFFICES ASSUME MigrationInv, [MigrationNext]_migrationVars PROVE MigrationInv'
    OBVIOUS
  <1> USE MigrationConstants DEF MigrationInv, SchemaIsWhole
  <1>1. ASSUME NEW p \in Program, OpenDatabase(p) PROVE MigrationInv'
    <2> USE <1>1 DEF OpenDatabase
    <2>1. Knows[p] \in Nat
      OBVIOUS
    <2>2. /\ program' \in [Program -> [pc : {"none", "next", "check", "apply", "open"}, at : Nat]]
          /\ \A q \in Program : q # p => program'[q] = program[q]
          /\ program'[p].pc \in {"next", "open"}
          /\ program'[p].pc = "next" => program'[p].at \in 1..Knows[p] /\ program'[p].at = 1
          /\ program'[p].pc = "open" => \A i \in 1..Knows[p] : i \in applied'
      BY <2>1, GoesOnRightly
    <2>3. MigrationTypeOK'
      BY <2>2 DEF MigrationTypeOK
    <2>4. AppliedInOrder'
      BY DEF AppliedInOrder
    <2>5. OpenIsMigrated'
      BY <2>2 DEF OpenIsMigrated, ProgramAt
    <2>6. TheLockIsHeld'
      BY <2>2 DEF TheLockIsHeld, ProgramAt
    <2>7. OneAfterAnother'
      BY <2>1, <2>2 DEF OneAfterAnother, Working
    <2> QED
      BY <2>3, <2>4, <2>5, <2>6, <2>7
  <1>2. ASSUME NEW p \in Program, BeginMigration(p) PROVE MigrationInv'
    <2> USE <1>2 DEF BeginMigration, Does
    <2>1. MigrationTypeOK'
      BY DEF MigrationTypeOK
    <2>2. AppliedInOrder' /\ OpenIsMigrated'
      BY DEF AppliedInOrder, OpenIsMigrated, ProgramAt, MigrationTypeOK
    <2>3. TheLockIsHeld'
      BY DEF TheLockIsHeld, ProgramAt, MigrationTypeOK
    <2>4. OneAfterAnother'
      BY DEF OneAfterAnother, Working, ProgramAt, MigrationTypeOK
    <2> QED
      BY <2>1, <2>2, <2>3, <2>4
  <1>3. ASSUME NEW p \in Program, CheckApplied(p) PROVE MigrationInv'
    <2> USE <1>3 DEF CheckApplied
    <2>1. program[p].at \in 1..Knows[p] /\ Knows[p] \in Nat /\ lock = {p}
      BY DEF OneAfterAnother, Working, ProgramAt, TheLockIsHeld, MigrationTypeOK
    <2>2. CASE program[p].at \in applied
      <3>1. \A i \in 1..Knows[p] : i <= program[p].at => i \in applied'
        BY <2>1, <2>2 DEF OneAfterAnother, Working, ProgramAt
      <3>2. /\ program' \in [Program -> [pc : {"none", "next", "check", "apply", "open"}, at : Nat]]
            /\ \A q \in Program : q # p => program'[q] = program[q]
            /\ program'[p].pc \in {"next", "open"}
            /\ program'[p].pc = "next" => program'[p].at \in 1..Knows[p] /\ program'[p].at = program[p].at + 1
            /\ program'[p].pc = "open" => \A i \in 1..Knows[p] : i \in applied'
        BY <2>1, <2>2, <3>1, GoesOnRightly
      <3>3. MigrationTypeOK' /\ AppliedInOrder'
        BY <2>2, <3>2 DEF MigrationTypeOK, AppliedInOrder
      <3>4. OpenIsMigrated'
        BY <3>2 DEF OpenIsMigrated, ProgramAt
      <3>5. TheLockIsHeld'
        BY <2>1, <3>2 DEF TheLockIsHeld, ProgramAt
      <3>6. OneAfterAnother'
        BY <2>1, <3>1, <3>2 DEF OneAfterAnother, Working
      <3> QED
        BY <3>3, <3>4, <3>5, <3>6
    <2>3. CASE program[p].at \notin applied
      <3> USE <2>3 DEF Does
      <3>0. /\ program' \in [Program -> [pc : {"none", "next", "check", "apply", "open"}, at : Nat]]
            /\ program'[p] = [pc |-> "apply", at |-> program[p].at]
            /\ \A q \in Program : q # p => program'[q] = program[q]
        BY <2>1 DEF MigrationTypeOK
      <3>1. MigrationTypeOK' /\ AppliedInOrder'
        BY <3>0 DEF MigrationTypeOK, AppliedInOrder
      <3>1a. OpenIsMigrated'
        BY <3>0 DEF OpenIsMigrated, ProgramAt
      <3>2. TheLockIsHeld'
        BY <2>1 DEF TheLockIsHeld, ProgramAt, MigrationTypeOK
      <3>3. OneAfterAnother'
        BY <2>1, <3>0 DEF OneAfterAnother, Working, ProgramAt
      <3> QED
        BY <3>1, <3>1a, <3>2, <3>3
    <2> QED
      BY <2>2, <2>3
  <1>4. ASSUME NEW p \in Program, CommitMigration(p) PROVE MigrationInv'
    <2> USE <1>4 DEF CommitMigration
    <2> DEFINE n == program[p].at
    <2>1. n \in 1..Knows[p] /\ Knows[p] \in Nat /\ lock = {p} /\ n \notin applied
      BY DEF OneAfterAnother, Working, ProgramAt, TheLockIsHeld, MigrationTypeOK
    <2>2. n = Len(schema) + 1
      <3>1. \A i \in 1..Knows[p] : i < n => i \in 1..Len(schema)
        BY DEF OneAfterAnother, Working, ProgramAt, AppliedInOrder
      <3>2. n \notin 1..Len(schema) /\ Len(schema) \in Nat
        BY <2>1 DEF AppliedInOrder, MigrationTypeOK
      <3>3. n = 1 \/ n - 1 \in 1..Len(schema)
        BY <2>1, <3>1
      <3> QED
        BY <2>1, <3>2, <3>3
    <2>3. \A i \in 1..Knows[p] : i <= n => i \in applied'
      BY <2>1 DEF OneAfterAnother, Working, ProgramAt
    <2>4. /\ program' \in [Program -> [pc : {"none", "next", "check", "apply", "open"}, at : Nat]]
          /\ \A q \in Program : q # p => program'[q] = program[q]
          /\ program'[p].pc \in {"next", "open"}
          /\ program'[p].pc = "next" => program'[p].at \in 1..Knows[p] /\ program'[p].at = n + 1
          /\ program'[p].pc = "open" => \A i \in 1..Knows[p] : i \in applied'
      BY <2>1, <2>3, GoesOnRightly
    <2>5. schema' \in Seq(Nat) /\ Len(schema') = Len(schema) + 1 /\ schema'[n] = n
          /\ \A i \in 1..Len(schema) : schema'[i] = schema[i]
      BY <2>1, <2>2 DEF MigrationTypeOK
    <2>6. MigrationTypeOK'
      <3>1. applied' \subseteq Nat /\ lock' = {}
        BY <2>1 DEF MigrationTypeOK
      <3> QED
        BY <2>4, <2>5, <3>1 DEF MigrationTypeOK
    <2>7. AppliedInOrder'
      <3>1. \A i \in 1..Len(schema') : schema'[i] = i
        BY <2>2, <2>5 DEF AppliedInOrder, MigrationTypeOK
      <3>2. applied' = 1..Len(schema')
        BY <2>2, <2>5 DEF AppliedInOrder, MigrationTypeOK
      <3>3. DOMAIN schema' = 1..Len(schema')
        BY <2>5
      <3> QED
        BY <3>1, <3>2, <3>3 DEF AppliedInOrder
    <2>8. OpenIsMigrated'
      BY <2>4 DEF OpenIsMigrated, ProgramAt
    <2>9. TheLockIsHeld'
      BY <2>1, <2>4 DEF TheLockIsHeld, ProgramAt
    <2>10. OneAfterAnother'
      <3> SUFFICES ASSUME NEW q \in Program, program'[q].pc \in Working
                   PROVE  /\ program'[q].at \in 1..Knows[q]
                          /\ \A i \in 1..Knows[q] : i < program'[q].at => i \in applied'
        BY DEF OneAfterAnother
      <3>1. CASE q = p
        BY <2>1, <2>3, <2>4, <3>1 DEF Working
      <3>2. CASE q # p
        BY <2>4, <3>2 DEF OneAfterAnother
      <3> QED
        BY <3>1, <3>2
    <2> QED
      BY <2>6, <2>7, <2>8, <2>9, <2>10
  <1>5. ASSUME NEW p \in Program, Kill(p) PROVE MigrationInv'
    <2> USE <1>5 DEF Kill, NotRunning
    <2>1. MigrationTypeOK'
      BY DEF MigrationTypeOK
    <2>2. AppliedInOrder' /\ OpenIsMigrated'
      BY DEF AppliedInOrder, OpenIsMigrated, ProgramAt, MigrationTypeOK
    <2>3. TheLockIsHeld' /\ OneAfterAnother'
      BY DEF TheLockIsHeld, OneAfterAnother, Working, ProgramAt, MigrationTypeOK
    <2> QED
      BY <2>1, <2>2, <2>3
  <1>6. CASE UNCHANGED migrationVars
    BY <1>6 DEF migrationVars, MigrationTypeOK, AppliedInOrder, OpenIsMigrated, TheLockIsHeld, OneAfterAnother, ProgramAt
  <1> QED
    BY <1>1, <1>2, <1>3, <1>4, <1>5, <1>6 DEF MigrationNext

\* Migrate, run by any number of processes that are killed at any time: each
\* migration is applied once and in order, and who has opened the database
\* finds every migration it knows.
THEOREM SchemaStaysWhole == MigrationSpec => []SchemaIsWhole
  <1>1. MigrationInv => SchemaIsWhole
    BY DEF MigrationInv
  <1> QED
    BY MigrationsInitially, MigrationStep, <1>1, PTL DEF MigrationSpec

-----------------------------------------------------------------------------
(* Storage.                                                                *)

\* Where the zips of versions, and of uploads, are.
ZipsAreStored ==
  /\ using = "directory" => rows \cup stored \subseteq store["directory"]
  /\ using = "bucket" => rows \subseteq store["directory"] \cup store["bucket"]
  /\ using = "bucket" => stored \subseteq store["bucket"]

\* Whoever copies has what was there when the copying began, or has it left.
CopiesAreWhole ==
  copy # NoWork =>
    /\ copy.begun = "bucket" => using = "bucket"
    /\ copy.pc = "copied" => copy.left = {}
    /\ copy.to # "directory"
    /\ copy.begun = "bucket" => store["directory"] \subseteq copy.left \cup store[copy.to]

\* A backup has only versions whose zips are in the directory, which is why
\* the zips must be copied after it was taken.
BackupsHaveZips ==
  using = "directory" =>
    /\ \A f \in files : f.rows \subseteq store["directory"]
    /\ \A taken \in away : taken \subseteq store["directory"]
    /\ \A taken \in away : copy # NoWork => taken \subseteq copy.left \cup store[copy.to]

\* No two backups have one name; the one being written is the newest, and
\* when others are removed it is whole.
Newest(f) == f \in files /\ \A g \in files : g.at <= f.at
TheNewestIsWhole ==
  /\ \A f, g \in files : f.at = g.at => f = g
  /\ \A f \in files : f.at <= clock
  /\ backup.pc = "writing" => \E f \in files : Newest(f) /\ f.at = backup.at
  /\ backup.pc = "pruning" => \E f \in files : Newest(f) /\ f.whole

ZipsArePresent == (using = "directory" \/ CopiedAgain) => rows \subseteq store[using]

StorageInv == StorageTypeOK /\ ZipsAreStored /\ CopiesAreWhole /\ BackupsHaveZips /\ TheNewestIsWhole

\* It is what the versions need.
LEMMA VersionsHaveZips == StorageInv => ZipsArePresent
  <1> SUFFICES ASSUME StorageInv PROVE ZipsArePresent
    OBVIOUS
  <1> USE DEF StorageInv, ZipsArePresent
  <1>1. CASE using = "directory"
    BY <1>1 DEF ZipsAreStored
  <1>2. CASE CopiedAgain
    BY <1>2 DEF CopiedAgain, ZipsAreStored, CopiesAreWhole
  <1> QED
    BY <1>1, <1>2

\* More than one backup is more than the newest one.
LEMMA PruningLeavesOne ==
  ASSUME NEW f \in files, Cardinality(files) > AtLeastOne(Keep)
  PROVE  \E g \in files : g # f
  <1>1. AtLeastOne(Keep) \in Int /\ AtLeastOne(Keep) >= 1
    <2>1. \E m \in {Keep, 1} : \A y \in {Keep, 1} : m >= y
      BY StorageConstants
    <2> QED
      BY <2>1, StorageConstants DEF AtLeastOne, Max
  <1>2. files # {f}
    <2>1. Cardinality({f}) = 1
      BY FS_Singleton
    <2> QED
      BY <1>1, <2>1
  <1> QED
    BY <1>2

\* The one that stays is whole.
LEMMA TheNewestStays ==
  ASSUME StorageInv, Prune
  PROVE  \E n \in files : Newest(n) /\ n.whole /\ n \in files'
  <1> USE DEF StorageInv, Prune
  <1>1. PICK n \in files : Newest(n) /\ n.whole
    BY DEF TheNewestIsWhole
  <1>2. CASE Cardinality(files) > AtLeastOne(Keep)
    <2>1. PICK g \in files : g # n
      BY <1>2, PruningLeavesOne
    <2>2. g.at < n.at
      BY <1>1, <2>1 DEF Newest, TheNewestIsWhole, StorageTypeOK, File
    <2> QED
      BY <1>1, <1>2, <2>1, <2>2
  <1>3. CASE ~(Cardinality(files) > AtLeastOne(Keep))
    BY <1>1, <1>3
  <1> QED
    BY <1>2, <1>3

\* What a copy is and may become.
LEMMA CopyForms ==
  ASSUME StorageTypeOK
  PROVE  /\ copy # NoWork => copy.to \in Store /\ copy.left \subseteq ZipKey /\ copy.begun \in Store
         /\ copy.pc = "copying" \/ copy.pc = "copied" => copy # NoWork
         /\ backup.pc = "writing" => backup.at \in 0..LastBackup
         /\ copy # NoWork => copy \in [pc : {"copying", "copied"}, to : Store, left : SUBSET ZipKey, begun : Store]
  <1> USE DEF StorageTypeOK
  <1>1. copy # NoWork => copy \in [pc : {"copying", "copied"}, to : Store, left : SUBSET ZipKey, begun : Store]
    OBVIOUS
  <1>2. copy.pc = "copying" \/ copy.pc = "copied" => copy # NoWork
    BY DEF NoWork
  <1>3. backup.pc = "writing" => backup.at \in 0..LastBackup
    BY DEF NoWork
  <1> QED
    BY <1>1, <1>2, <1>3

\* It holds at first.
LEMMA StorageInitially == StorageInit => StorageInv
  BY StorageConstants
     DEF StorageInit, StorageInv, StorageTypeOK, ZipsAreStored, CopiesAreWhole, BackupsHaveZips, TheNewestIsWhole,
         NoWork, Store

\* Publishing a version keeps it.
LEMMA PublishStep == StorageInv /\ Publishes => StorageInv'
  <1> SUFFICES ASSUME StorageInv, Publishes PROVE StorageInv'
    OBVIOUS
  <1> USE CopyForms DEF StorageInv
  <1>1. ASSUME NEW z \in ZipKey, StoreUpload(z) PROVE StorageInv'
    <2> USE <1>1 DEF StoreUpload
    <2>1. StorageTypeOK' /\ using \in Store
      BY DEF StorageTypeOK, Store
    <2>2. store'[using] = store[using] \cup {z} /\ \A s \in Store : s # using => store'[s] = store[s]
      BY <2>1 DEF StorageTypeOK
    <2>3. ZipsAreStored'
      BY <2>1, <2>2 DEF ZipsAreStored, Store
    <2>4. CopiesAreWhole'
      BY <2>1, <2>2 DEF CopiesAreWhole, Store
    <2>5. BackupsHaveZips' /\ TheNewestIsWhole'
      BY <2>1, <2>2 DEF BackupsHaveZips, TheNewestIsWhole, Newest, Store
    <2> QED
      BY <2>1, <2>3, <2>4, <2>5
  <1>2. ASSUME NEW z \in ZipKey, RecordUpload(z) PROVE StorageInv'
    <2> USE <1>2 DEF RecordUpload
    <2>1. StorageTypeOK'
      BY DEF StorageTypeOK
    <2>2. ZipsAreStored' /\ CopiesAreWhole'
      BY DEF ZipsAreStored, CopiesAreWhole
    <2>3. BackupsHaveZips' /\ TheNewestIsWhole'
      BY DEF BackupsHaveZips, TheNewestIsWhole, Newest
    <2> QED
      BY <2>1, <2>2, <2>3
  <1> QED
    BY <1>1, <1>2 DEF Publishes

\* So does backing up.
LEMMA BackupStep == StorageInv /\ BacksUp => StorageInv'
  <1> SUFFICES ASSUME StorageInv, BacksUp PROVE StorageInv'
    OBVIOUS
  <1> USE StorageConstants, CopyForms DEF StorageInv, serving
  <1>1. CASE BackUp
    <2> USE <1>1 DEF BackUp
    <2> DEFINE new == [at |-> clock, whole |-> FALSE, rows |-> rows]
    <2>1. new \in File /\ files' = files \cup {new} /\ backup' = [pc |-> "writing", at |-> clock]
      <3>1. \E w \in BOOLEAN : w = FALSE /\ new = [at |-> clock, whole |-> w, rows |-> rows]
        OBVIOUS
      <3> QED
        BY <3>1 DEF File, StorageTypeOK
    <2>2. StorageTypeOK'
      <3>1. backup' \in [pc : {"writing"}, at : 0..LastBackup]
        BY <2>1 DEF StorageTypeOK
      <3> QED
        BY <2>1, <3>1 DEF StorageTypeOK
    <2>3. ZipsAreStored' /\ CopiesAreWhole'
      BY DEF ZipsAreStored, CopiesAreWhole
    <2>4. BackupsHaveZips'
      BY <2>1 DEF BackupsHaveZips, ZipsAreStored
    <2>5. TheNewestIsWhole'
      <3>1. new.at = clock /\ clock \in Nat
        BY DEF StorageTypeOK
      <3>2. \A g \in files : g.at <= clock /\ g.at # clock
        BY DEF TheNewestIsWhole
      <3> HIDE DEF new
      <3>3. \A f, g \in files' : f.at = g.at => f = g
        BY <2>1, <3>1, <3>2 DEF TheNewestIsWhole
      <3>4. \A f \in files' : f.at <= clock'
        BY <2>1, <3>1, <3>2
      <3>5. new \in files' /\ new.at = backup'.at /\ \A g \in files' : g.at <= new.at
        BY <2>1, <3>1, <3>2
      <3>6. backup'.pc # "pruning"
        BY <2>1
      <3> QED
        BY <3>3, <3>4, <3>5, <3>6 DEF TheNewestIsWhole, Newest
    <2> QED
      BY <2>2, <2>3, <2>4, <2>5
  <1>2. CASE BackUpEnds
    <2> USE <1>2 DEF BackUpEnds
    <2> DEFINE Ended(f) == IF f.at = backup.at THEN [f EXCEPT !.whole = TRUE] ELSE f
    <2>1. \A f \in files : /\ Ended(f) \in File
                           /\ Ended(f).at = f.at /\ Ended(f).rows = f.rows
                           /\ f.at = backup.at => Ended(f).whole
      <3> SUFFICES ASSUME NEW f \in files
                   PROVE  /\ Ended(f) \in File
                          /\ Ended(f).at = f.at /\ Ended(f).rows = f.rows
                          /\ f.at = backup.at => Ended(f).whole
        OBVIOUS
      <3>1. f \in File
        BY DEF StorageTypeOK
      <3>2. /\ [f EXCEPT !.whole = TRUE] \in File /\ [f EXCEPT !.whole = TRUE].whole
            /\ [f EXCEPT !.whole = TRUE].at = f.at /\ [f EXCEPT !.whole = TRUE].rows = f.rows
        BY <3>1 DEF File
      <3> QED
        BY <3>1, <3>2
    <2>2. files' = {Ended(f) : f \in files} /\ backup' = [pc |-> "pruning"]
      OBVIOUS
    <2> HIDE DEF Ended
    <2>3. StorageTypeOK'
      BY <2>1, <2>2 DEF StorageTypeOK
    <2>4. ZipsAreStored' /\ CopiesAreWhole'
      BY DEF ZipsAreStored, CopiesAreWhole
    <2>5. BackupsHaveZips'
      BY <2>1, <2>2 DEF BackupsHaveZips
    <2>6. TheNewestIsWhole'
      <3>1. PICK n \in files : Newest(n) /\ n.at = backup.at
        BY DEF TheNewestIsWhole
      <3>2. Ended(n) \in files' /\ Ended(n).whole /\ \A g \in files' : g.at <= Ended(n).at
        BY <2>1, <2>2, <3>1 DEF Newest
      <3>3. \A f, g \in files' : f.at = g.at => f = g
        BY <2>1, <2>2 DEF TheNewestIsWhole
      <3>4. \A f \in files' : f.at <= clock'
        BY <2>1, <2>2 DEF TheNewestIsWhole
      <3>5. backup'.pc # "writing"
        BY <2>2
      <3> QED
        BY <3>2, <3>3, <3>4, <3>5 DEF TheNewestIsWhole, Newest
    <2> QED
      BY <2>3, <2>4, <2>5, <2>6
  <1>3. CASE BackUpFails
    BY <1>3 DEF BackUpFails, StorageTypeOK, ZipsAreStored, CopiesAreWhole, BackupsHaveZips, TheNewestIsWhole, NoWork
  <1>4. CASE Prune
    <2> USE <1>4 DEF Prune
    <2>1. files' \subseteq files /\ (backup' = backup \/ backup' = NoWork)
      OBVIOUS
    <2>2. StorageTypeOK'
      BY <2>1 DEF StorageTypeOK
    <2>3. ZipsAreStored' /\ CopiesAreWhole' /\ BackupsHaveZips'
      BY <2>1 DEF ZipsAreStored, CopiesAreWhole, BackupsHaveZips
    <2>4. TheNewestIsWhole'
      <3>1. CASE backup'.pc = "pruning"
        <4>1. PICK n \in files : Newest(n) /\ n.whole /\ n \in files'
          BY TheNewestStays
        <4> QED
          BY <2>1, <3>1, <4>1 DEF TheNewestIsWhole, Newest
      <3>2. CASE backup'.pc # "pruning"
        BY <2>1, <3>2 DEF TheNewestIsWhole, NoWork
      <3> QED
        BY <3>1, <3>2
    <2> QED
      BY <2>2, <2>3, <2>4
  <1>5. CASE TimeGoesOn
    <2> USE <1>5 DEF TimeGoesOn
    <2>1. StorageTypeOK'
      BY DEF StorageTypeOK
    <2>2. ZipsAreStored' /\ CopiesAreWhole' /\ BackupsHaveZips'
      BY DEF ZipsAreStored, CopiesAreWhole, BackupsHaveZips
    <2>3. TheNewestIsWhole'
      BY DEF TheNewestIsWhole, Newest, StorageTypeOK, File
    <2> QED
      BY <2>1, <2>2, <2>3
  <1> QED
    BY <1>1, <1>2, <1>3, <1>4, <1>5 DEF BacksUp

\* So do copying, and taking a backup along.
LEMMA CopyStep == StorageInv /\ (Copies \/ \E f \in files : TakeAway(f)) => StorageInv'
  <1> SUFFICES ASSUME StorageInv, Copies \/ \E f \in files : TakeAway(f) PROVE StorageInv'
    OBVIOUS
  <1> USE StorageConstants, CopyForms DEF StorageInv, serving
  <1>1. ASSUME NEW to \in Store \ {"directory"}, StartCopy(to) PROVE StorageInv'
    <2> USE <1>1 DEF StartCopy
    <2>1. copy' \in [pc : {"copying", "copied"}, to : Store, left : SUBSET ZipKey, begun : Store]
      BY DEF StorageTypeOK, Store
    <2>2. StorageTypeOK'
      BY <2>1 DEF StorageTypeOK
    <2>3. ZipsAreStored' /\ CopiesAreWhole'
      BY DEF ZipsAreStored, CopiesAreWhole
    <2>4. BackupsHaveZips'
      BY DEF BackupsHaveZips, ZipsAreStored
    <2>5. TheNewestIsWhole'
      BY DEF TheNewestIsWhole, Newest
    <2> QED
      BY <2>2, <2>3, <2>4, <2>5
  <1>2. ASSUME NEW z \in ZipKey, CopyZip(z) PROVE StorageInv'
    <2> USE <1>2 DEF CopyZip
    <2>1. copy \in [pc : {"copying", "copied"}, to : Store, left : SUBSET ZipKey, begun : Store]
      OBVIOUS
    <2>2. /\ copy'.pc = "copying" /\ copy'.to = copy.to /\ copy'.begun = copy.begun /\ copy'.left = copy.left \ {z}
          /\ copy' \in [pc : {"copying", "copied"}, to : Store, left : SUBSET ZipKey, begun : Store]
      BY <2>1
    <2>3. /\ store'[copy.to] = store[copy.to] \cup {z} /\ \A s \in Store : s # copy.to => store'[s] = store[s]
          /\ store' \in [Store -> SUBSET ZipKey]
      BY DEF StorageTypeOK
    <2>4. StorageTypeOK'
      BY <2>2, <2>3 DEF StorageTypeOK
    <2>5. ZipsAreStored'
      BY <2>3 DEF ZipsAreStored, Store
    <2>6. CopiesAreWhole'
      BY <2>2, <2>3 DEF CopiesAreWhole, Store
    <2>7. BackupsHaveZips'
      BY <2>2, <2>3 DEF BackupsHaveZips, CopiesAreWhole, Store
    <2>8. TheNewestIsWhole'
      BY DEF TheNewestIsWhole, Newest
    <2> QED
      BY <2>4, <2>5, <2>6, <2>7, <2>8
  <1>3. ASSUME NEW z \in ZipKey, CopyFails(z) PROVE StorageInv'
    BY <1>3 DEF CopyFails, StorageTypeOK, ZipsAreStored, CopiesAreWhole, BackupsHaveZips, TheNewestIsWhole, Newest
  <1>4. CASE CopyEnds
    <2> USE <1>4 DEF CopyEnds
    <2>1. copy \in [pc : {"copying", "copied"}, to : Store, left : SUBSET ZipKey, begun : Store]
      OBVIOUS
    <2>2. /\ copy'.pc = "copied" /\ copy'.to = copy.to /\ copy'.begun = copy.begun /\ copy'.left = copy.left
          /\ copy' \in [pc : {"copying", "copied"}, to : Store, left : SUBSET ZipKey, begun : Store]
      BY <2>1
    <2>3. StorageTypeOK'
      BY <2>2 DEF StorageTypeOK
    <2>4. ZipsAreStored' /\ CopiesAreWhole' /\ BackupsHaveZips' /\ TheNewestIsWhole'
      BY <2>2 DEF ZipsAreStored, CopiesAreWhole, BackupsHaveZips, TheNewestIsWhole, Newest
    <2> QED
      BY <2>3, <2>4
  <1>5. CASE ForgetCopy
    BY <1>5 DEF ForgetCopy, StorageTypeOK, ZipsAreStored, CopiesAreWhole, BackupsHaveZips, TheNewestIsWhole, Newest
  <1>6. ASSUME NEW f \in files, TakeAway(f) PROVE StorageInv'
    <2> USE <1>6 DEF TakeAway, TakenAfter
    <2>2. StorageTypeOK'
      BY DEF StorageTypeOK, File
    <2>3. ZipsAreStored' /\ CopiesAreWhole' /\ TheNewestIsWhole'
      BY DEF ZipsAreStored, CopiesAreWhole, TheNewestIsWhole, Newest
    <2>4. BackupsHaveZips'
      BY <2>2 DEF BackupsHaveZips
    <2> QED
      BY <2>2, <2>3, <2>4
  <1> QED
    BY <1>1, <1>2, <1>3, <1>4, <1>5, <1>6 DEF Copies

\* So do a server that stops, one that moves to the bucket, and a machine
\* that is made again.
LEMMA ServerStep == StorageInv /\ (RestoreCopy \/ Move \/ ServerStops) => StorageInv'
  <1> SUFFICES ASSUME StorageInv, RestoreCopy \/ Move \/ ServerStops PROVE StorageInv'
    OBVIOUS
  <1> USE StorageConstants, CopyForms DEF StorageInv
  <1>1. CASE RestoreCopy
    <2> USE <1>1 DEF RestoreCopy
    <2>1. store' \in [Store -> SUBSET ZipKey] /\ store'["directory"] = store["elsewhere"] /\ rows' \in away
      BY DEF StorageTypeOK, Store
    <2>2. StorageTypeOK'
      BY <2>1 DEF StorageTypeOK
    <2>3. rows' \subseteq store'["directory"]
      BY <2>1 DEF BackupsHaveZips, CopiesAreWhole
    <2>4. ZipsAreStored' /\ CopiesAreWhole'
      BY <2>3 DEF ZipsAreStored, CopiesAreWhole
    <2>5. BackupsHaveZips' /\ TheNewestIsWhole'
      BY DEF BackupsHaveZips, TheNewestIsWhole, NoWork
    <2> QED
      BY <2>2, <2>4, <2>5
  <1>2. CASE Move
    <2> USE <1>2 DEF Move
    <2>1. StorageTypeOK'
      BY DEF StorageTypeOK
    <2>2. ZipsAreStored' /\ CopiesAreWhole'
      BY DEF ZipsAreStored, CopiesAreWhole
    <2>3. BackupsHaveZips' /\ TheNewestIsWhole'
      BY DEF BackupsHaveZips, TheNewestIsWhole, NoWork
    <2> QED
      BY <2>1, <2>2, <2>3
  <1>3. CASE ServerStops
    <2> USE <1>3 DEF ServerStops
    <2>1. StorageTypeOK'
      BY DEF StorageTypeOK
    <2>2. ZipsAreStored' /\ CopiesAreWhole' /\ BackupsHaveZips' /\ TheNewestIsWhole'
      BY DEF ZipsAreStored, CopiesAreWhole, BackupsHaveZips, TheNewestIsWhole, NoWork
    <2> QED
      BY <2>1, <2>2
  <1> QED
    BY <1>1, <1>2, <1>3

\* Every step keeps it.
LEMMA StorageStep == StorageInv /\ [StorageNext]_storageVars => StorageInv'
  <1>1. StorageInv /\ UNCHANGED storageVars => StorageInv'
    BY DEF storageVars, StorageInv, StorageTypeOK, ZipsAreStored, CopiesAreWhole, BackupsHaveZips, TheNewestIsWhole, Newest
  <1> QED
    BY <1>1, PublishStep, BackupStep, CopyStep, ServerStep DEF StorageNext, Restores

\* A step after which no whole backup is left is the loss of the machine.
BackupGoes == Whole(files) # {} /\ Whole(files') = {} => away # {} /\ away' = {}

\* No step takes the last whole backup away but with its machine.
LEMMA BackupGoesWithTheMachine == StorageInv /\ [StorageNext]_storageVars => BackupGoes
  <1> SUFFICES ASSUME StorageInv, [StorageNext]_storageVars, NEW w \in files, w.whole,
                      ~RestoreCopy
               PROVE  \E f \in files' : f.whole
    BY DEF BackupGoes, Whole, RestoreCopy
  <1>1. CASE BackUp
    BY <1>1 DEF BackUp
  <1>2. CASE BackUpEnds
    <2> DEFINE Ended(f) == IF f.at = backup.at THEN [f EXCEPT !.whole = TRUE] ELSE f
    <2>1. Ended(w) \in files'
      BY <1>2 DEF BackUpEnds
    <2>2. w \in File
      BY DEF StorageInv, StorageTypeOK
    <2>3. Ended(w).whole
      BY <2>2 DEF File
    <2> QED
      BY <2>1, <2>3
  <1>3. CASE Prune
    BY <1>3, TheNewestStays
  <1>4. CASE UNCHANGED files
    BY <1>4
  <1> QED
    BY <1>1, <1>2, <1>3, <1>4
       DEF StorageNext, Publishes, BacksUp, Copies, Restores, StoreUpload, RecordUpload, BackUpFails, TimeGoesOn, StartCopy,
           CopyZip, CopyFails, CopyEnds, ForgetCopy, TakeAway, Move, ServerStops, storageVars

\* Publish, BackupTo, Copy, and an operator who takes a backup along before
\* the zips: every version has its zip where the server looks for it, though
\* the machine was lost and made again, and a whole backup remains.
THEOREM StorageKeepsAll == StorageSpec => NothingStoredIsLost
  <1>1. StorageInv /\ [StorageNext]_storageVars => [BackupGoes]_storageVars
    BY BackupGoesWithTheMachine
  <1> QED
    BY StorageInitially, StorageStep, VersionsHaveZips, <1>1, PTL
       DEF StorageSpec, NothingStoredIsLost, ABackupRemains, ZipsArePresent, BackupGoes

-----------------------------------------------------------------------------
(* Rate limits.                                                            *)

\* A history tells how many requests of a client were let through at each
\* moment: between two moments, and from one on.
Histories == [Clock -> Nat]
SumFrom(h, t) == SumFunctionOnSet(h, {u \in Clock : t <= u /\ u < t + Span})
Since(h, t) == SumFunctionOnSet(h, {u \in Clock : t <= u})

\* One more is let through.
Bumped(h, m) == [h EXCEPT ![m] = @ + 1]

\* Moments are numbers, and there are finitely many of them.
LEMMA ClockIsFinite == IsFiniteSet(Clock) /\ Clock \subseteq Nat /\ Span \in Nat \ {0} /\ Limit \in Nat \ {0}
  <1>1. IsFiniteSet(Clock)
    BY LimiterConstants, FS_Interval DEF Clock
  <1> QED
    BY <1>1, LimiterConstants DEF Clock

\* How many there were is a number.
LEMMA SinceIsANumber ==
  ASSUME NEW h \in Histories, NEW t \in Int
  PROVE  Since(h, t) \in Nat /\ SumFrom(h, t) \in Nat
  <1> DEFINE A == {u \in Clock : t <= u}
             B == {u \in Clock : t <= u /\ u < t + Span}
  <1>1. IsFiniteSet(A) /\ IsFiniteSet(B)
    BY ClockIsFinite, FS_Subset
  <1>2. (\A u \in A : h[u] \in Nat) /\ (\A u \in B : h[u] \in Nat)
    BY DEF Histories
  <1> HIDE DEF A, B
  <1>3. SumFunctionOnSet(h, A) \in Nat /\ SumFunctionOnSet(h, B) \in Nat
    BY <1>1, <1>2, SumNat
  <1> QED
    BY <1>3 DEF Since, SumFrom, A, B

\* From later on there were no more of them.
LEMMA SinceFalls ==
  ASSUME NEW h \in Histories, NEW t \in Int, NEW s \in Int, s <= t
  PROVE  Since(h, t) <= Since(h, s)
  <1> DEFINE A == {u \in Clock : s <= u}
             B == {u \in Clock : t <= u}
  <1>1. IsFiniteSet(A)
    BY ClockIsFinite, FS_Subset
  <1>2. \A u \in A : h[u] \in Nat
    BY DEF Histories
  <1>3. B \in SUBSET A
    <2>1. ASSUME NEW u \in Clock, t <= u PROVE s <= u
      BY <2>1, ClockIsFinite
    <2> QED
      BY <2>1
  <1> HIDE DEF A, B
  <1>4. SumFunctionOnSet(h, B) <= SumFunctionOnSet(h, A)
    BY <1>1, <1>2, <1>3, SumMono
  <1> QED
    BY <1>4 DEF Since, A, B

\* Nothing is counted after the end of what From looks at.
LEMMA FromIsSince ==
  ASSUME NEW h \in Histories, NEW t \in Int
  PROVE  /\ SumFrom(h, t) <= Since(h, t)
         /\ (\A u \in Clock : u >= t + Span => h[u] = 0) => SumFrom(h, t) = Since(h, t)
  <1> DEFINE A == {u \in Clock : t <= u}
             B == {u \in Clock : t <= u /\ u < t + Span}
  <1>1. IsFiniteSet(A) /\ IsFiniteSet(A \ B)
    BY ClockIsFinite, FS_Subset
  <1>2. \A u \in A : h[u] \in Nat
    BY DEF Histories
  <1>3. B \in SUBSET A
    OBVIOUS
  <1>4. ASSUME \A u \in Clock : u >= t + Span => h[u] = 0
        PROVE  \A x \in A \ B : h[x] = 0
    BY <1>4, ClockIsFinite
  <1>5. (\A x \in A \ B : h[x] = 0) => SumFunctionOnSet(h, A \ B) = 0
    <2> HIDE DEF A, B
    <2> QED
      BY <1>1, SumNone
  <1>6. /\ SumFunctionOnSet(h, B) <= SumFunctionOnSet(h, A)
        /\ SumFunctionOnSet(h, A) = SumFunctionOnSet(h, B) + SumFunctionOnSet(h, A \ B)
        /\ SumFunctionOnSet(h, B) \in Int
    <2>1. \A u \in A : h[u] \in Int
      BY <1>2
    <2> HIDE DEF A, B
    <2>2. SumFunctionOnSet(h, B) <= SumFunctionOnSet(h, A)
      BY <1>1, <1>2, <1>3, SumMono
    <2>3. /\ SumFunctionOnSet(h, A) = SumFunctionOnSet(h, B) + SumFunctionOnSet(h, A \ B)
          /\ SumFunctionOnSet(h, B) \in Int
      BY <1>1, <1>3, <2>1, SumParts
    <2> QED
      BY <2>2, <2>3
  <1>7. SumFrom(h, t) = SumFunctionOnSet(h, B) /\ Since(h, t) = SumFunctionOnSet(h, A)
    BY DEF SumFrom, Since
  <1> DEFINE part == SumFunctionOnSet(h, B)
             whole == SumFunctionOnSet(h, A)
             rest == SumFunctionOnSet(h, A \ B)
  <1>8. part <= whole /\ whole = part + rest /\ part \in Int
    BY <1>6
  <1>9. ASSUME \A u \in Clock : u >= t + Span => h[u] = 0
        PROVE  part = whole
    <2>1. rest = 0
      BY <1>4, <1>5, <1>9
    <2> HIDE DEF part, whole, rest
    <2> QED
      BY <1>8, <2>1
  <1> QED
    BY <1>7, <1>8, <1>9

\* One more event, at m.
LEMMA OneMoreAllowed ==
  ASSUME NEW h \in Histories, NEW m \in Clock, NEW g, g = Bumped(h, m), NEW t \in Int
  PROVE  /\ g \in Histories
         /\ Since(g, t) = Since(h, t) + (IF t <= m THEN 1 ELSE 0)
         /\ ~(t <= m /\ m < t + Span) => SumFrom(g, t) = SumFrom(h, t)
  <1>1. g \in Histories
    BY DEF Histories, Bumped
  <1>2. /\ \A u \in Clock : h[u] \in Int /\ g[u] \in Int
        /\ \A u \in Clock \ {m} : h[u] = g[u]
        /\ g[m] = h[m] + 1
    BY DEF Histories, Bumped
  <1> DEFINE A == {u \in Clock : t <= u}
             B == {u \in Clock : t <= u /\ u < t + Span}
  <1>3. IsFiniteSet(A) /\ IsFiniteSet(B)
    BY ClockIsFinite, FS_Subset
  <1>4. A \in SUBSET Clock /\ B \in SUBSET Clock /\ (m \in A <=> t <= m) /\ (m \in B <=> t <= m /\ m < t + Span)
    OBVIOUS
  <1>5. SumFunctionOnSet(h, A) \in Int
    <2>1. Since(h, t) \in Nat
      BY SinceIsANumber
    <2> QED
      BY <2>1 DEF Since
  <1> HIDE DEF A, B
  <1>6. t <= m => SumFunctionOnSet(g, A) = SumFunctionOnSet(h, A) - h[m] + g[m]
    <2> SUFFICES ASSUME t <= m PROVE SumFunctionOnSet(g, A) = SumFunctionOnSet(h, A) - h[m] + g[m]
      OBVIOUS
    <2>1. m \in A /\ (\A y \in A : h[y] \in Int /\ g[y] \in Int) /\ (\A y \in A \ {m} : h[y] = g[y])
      BY <1>2, <1>4
    <2> QED
      BY <1>3, <2>1, SumChange
  <1>7. ~(t <= m) => SumFunctionOnSet(g, A) = SumFunctionOnSet(h, A)
    <2> SUFFICES ASSUME ~(t <= m) PROVE SumFunctionOnSet(g, A) = SumFunctionOnSet(h, A)
      OBVIOUS
    <2>1. \A y \in A : g[y] = h[y]
      BY <1>2, <1>4
    <2> QED
      BY <1>3, <2>1, SumSame
  <1>8. ~(t <= m /\ m < t + Span) => SumFunctionOnSet(g, B) = SumFunctionOnSet(h, B)
    <2> SUFFICES ASSUME ~(t <= m /\ m < t + Span) PROVE SumFunctionOnSet(g, B) = SumFunctionOnSet(h, B)
      OBVIOUS
    <2>1. \A y \in B : g[y] = h[y]
      BY <1>2, <1>4
    <2> QED
      BY <1>3, <2>1, SumSame
  <1> DEFINE before == SumFunctionOnSet(h, A)
             after == SumFunctionOnSet(g, A)
             hm == h[m]
  <1>9. /\ t <= m => after = before - hm + (hm + 1)
        /\ ~(t <= m) => after = before
        /\ hm \in Int /\ before \in Int
    BY <1>2, <1>5, <1>6, <1>7
  <1>10. after = before + (IF t <= m THEN 1 ELSE 0)
    <2> HIDE DEF before, after, hm
    <2> QED
      BY <1>9
  <1> QED
    BY <1>1, <1>8, <1>10 DEF Since, SumFrom, A, B

-----------------------------------------------------------------------------
\* A client's bucket tells how many of its events were allowed since it was
\* started, and in the Span before that there were Limit of them at most.
RateKept(b, h, now) ==
  /\ h \in Histories
  /\ \A u \in Clock : u > now => h[u] = 0
  /\ \A t \in Clock : SumFrom(h, t) <= 2 * Limit
  /\ b = NoBucket => /\ Since(h, now - Span + 1) <= Limit
                     /\ \A u \in Clock : u >= now => h[u] = 0
  /\ b # NoBucket => /\ b \in [start : Clock, count : Nat \ {0}]
                     /\ b.start <= now
                     /\ Since(h, b.start) = IF b.count <= Limit THEN b.count ELSE Limit
                     /\ Since(h, b.start - Span + 1) <= Since(h, b.start) + Limit
                     /\ \A u \in Clock : u >= b.start + Span => h[u] = 0

\* It stays so when a moment passes.
LEMMA StaysKept ==
  ASSUME NEW b, NEW h, NEW now \in Clock, RateKept(b, h, now), NEW next, next = now + 1
  PROVE  RateKept(b, h, next)
  <1>0. /\ now \in Nat /\ next \in Nat /\ Span \in Nat /\ Limit \in Nat /\ h \in Histories
        /\ now - Span + 1 \in Int /\ next - Span + 1 \in Int /\ now - Span + 1 <= next - Span + 1
    BY ClockIsFinite DEF RateKept
  <1>1. b = NoBucket => Since(h, next - Span + 1) <= Limit
    <2>1. Since(h, next - Span + 1) <= Since(h, now - Span + 1)
      BY <1>0, SinceFalls
    <2>2. Since(h, next - Span + 1) \in Nat /\ Since(h, now - Span + 1) \in Nat
      BY <1>0, SinceIsANumber
    <2> QED
      BY <1>0, <2>1, <2>2 DEF RateKept
  <1>2. \A u \in Clock : u > next => h[u] = 0
    BY <1>0, ClockIsFinite DEF RateKept
  <1>3. b = NoBucket => \A u \in Clock : u >= next => h[u] = 0
    BY <1>0, ClockIsFinite DEF RateKept
  <1>4. b # NoBucket => b.start <= next
    <2> SUFFICES ASSUME b # NoBucket PROVE b.start <= next
      OBVIOUS
    <2>1. b \in [start : Clock, count : Nat \ {0}] /\ b.start <= now
      BY DEF RateKept
    <2>2. b.start \in Nat
      BY <2>1, ClockIsFinite
    <2> QED
      BY <1>0, <2>1, <2>2
  <1> QED
    BY <1>1, <1>2, <1>3, <1>4 DEF RateKept

\* A bucket whose window is over can go.
LEMMA ClearedIsKept ==
  ASSUME NEW b, NEW h, NEW now \in Clock, RateKept(b, h, now), b # NoBucket, now - b.start >= Span
  PROVE  RateKept(NoBucket, h, now)
  <1>0. /\ now \in Nat /\ b.start \in Nat /\ h \in Histories /\ now - Span + 1 \in Int /\ b.start <= now - Span + 1
        /\ Span \in Nat /\ Limit \in Nat /\ b.count \in Nat
    <2>1. b \in [start : Clock, count : Nat \ {0}] /\ b.start <= now /\ h \in Histories
      BY DEF RateKept
    <2>2. b.start \in Clock /\ b.count \in Nat \ {0}
      BY <2>1
    <2>3. b.start \in Nat /\ now \in Nat
      BY <2>2, ClockIsFinite
    <2> QED
      BY <2>1, <2>2, <2>3, ClockIsFinite
  <1>1. Since(h, now - Span + 1) <= Limit
    <2>1. Since(h, now - Span + 1) <= Since(h, b.start)
      BY <1>0, SinceFalls
    <2>2. Since(h, now - Span + 1) \in Nat /\ Since(h, b.start) \in Nat
      BY <1>0, SinceIsANumber
    <2>3. Since(h, b.start) <= Limit
      BY <1>0 DEF RateKept
    <2> QED
      BY <1>0, <2>1, <2>2, <2>3
  <1>2. \A u \in Clock : u >= now => h[u] = 0
    <2>1. \A u \in Clock : u >= now => u >= b.start + Span
      BY <1>0, ClockIsFinite
    <2> QED
      BY <2>1 DEF RateKept
  <1> QED
    BY <1>1, <1>2 DEF RateKept

\* What counts one event more keeps its promise to every span.
LEMMA StillAtMostTwice ==
  ASSUME NEW h \in Histories, NEW now \in Clock, NEW s \in Clock, s <= now, now - s < Span,
         \A u \in Clock : u > now => h[u] = 0,
         \A t \in Clock : SumFrom(h, t) <= 2 * Limit,
         NEW g, g = Bumped(h, now),
         Since(g, s - Span + 1) <= 2 * Limit
  PROVE  \A t \in Clock : SumFrom(g, t) <= 2 * Limit
  <1> SUFFICES ASSUME NEW t \in Clock PROVE SumFrom(g, t) <= 2 * Limit
    OBVIOUS
  <1>0. now \in Nat /\ s \in Nat /\ t \in Nat /\ Span \in Nat \ {0} /\ Limit \in Nat
    BY ClockIsFinite
  <1>1. g \in Histories
    BY <1>0, OneMoreAllowed
  <1>2. CASE ~(t <= now /\ now < t + Span)
    BY <1>0, <1>2, OneMoreAllowed
  <1>3. CASE t <= now /\ now < t + Span
    <2>1. s - Span + 1 <= t /\ s - Span + 1 \in Int
      BY <1>0, <1>3
    <2>2. Since(g, t) <= Since(g, s - Span + 1)
      BY <1>0, <1>1, <2>1, SinceFalls
    <2>3. SumFrom(g, t) <= Since(g, t)
      BY <1>0, <1>1, FromIsSince
    <2>4. SumFrom(g, t) \in Nat /\ Since(g, t) \in Nat /\ Since(g, s - Span + 1) \in Nat
      BY <1>0, <1>1, <2>1, SinceIsANumber
    <2> QED
      BY <1>0, <2>2, <2>3, <2>4
  <1> QED
    BY <1>2, <1>3

\* A bucket is started.
LEMMA StartedIsKept ==
  ASSUME NEW h, NEW now \in Clock, RateKept(NoBucket, h, now), NEW g, g = Bumped(h, now)
  PROVE  RateKept([start |-> now, count |-> 1], g, now)
  <1> DEFINE b == [start |-> now, count |-> 1]
  <1>0. /\ now \in Nat /\ Span \in Nat \ {0} /\ Limit \in Nat \ {0} /\ h \in Histories
        /\ now - Span + 1 \in Int /\ now - Span + 1 <= now /\ now <= now
    BY ClockIsFinite DEF RateKept
  <1>1. g \in Histories
    BY <1>0, OneMoreAllowed
  <1>2. Since(h, now) = 0
    <2> DEFINE A == {u \in Clock : now <= u}
    <2>1. IsFiniteSet(A)
      BY ClockIsFinite, FS_Subset
    <2>2. \A u \in A : h[u] = 0
      BY <1>0, ClockIsFinite DEF RateKept
    <2> HIDE DEF A
    <2>3. SumFunctionOnSet(h, A) = 0
      BY <2>1, <2>2, SumNone
    <2> QED
      BY <2>3 DEF Since, A
  <1>3. Since(g, now) = 1
    BY <1>0, <1>2, OneMoreAllowed
  <1>4. Since(g, now - Span + 1) = Since(h, now - Span + 1) + 1
    BY <1>0, OneMoreAllowed
  <1>5. Since(h, now - Span + 1) <= Limit /\ Since(h, now - Span + 1) \in Nat
    BY <1>0, SinceIsANumber DEF RateKept
  <1>6. \A u \in Clock : u > now => g[u] = 0
    BY <1>0, ClockIsFinite DEF RateKept, Histories, Bumped
  <1>7. \A t \in Clock : SumFrom(g, t) <= 2 * Limit
    <2>1. Since(g, now - Span + 1) <= 2 * Limit
      BY <1>0, <1>4, <1>5
    <2>2. now - now < Span
      BY <1>0
    <2>3. (\A u \in Clock : u > now => h[u] = 0) /\ (\A t \in Clock : SumFrom(h, t) <= 2 * Limit)
      BY DEF RateKept
    <2> QED
      BY <1>0, <2>1, <2>2, <2>3, StillAtMostTwice
  <1>8. \A u \in Clock : u >= now + Span => g[u] = 0
    BY <1>0, <1>6, ClockIsFinite
  <1>9. /\ b \in [start : Clock, count : Nat \ {0}] /\ b # NoBucket /\ b.start = now /\ b.count = 1
    <2>1. b.start = now /\ NoBucket.start = -1 /\ b.count = 1
      BY DEF NoBucket
    <2> QED
      BY <1>0, <2>1
  <1>10. Since(g, now - Span + 1) <= Since(g, now) + Limit
    BY <1>0, <1>3, <1>4, <1>5
  <1>11. 1 <= Limit
    BY <1>0
  <1> HIDE DEF b
  <1>12. RateKept(b, g, now)
    BY <1>0, <1>1, <1>3, <1>6, <1>7, <1>8, <1>9, <1>10, <1>11 DEF RateKept
  <1> QED
    BY <1>12 DEF b

\* One more event is counted in a bucket.
LEMMA CountedIsKept ==
  ASSUME NEW b, NEW h, NEW now \in Clock, RateKept(b, h, now), b # NoBucket, ~(now - b.start >= Span),
         NEW g, g = IF b.count + 1 <= Limit THEN Bumped(h, now) ELSE h
  PROVE  RateKept([b EXCEPT !.count = @ + 1], g, now)
  <1> DEFINE n == [b EXCEPT !.count = @ + 1]
  <1>0. /\ now \in Nat /\ Span \in Nat \ {0} /\ Limit \in Nat \ {0} /\ h \in Histories
        /\ b \in [start : Clock, count : Nat \ {0}]
        /\ b.start \in Clock /\ b.start \in Nat /\ b.count \in Nat \ {0} /\ b.start <= now /\ now - b.start < Span
        /\ b.start - Span + 1 \in Int /\ b.start - Span + 1 <= now
    <2>1. b \in [start : Clock, count : Nat \ {0}] /\ b.start <= now /\ h \in Histories
      BY DEF RateKept
    <2>2. b.start \in Clock /\ b.count \in Nat \ {0}
      BY <2>1
    <2>3. b.start \in Nat /\ now \in Nat /\ Span \in Nat \ {0} /\ Limit \in Nat \ {0}
      BY <2>2, ClockIsFinite
    <2>4. b.start - Span + 1 \in Int /\ b.start - Span + 1 <= now /\ now - b.start < Span
      BY <2>1, <2>3
    <2> QED
      BY <2>1, <2>2, <2>3, <2>4
  <1>1. n.start = b.start /\ n.count = b.count + 1 /\ n \in [start : Clock, count : Nat \ {0}]
    BY <1>0
  <1>2. n # NoBucket
    <2>1. NoBucket.start = -1
      BY DEF NoBucket
    <2> QED
      BY <1>0, <1>1, <2>1
  <1>3. /\ Since(h, b.start) = IF b.count <= Limit THEN b.count ELSE Limit
        /\ Since(h, b.start - Span + 1) <= Since(h, b.start) + Limit
        /\ Since(h, b.start) \in Nat /\ Since(h, b.start - Span + 1) \in Nat
    BY <1>0, SinceIsANumber DEF RateKept
  <1> HIDE DEF n
  <1>4. CASE b.count + 1 <= Limit
    <2>1. g = Bumped(h, now)
      BY <1>4
    <2>2. /\ g \in Histories
          /\ Since(g, b.start) = Since(h, b.start) + 1
          /\ Since(g, b.start - Span + 1) = Since(h, b.start - Span + 1) + 1
      BY <1>0, <2>1, OneMoreAllowed
    <2>3. Since(g, b.start) = b.count + 1 /\ Since(g, b.start - Span + 1) <= Since(g, b.start) + Limit
      BY <1>0, <1>3, <1>4, <2>2
    <2>4. Since(g, b.start - Span + 1) <= 2 * Limit
      BY <1>0, <1>3, <1>4, <2>2
    <2>5. (\A u \in Clock : u > now => h[u] = 0) /\ (\A t \in Clock : SumFrom(h, t) <= 2 * Limit)
      BY DEF RateKept
    <2>6. \A t \in Clock : SumFrom(g, t) <= 2 * Limit
      BY <1>0, <2>1, <2>4, <2>5, StillAtMostTwice
    <2>7. \A u \in Clock : u > now => g[u] = 0
      BY <1>0, <2>1, <2>5, ClockIsFinite DEF Histories, Bumped
    <2>8. \A u \in Clock : u >= b.start + Span => g[u] = 0
      BY <1>0, <2>7, ClockIsFinite
    <2>9. RateKept(n, g, now)
      BY <1>0, <1>1, <1>2, <1>4, <2>2, <2>3, <2>6, <2>7, <2>8 DEF RateKept
    <2> QED
      BY <2>9 DEF n
  <1>5. CASE ~(b.count + 1 <= Limit)
    <2>1. g = h
      BY <1>5
    <2>2. Since(h, b.start) = Limit
      BY <1>0, <1>3, <1>5
    <2>3. RateKept(n, h, now)
      BY <1>0, <1>1, <1>2, <1>3, <1>5, <2>2 DEF RateKept
    <2> QED
      BY <2>1, <2>3 DEF n
  <1> QED
    BY <1>4, <1>5

Buckets == [start : Clock, count : Nat \ {0}]

\* The inductive invariant.
LimitInv ==
  /\ moment \in Clock
  /\ buckets \in [Client -> {NoBucket} \cup Buckets]
  /\ allowed \in [Client -> Histories]
  /\ lastSweep \in Nat /\ lastSweep <= moment
  /\ \A c \in Client : RateKept(buckets[c], allowed[c], moment)
  /\ IsFiniteSet(Held(buckets))
  /\ \A c \in Held(buckets) : buckets[c].start > lastSweep - Span
  /\ RefusedHadTheirShare
  /\ FullOfLiveBuckets

\* No bucket is none of the buckets.
LEMMA NoBucketIsNone == NoBucket \notin Buckets
  <1>1. NoBucket.start = -1
    BY DEF NoBucket
  <1>2. \A b \in Buckets : b.start \in Nat
    BY ClockIsFinite DEF Buckets
  <1> QED
    BY <1>1, <1>2

\* A table that is left when the buckets that are over may have been cleared.
Table(table, sweep) ==
  /\ table \in [Client -> {NoBucket} \cup Buckets]
  /\ \A c \in Client : RateKept(table[c], allowed[c], moment)
  /\ IsFiniteSet(Held(table))
  /\ sweep \in Nat /\ sweep <= moment
  /\ \A c \in Held(table) : table[c].start > sweep - Span
  /\ Cardinality(Held(table)) >= MaxKeys => sweep > moment - SweepEvery

\* The table after a sweep, if one is due: what it drops was over.
LEMMA RemainingIsATable ==
  ASSUME LimitInv
  PROVE  Table(Remaining(SweepDue), IF SweepDue THEN moment ELSE lastSweep)
  <1>0. moment \in Nat /\ lastSweep \in Nat /\ SweepEvery \in Nat \ {0} /\ SweepAbove \in Nat
        /\ MaxKeys \in Nat /\ SweepAbove < MaxKeys /\ Span \in Nat
    BY ClockIsFinite, LimiterConstants DEF LimitInv
  <1>1. CASE SweepDue
    <2>1. Remaining(SweepDue) = Swept
      BY <1>1 DEF Remaining
    <2>2. Swept \in [Client -> {NoBucket} \cup Buckets]
      BY DEF Swept, LimitInv
    <2>3. Held(Swept) \subseteq Held(buckets)
      BY DEF Held, Swept
    <2>4. IsFiniteSet(Held(Swept))
      BY <2>3, FS_Subset DEF LimitInv
    <2>5. ASSUME NEW c \in Held(Swept) PROVE Swept[c].start > moment - Span
      <3>1. c \in Client /\ ~Over(buckets[c]) /\ Swept[c] = buckets[c] /\ buckets[c] # NoBucket
        BY DEF Held, Swept
      <3>2. buckets[c] \in Buckets
        BY <3>1 DEF LimitInv
      <3>3. buckets[c].start \in Nat
        BY <3>2, ClockIsFinite DEF Buckets
      <3> QED
        BY <1>0, <3>1, <3>3 DEF Over
    <2>6. ASSUME NEW c \in Client PROVE RateKept(Swept[c], allowed[c], moment)
      <3>1. Swept[c] = IF Over(buckets[c]) THEN NoBucket ELSE buckets[c]
        BY DEF Swept
      <3>2. RateKept(buckets[c], allowed[c], moment) /\ moment \in Clock
        BY DEF LimitInv
      <3>3. CASE buckets[c] = NoBucket \/ ~Over(buckets[c])
        BY <3>1, <3>2, <3>3
      <3>4. CASE buckets[c] # NoBucket /\ Over(buckets[c])
        <4>1. moment - buckets[c].start >= Span
          BY <3>4 DEF Over
        <4>2. RateKept(NoBucket, allowed[c], moment)
          BY <3>2, <3>4, <4>1, ClearedIsKept
        <4> QED
          BY <3>1, <3>4, <4>2
      <3> QED
        BY <3>3, <3>4
    <2>7. moment > moment - SweepEvery
      BY <1>0
    <2>8. Table(Swept, moment)
      BY <1>0, <2>2, <2>4, <2>5, <2>6, <2>7 DEF Table
    <2> QED
      BY <1>1, <2>1, <2>8
  <1>2. CASE ~SweepDue
    <2>1. Remaining(SweepDue) = buckets
      BY <1>2 DEF Remaining
    <2>2. Cardinality(Held(buckets)) >= MaxKeys => lastSweep > moment - SweepEvery
      <3>1. Cardinality(Held(buckets)) \in Nat
        BY FS_CardinalityType DEF LimitInv
      <3> DEFINE n == Cardinality(Held(buckets))
      <3>2. ~(n > SweepAbove /\ moment - lastSweep >= SweepEvery) /\ n \in Nat
        BY <1>2, <3>1 DEF SweepDue
      <3> HIDE DEF n
      <3>3. n >= MaxKeys => lastSweep > moment - SweepEvery
        BY <1>0, <3>2
      <3> QED
        BY <3>3 DEF n
    <2>3. Table(buckets, lastSweep)
      BY <2>2 DEF Table, LimitInv
    <2> QED
      BY <1>2, <2>1, <2>3
  <1> QED
    BY <1>1, <1>2

\* The bucket of a client whose event is counted.
LEMMA CountedInTable ==
  ASSUME NEW table, NEW sweep, Table(table, sweep), NEW c \in Client, moment \in Clock,
         allowed \in [Client -> Histories],
         NEW b, b = Counted(table, c),
         NEW g, g = IF b.count <= Limit THEN Bumped(allowed[c], moment) ELSE allowed[c]
  PROVE  /\ b \in Buckets /\ RateKept(b, g, moment) /\ b.start > sweep - Span
         /\ ~Over(b)
  <1>0. /\ moment \in Nat /\ Span \in Nat \ {0} /\ Limit \in Nat \ {0} /\ sweep \in Nat /\ sweep <= moment
        /\ RateKept(table[c], allowed[c], moment) /\ table[c] \in {NoBucket} \cup Buckets
    BY ClockIsFinite DEF Table
  <1>1. CASE table[c] = NoBucket \/ Over(table[c])
    <2>1. b = [start |-> moment, count |-> 1]
      BY <1>1 DEF Counted
    <2>2. b.count <= Limit /\ g = Bumped(allowed[c], moment)
      BY <1>0, <2>1
    <2>3. RateKept(NoBucket, allowed[c], moment)
      <3>1. CASE table[c] = NoBucket
        BY <1>0, <3>1
      <3>2. CASE table[c] # NoBucket
        <4>1. moment - table[c].start >= Span
          BY <1>1, <3>2 DEF Over
        <4> QED
          BY <1>0, <3>2, <4>1, ClearedIsKept
      <3> QED
        BY <3>1, <3>2
    <2>4. RateKept(b, g, moment)
      BY <2>1, <2>2, <2>3, StartedIsKept
    <2>5. b \in Buckets /\ b.start = moment
      BY <2>1 DEF Buckets
    <2> QED
      BY <1>0, <2>4, <2>5 DEF Over
  <1>2. CASE table[c] # NoBucket /\ ~Over(table[c])
    <2>1. b = [table[c] EXCEPT !.count = @ + 1] /\ table[c] \in Buckets
      BY <1>0, <1>2 DEF Counted
    <2>2. b.count = table[c].count + 1 /\ b.start = table[c].start /\ b \in Buckets
      BY <2>1 DEF Buckets
    <2>3. g = IF table[c].count + 1 <= Limit THEN Bumped(allowed[c], moment) ELSE allowed[c]
      BY <2>2
    <2>4. ~(moment - table[c].start >= Span)
      BY <1>2 DEF Over
    <2>5. RateKept(b, g, moment)
      <3>1. RateKept([table[c] EXCEPT !.count = @ + 1], g, moment)
        BY <1>0, <1>2, <2>3, <2>4, CountedIsKept
      <3> QED
        BY <2>1, <3>1
    <2>6. b.start > sweep - Span
      <3>1. c \in Held(table)
        BY <1>2 DEF Held
      <3> QED
        BY <2>2, <3>1 DEF Table
    <2> QED
      BY <1>2, <2>2, <2>5, <2>6 DEF Over
  <1> QED
    BY <1>1, <1>2

\* A request is let through or refused.
LEMMA AllowKeeps ==
  ASSUME LimitInv, NEW c \in Client, Allow(c)
  PROVE  LimitInv'
  <1> PICK table : table = Remaining(SweepDue)
    OBVIOUS
  <1> PICK sweep : sweep = IF SweepDue THEN moment ELSE lastSweep
    OBVIOUS
  <1> PICK b : b = Counted(table, c)
    OBVIOUS
  <1>1. Table(table, sweep)
    BY RemainingIsATable
  <1>2. /\ lastSweep' = sweep /\ moment' = moment /\ moment \in Clock /\ allowed \in [Client -> Histories]
        /\ moment \in Nat /\ sweep \in Nat /\ sweep <= moment
        /\ \/ /\ table[c] = NoBucket /\ IsFull(table)
              /\ buckets' = table
              /\ verdict' = [is |-> "full", client |-> c]
              /\ allowed' = allowed
           \/ /\ buckets' = [table EXCEPT ![c] = b]
              /\ verdict' = [is |-> IF b.count <= Limit THEN "allowed" ELSE "refused", client |-> c]
              /\ allowed' = IF b.count <= Limit THEN [allowed EXCEPT ![c][moment] = @ + 1] ELSE allowed
    BY <1>1, ClockIsFinite DEF Allow, LimitInv, Table
  <1>3. CASE /\ table[c] = NoBucket /\ IsFull(table)
             /\ buckets' = table
             /\ verdict' = [is |-> "full", client |-> c]
             /\ allowed' = allowed
    <2>1. ASSUME NEW d \in Held(table) PROVE table[d].start > moment - Span - SweepEvery
      <3>1. table[d].start > sweep - Span
        BY <1>1 DEF Table
      <3>2. sweep > moment - SweepEvery
        BY <1>1, <1>3 DEF Table, IsFull
      <3>3. table[d] \in Buckets
        BY <1>1 DEF Table, Held
      <3>4. table[d].start \in Nat /\ Span \in Nat /\ SweepEvery \in Nat
        BY <3>3, ClockIsFinite, LimiterConstants DEF Buckets
      <3> QED
        BY <1>2, <3>1, <3>2, <3>4
    <2>2. FullOfLiveBuckets'
      BY <1>2, <1>3, <2>1 DEF FullOfLiveBuckets
    <2>3. RefusedHadTheirShare'
      BY <1>3 DEF RefusedHadTheirShare
    <2>4. Held(buckets)' = Held(table)
      BY <1>3 DEF Held
    <2> QED
      BY <1>1, <1>2, <1>3, <2>2, <2>3, <2>4 DEF LimitInv, Table
  <1>4. CASE /\ buckets' = [table EXCEPT ![c] = b]
             /\ verdict' = [is |-> IF b.count <= Limit THEN "allowed" ELSE "refused", client |-> c]
             /\ allowed' = IF b.count <= Limit THEN [allowed EXCEPT ![c][moment] = @ + 1] ELSE allowed
    <2> PICK g : g = IF b.count <= Limit THEN Bumped(allowed[c], moment) ELSE allowed[c]
      OBVIOUS
    <2>1. b \in Buckets /\ RateKept(b, g, moment) /\ b.start > sweep - Span /\ ~Over(b)
      BY <1>1, <1>2, CountedInTable
    <2>2. allowed' \in [Client -> Histories]
      BY <1>2, <1>4, ClockIsFinite DEF Histories
    <2>3. allowed'[c] = g /\ \A d \in Client \ {c} : allowed'[d] = allowed[d]
      BY <1>2, <1>4 DEF Bumped
    <2>4. buckets' \in [Client -> {NoBucket} \cup Buckets]
      BY <1>1, <1>4, <2>1 DEF Table
    <2>5. buckets'[c] = b /\ \A d \in Client \ {c} : buckets'[d] = table[d]
      BY <1>1, <1>4 DEF Table
    <2>6. \A d \in Client : RateKept(buckets'[d], allowed'[d], moment)
      BY <1>1, <2>1, <2>3, <2>5 DEF Table
    <2>7. IsFiniteSet(Held(buckets)')
      <3>1. Held(buckets)' \subseteq Held(table) \cup {c}
        BY <2>5 DEF Held
      <3>2. IsFiniteSet(Held(table) \cup {c})
        BY <1>1, FS_AddElement DEF Table
      <3> QED
        BY <3>1, <3>2, FS_Subset
    <2>8. \A d \in Held(buckets)' : buckets'[d].start > sweep - Span
      BY <1>1, <2>1, <2>5 DEF Held, Table
    <2>9. FullOfLiveBuckets'
      BY <1>4 DEF FullOfLiveBuckets
    <2>10. RefusedHadTheirShare'
      <3>1. CASE b.count <= Limit
        BY <1>4, <3>1 DEF RefusedHadTheirShare
      <3>2. CASE ~(b.count <= Limit)
        <4>a. b # NoBucket /\ b.start \in Clock /\ b.count \in Nat
          BY <2>1, NoBucketIsNone DEF Buckets
        <4>b. b.start <= moment
          BY <2>1, <4>a DEF RateKept
        <4>1. /\ moment - Span + 1 \in Int /\ b.start <= moment /\ b.start \in Nat /\ Span \in Nat /\ Limit \in Nat
              /\ b.count \in Nat
          BY <1>2, <4>a, <4>b, ClockIsFinite
        <4>2. g \in Histories /\ Since(g, b.start) = Limit
          BY <2>1, <3>2, NoBucketIsNone DEF RateKept
        <4>3. moment - Span + 1 <= b.start
          BY <1>2, <2>1, <4>1 DEF Over
        <4>4. Since(g, moment - Span + 1) >= Limit
          <5>1. Since(g, b.start) <= Since(g, moment - Span + 1)
            BY <4>1, <4>2, <4>3, SinceFalls
          <5> QED
            BY <4>2, <5>1
        <4>5. SumFrom(g, moment - Span + 1) = Since(g, moment - Span + 1)
          <5>1. \A u \in Clock : u >= moment - Span + 1 + Span => g[u] = 0
            <6>1. \A u \in Clock : u >= moment - Span + 1 + Span => u > moment
              BY <1>2, <4>1, ClockIsFinite
            <6> QED
              BY <2>1, <6>1 DEF RateKept
          <5> QED
            BY <4>1, <4>2, <5>1, FromIsSince
        <4>6. SumFrom(allowed'[c], moment - Span + 1) >= Limit
          BY <2>3, <4>4, <4>5
        <4>7. AllowedFrom(c, moment - Span + 1)' = SumFrom(allowed'[c], moment - Span + 1)
          BY <1>2 DEF AllowedFrom, SumFrom
        <4>8. verdict'.client = c /\ moment' = moment
          BY <1>2, <1>4
        <4> QED
          BY <4>6, <4>7, <4>8 DEF RefusedHadTheirShare, AllowedFrom, SumFrom
      <3> QED
        BY <3>1, <3>2
    <2> QED
      BY <1>2, <2>2, <2>4, <2>6, <2>7, <2>8, <2>9, <2>10 DEF LimitInv
  <1> QED
    BY <1>2, <1>3, <1>4

\* A moment passes.
LEMMA MomentKeeps ==
  ASSUME LimitInv, MomentPasses
  PROVE  LimitInv'
  <1>1. /\ moment' = moment + 1 /\ moment \in Clock /\ moment < LastMoment /\ verdict' = Nobody
        /\ buckets' = buckets /\ lastSweep' = lastSweep /\ allowed' = allowed
        /\ lastSweep \in Nat /\ lastSweep <= moment
    BY DEF MomentPasses, LimitInv
  <1>2. moment' \in Clock /\ lastSweep <= moment'
    BY <1>1, LimiterConstants DEF Clock
  <1>3. \A c \in Client : RateKept(buckets[c], allowed[c], moment')
    BY <1>1, StaysKept DEF LimitInv
  <1>4. RefusedHadTheirShare' /\ FullOfLiveBuckets'
    BY <1>1 DEF RefusedHadTheirShare, FullOfLiveBuckets, Nobody
  <1>5. Held(buckets)' = Held(buckets)
    BY <1>1 DEF Held
  <1> QED
    BY <1>1, <1>2, <1>3, <1>4, <1>5 DEF LimitInv

\* It holds at first.
LEMMA LimitStarts == LimitInit => LimitInv
  <1> SUFFICES ASSUME LimitInit PROVE LimitInv
    OBVIOUS
  <1>1. moment \in Clock /\ moment = Span /\ lastSweep = 0 /\ moment \in Nat /\ Span \in Nat
    BY LimiterConstants DEF LimitInit, Clock
  <1>2. buckets \in [Client -> {NoBucket} \cup Buckets] /\ allowed \in [Client -> Histories]
    BY DEF LimitInit, Histories
  <1>3. Held(buckets) = {}
    BY DEF LimitInit, Held
  <1>4. IsFiniteSet(Held(buckets))
    BY <1>3, FS_EmptySet
  <1>5. RefusedHadTheirShare /\ FullOfLiveBuckets
    BY DEF LimitInit, RefusedHadTheirShare, FullOfLiveBuckets, Nobody
  <1>6. ASSUME NEW c \in Client PROVE RateKept(buckets[c], allowed[c], moment)
    <2> PICK h : h = allowed[c]
      OBVIOUS
    <2>1. buckets[c] = NoBucket /\ h \in Histories /\ \A u \in Clock : h[u] = 0
      BY DEF LimitInit, Histories
    <2>2. ASSUME NEW A \in SUBSET Clock PROVE SumFunctionOnSet(h, A) = 0
      <3>1. IsFiniteSet(A)
        BY ClockIsFinite, FS_Subset
      <3>2. \A u \in A : h[u] = 0
        BY <2>1
      <3> QED
        BY <3>1, <3>2, SumNone
    <2>3. Since(h, moment - Span + 1) = 0
      BY <2>2 DEF Since
    <2>4. \A t \in Clock : SumFrom(h, t) = 0
      BY <2>2 DEF SumFrom
    <2>5. Limit \in Nat
      BY ClockIsFinite
    <2>6. Since(h, moment - Span + 1) <= Limit /\ \A t \in Clock : SumFrom(h, t) <= 2 * Limit
      BY <2>3, <2>4, <2>5
    <2>7. RateKept(NoBucket, h, moment)
      BY <2>1, <2>6 DEF RateKept
    <2> QED
      BY <2>1, <2>7
  <1>7. \A c \in Held(buckets) : buckets[c].start > lastSweep - Span
    BY <1>3
  <1>8. lastSweep \in Nat /\ lastSweep <= moment
    BY <1>1
  <1> QED
    BY <1>1, <1>2, <1>4, <1>5, <1>6, <1>7, <1>8 DEF LimitInv

\* Every step keeps it.
LEMMA LimitStep == LimitInv /\ [LimitNext]_limitVars => LimitInv'
  <1> SUFFICES ASSUME LimitInv, [LimitNext]_limitVars PROVE LimitInv'
    OBVIOUS
  <1>1. ASSUME UNCHANGED limitVars PROVE LimitInv'
    BY <1>1 DEF limitVars, LimitInv, Held, RefusedHadTheirShare, AllowedFrom, FullOfLiveBuckets
  <1> QED
    BY <1>1, AllowKeeps, MomentKeeps DEF LimitNext

\* The limiter lets no more through than it promises, and turns nobody else away.
THEOREM TheLimitIsKept == LimitSpec => []LimitIsKept
  <1>1. LimitInv => LimitIsKept
    <2> SUFFICES ASSUME LimitInv PROVE LimitIsKept
      OBVIOUS
    <2>1. ASSUME NEW c \in Client, NEW t \in Clock PROVE AllowedFrom(c, t) <= 2 * Limit
      <3>1. SumFrom(allowed[c], t) <= 2 * Limit
        BY DEF LimitInv, RateKept
      <3> QED
        BY <3>1 DEF AllowedFrom, SumFrom
    <2> QED
      BY <2>1 DEF LimitInv, LimitIsKept, AtMostTwice
  <1> QED
    BY LimitStarts, LimitStep, <1>1, PTL DEF LimitSpec

\* The limiter's inductive invariant, with its types.
LimitTypes == LimitInv /\ LimitTypeOK

\* What is left of the table is part of it.
LEMMA RemainingIsLess ==
  ASSUME LimitInv
  PROVE  /\ Held(Remaining(SweepDue)) \subseteq Held(buckets)
         /\ \A c \in Client : Remaining(SweepDue)[c] \in {NoBucket, buckets[c]}
  BY DEF LimitInv, Held, Remaining, Swept

\* A moment in the last bucket is counted once in it.
LEMMA MomentIsCounted ==
  ASSUME NEW b, b # NoBucket, NEW h, NEW now \in Clock, RateKept(b, h, now)
  PROVE  h[now] <= Limit
  <1> PICK these : these = {u \in Clock : b.start <= u}
    OBVIOUS
  <1>1. /\ h \in Histories /\ b.start \in Clock /\ b.count \in Nat /\ b.start <= now
        /\ Since(h, b.start) = IF b.count <= Limit THEN b.count ELSE Limit
    BY DEF RateKept
  <1>2. IsFiniteSet(these) /\ now \in these /\ \A u \in these : h[u] \in Nat
    BY <1>1, ClockIsFinite, FS_Subset DEF Histories
  <1>3. /\ SumFunctionOnSet(h, these) \in Nat /\ SumFunctionOnSet(h, these \ {now}) \in Nat
        /\ SumFunctionOnSet(h, these) = h[now] + SumFunctionOnSet(h, these \ {now})
    <2>1. IsFiniteSet(these \ {now}) /\ \A u \in these \ {now} : h[u] \in Nat
      BY <1>2, FS_Subset
    <2>2. SumFunctionOnSet(h, these) \in Nat
      BY <1>2, SumNat
    <2>3. SumFunctionOnSet(h, these \ {now}) \in Nat
      BY <2>1, SumNat
    <2>4. \A u \in these : h[u] \in Int
      BY <1>2
    <2>5. SumFunctionOnSet(h, these) = h[now] + SumFunctionOnSet(h, these \ {now})
      BY <1>2, <2>4, SumWithout
    <2> QED
      BY <2>2, <2>3, <2>5
  <1>4. SumFunctionOnSet(h, these) <= Limit
    BY <1>1, ClockIsFinite DEF Since
  <1> QED
    BY <1>2, <1>3, <1>4, ClockIsFinite

\* A request that is counted keeps the types.
LEMMA AllowTypes ==
  ASSUME LimitTypes, NEW c \in Client, Allow(c)
  PROVE  LimitTypeOK'
  <1> PICK table : table = Remaining(SweepDue)
    OBVIOUS
  <1> PICK b : b = Counted(table, c)
    OBVIOUS
  <1>1. LimitInv'
    BY AllowKeeps DEF LimitTypes
  <1>2. /\ moment' = moment /\ moment \in Clock /\ moment \in Nat /\ MaxKeys \in Nat /\ MaxTries \in Nat
        /\ Limit \in Nat
        /\ \/ /\ table[c] = NoBucket /\ IsFull(table)
              /\ buckets' = table
              /\ verdict' = [is |-> "full", client |-> c]
              /\ allowed' = allowed
           \/ /\ ~(table[c] = NoBucket /\ IsFull(table))
              /\ b.count <= MaxTries
              /\ buckets' = [table EXCEPT ![c] = b]
              /\ verdict' = [is |-> IF b.count <= Limit THEN "allowed" ELSE "refused", client |-> c]
              /\ allowed' = IF b.count <= Limit THEN [allowed EXCEPT ![c][moment] = @ + 1] ELSE allowed
    BY ClockIsFinite, LimiterConstants DEF Allow, LimitTypes, LimitInv
  <1>3. /\ Table(table, IF SweepDue THEN moment ELSE lastSweep) /\ Held(table) \subseteq Held(buckets)
        /\ \A d \in Client : table[d] \in {NoBucket, buckets[d]}
    BY RemainingIsATable, RemainingIsLess DEF LimitTypes
  <1>4. /\ IsFiniteSet(Held(table)) /\ Cardinality(Held(table)) \in Nat /\ Cardinality(Held(table)) <= MaxKeys
        /\ table \in [Client -> {NoBucket} \cup [start : Clock, count : 1..MaxTries]]
    <2>1. IsFiniteSet(Held(buckets)) /\ Cardinality(Held(buckets)) <= MaxKeys
      BY DEF LimitTypes, LimitInv, LimitTypeOK
    <2>2. /\ IsFiniteSet(Held(table)) /\ Cardinality(Held(table)) <= Cardinality(Held(buckets))
          /\ Cardinality(Held(table)) \in Nat /\ Cardinality(Held(buckets)) \in Nat
      BY <1>3, <2>1, FS_Subset, FS_CardinalityType
    <2>3. Cardinality(Held(table)) <= MaxKeys
      <3> PICK m, n, k : m = Cardinality(Held(table)) /\ n = Cardinality(Held(buckets)) /\ k = MaxKeys
        OBVIOUS
      <3>1. m <= n /\ n <= k /\ m \in Nat /\ n \in Nat /\ k \in Nat
        BY <1>2, <2>1, <2>2
      <3>2. m <= k
        BY <3>1
      <3> QED
        BY <3>2
    <2>4. table \in [Client -> {NoBucket} \cup Buckets]
      BY <1>3 DEF Table
    <2>5. \A d \in Client : table[d] \in {NoBucket} \cup [start : Clock, count : 1..MaxTries]
      BY <1>3 DEF LimitTypes, LimitTypeOK
    <2> QED
      BY <2>2, <2>3, <2>4, <2>5
  <1>5. moment' \in Clock /\ lastSweep' \in 0..LastMoment
    <2>1. lastSweep' \in Nat /\ lastSweep' <= moment' /\ moment' \in Clock
      BY <1>1 DEF LimitInv
    <2> QED
      BY <1>2, <2>1, LimiterConstants DEF Clock
  <1>6. CASE /\ table[c] = NoBucket /\ IsFull(table)
             /\ buckets' = table
             /\ verdict' = [is |-> "full", client |-> c]
             /\ allowed' = allowed
    <2>1. Held(buckets)' = Held(table)
      BY <1>6 DEF Held
    <2>2. verdict' \in {Nobody} \cup [is : {"allowed", "refused", "full"}, client : Client]
      BY <1>6
    <2>3. allowed' \in [Client -> [Clock -> 0..Limit]]
      BY <1>6 DEF LimitTypes, LimitTypeOK
    <2>4. Cardinality(Held(buckets))' <= MaxKeys
      BY <1>4, <2>1
    <2> QED
      BY <1>4, <1>5, <1>6, <2>2, <2>3, <2>4 DEF LimitTypeOK
  <1>7. CASE /\ ~(table[c] = NoBucket /\ IsFull(table))
             /\ b.count <= MaxTries
             /\ buckets' = [table EXCEPT ![c] = b]
             /\ verdict' = [is |-> IF b.count <= Limit THEN "allowed" ELSE "refused", client |-> c]
             /\ allowed' = IF b.count <= Limit THEN [allowed EXCEPT ![c][moment] = @ + 1] ELSE allowed
    <2>1. buckets'[c] = b /\ b \in {NoBucket} \cup Buckets /\ b # NoBucket /\ b.count <= MaxTries
      <3>1. buckets'[c] = b /\ b.count <= MaxTries
        BY <1>4, <1>7
      <3>2. b # NoBucket
        <4>1. CASE table[c] = NoBucket \/ Over(table[c])
          BY <1>2, <4>1 DEF Counted, NoBucket
        <4>2. CASE table[c] # NoBucket /\ ~Over(table[c])
          <5>1. table[c] \in [start : Clock, count : 1..MaxTries]
            BY <1>4, <4>2
          <5>2. b = [table[c] EXCEPT !.count = @ + 1]
            BY <4>2 DEF Counted
          <5>3. b.count = table[c].count + 1 /\ table[c].count \in Nat
            BY <5>1, <5>2
          <5> QED
            BY <5>3 DEF NoBucket
        <4> QED
          BY <4>1, <4>2
      <3>3. buckets'[c] \in {NoBucket} \cup Buckets
        BY <1>1 DEF LimitInv
      <3> QED
        BY <3>1, <3>2, <3>3
    <2>2. b \in [start : Clock, count : 1..MaxTries]
      BY <1>2, <2>1 DEF Buckets
    <2>3. buckets' \in [Client -> {NoBucket} \cup [start : Clock, count : 1..MaxTries]]
      BY <1>4, <1>7, <2>2
    <2>4. verdict' \in {Nobody} \cup [is : {"allowed", "refused", "full"}, client : Client]
      BY <1>7
    <2>5. allowed' \in [Client -> [Clock -> 0..Limit]]
      <3>1. allowed \in [Client -> [Clock -> 0..Limit]]
        BY DEF LimitTypes, LimitTypeOK
      <3>2. allowed'[c][moment] <= Limit
        <4>1. RateKept(buckets'[c], allowed'[c], moment')
          BY <1>1 DEF LimitInv
        <4> QED
          BY <1>2, <2>1, <4>1, MomentIsCounted
      <3>3. CASE allowed' = allowed
        BY <3>1, <3>3
      <3>4. CASE allowed' = [allowed EXCEPT ![c][moment] = @ + 1]
        <4> PICK n : n = allowed[c][moment] + 1
          OBVIOUS
        <4>1. allowed' = [allowed EXCEPT ![c][moment] = n] /\ n \in Nat
          BY <1>2, <3>1, <3>4
        <4>2. allowed'[c][moment] = n
          BY <1>2, <3>1, <4>1
        <4>3. n \in 0..Limit
          BY <1>2, <3>2, <4>1, <4>2
        <4> QED
          BY <1>2, <3>1, <4>1, <4>3
      <3> QED
        BY <1>7, <3>3, <3>4
    <2>6. Cardinality(Held(buckets))' <= MaxKeys
      <3>1. Held(buckets)' = Held(table) \cup {c}
        BY <1>4, <1>7, <2>1 DEF Held
      <3>2. CASE c \in Held(table)
        <4>1. Held(buckets)' = Held(table)
          BY <3>1, <3>2
        <4> QED
          BY <1>4, <4>1
      <3>3. CASE c \notin Held(table)
        <4>1. ~(Cardinality(Held(table)) >= MaxKeys)
          BY <1>7, <3>3 DEF Held, IsFull
        <4>2. Cardinality(Held(table) \cup {c}) = Cardinality(Held(table)) + 1
          BY <1>4, <3>3, FS_AddElement
        <4>3. Cardinality(Held(table)) + 1 <= MaxKeys
          BY <1>2, <1>4, <4>1
        <4> QED
          BY <3>1, <4>2, <4>3
      <3> QED
        BY <3>2, <3>3
    <2> QED
      BY <1>5, <2>3, <2>4, <2>5, <2>6 DEF LimitTypeOK
  <1> QED
    BY <1>2, <1>6, <1>7

\* Every step keeps the types.
LEMMA LimitTypesStep == LimitTypes /\ [LimitNext]_limitVars => LimitTypes'
  <1> SUFFICES ASSUME LimitTypes, [LimitNext]_limitVars PROVE LimitTypes'
    OBVIOUS
  <1>1. LimitInv'
    BY LimitStep DEF LimitTypes
  <1>2. CASE UNCHANGED limitVars
    <2>1. UNCHANGED <<moment, buckets, lastSweep, verdict, allowed>>
      BY <1>2 DEF limitVars
    <2>2. Held(buckets)' = Held(buckets)
      BY <2>1 DEF Held
    <2> QED
      BY <1>1, <2>1, <2>2 DEF LimitTypes, LimitTypeOK
  <1>3. CASE MomentPasses
    <2>1. moment' \in Clock
      BY <1>1 DEF LimitInv
    <2>2. /\ UNCHANGED <<buckets, lastSweep, allowed>> /\ verdict' = Nobody
      BY <1>3 DEF MomentPasses
    <2>3. Held(buckets)' = Held(buckets)
      BY <2>2 DEF Held
    <2> QED
      BY <1>1, <2>1, <2>2, <2>3 DEF LimitTypes, LimitTypeOK
  <1> QED
    BY <1>1, <1>2, <1>3, AllowTypes DEF LimitNext, LimitTypes

\* They hold at first.
LEMMA LimitTypesInit == LimitInit => LimitTypes
  <1> SUFFICES ASSUME LimitInit PROVE LimitTypes
    OBVIOUS
  <1>1. LimitInv
    BY LimitStarts
  <1>2. Held(buckets) = {}
    BY DEF LimitInit, Held
  <1>3. Cardinality(Held(buckets)) <= MaxKeys
    BY <1>2, FS_EmptySet, LimiterConstants
  <1>4. LastMoment \in Nat /\ Limit \in Nat
    BY LimiterConstants
  <1> QED
    BY <1>1, <1>3, <1>4 DEF LimitTypes, LimitTypeOK, LimitInit, LimitInv

-----------------------------------------------------------------------------
(* The cache of the module proxy.                                          *)

\* What is kept of an answer, and the tables of them.
Answers == [n : 0..Releases, expires : Nat]
Items == [Key -> {NotKept} \cup Answers]
SizesOf(items) == [k \in Key |-> IF items[k] = NotKept THEN 0 ELSE SizeOf[<<k, items[k].n>>]]

\* An answer has a size.
LEMMA SizeIsANumber ==
  ASSUME NEW k \in Key, NEW n \in 0..Releases
  PROVE  SizeOf[<<k, n>>] \in Nat
  BY ProxyCacheConstants

\* Nothing kept is none of the answers.
LEMMA NotKeptIsNone == NotKept \notin Answers
  <1>1. NotKept.n = -1
    BY DEF NotKept
  <1>2. \A e \in Answers : e.n \in 0..Releases
    BY DEF Answers
  <1> QED
    BY <1>1, <1>2

\* The bytes of a table are a sum of sizes.
LEMMA BytesIsANumber ==
  ASSUME NEW items \in Items
  PROVE  /\ \A k \in Key : SizesOf(items)[k] \in Nat
         /\ Bytes(items) = SumFunctionOnSet(SizesOf(items), Key)
         /\ Bytes(items) \in Nat
  <1>1. ASSUME NEW k \in Key PROVE SizesOf(items)[k] \in Nat
    <2>1. CASE items[k] = NotKept
      BY <2>1 DEF SizesOf
    <2>2. CASE items[k] # NotKept
      <3>1. items[k] \in Answers
        BY <2>2 DEF Items
      <3>2. items[k].n \in 0..Releases
        BY <3>1 DEF Answers
      <3>3. SizeOf[<<k, items[k].n>>] \in Nat
        BY <3>2, SizeIsANumber
      <3> QED
        BY <2>2, <3>3 DEF SizesOf
    <2> QED
      BY <2>1, <2>2
  <1>2. Bytes(items) = SumFunctionOnSet(SizesOf(items), Key)
    BY DEF Bytes, SizesOf
  <1>3. SumFunctionOnSet(SizesOf(items), Key) \in Nat
    <2>1. IsFiniteSet(Key)
      BY ProxyCacheConstants
    <2> QED
      BY <1>1, <2>1, SumNat
  <1> QED
    BY <1>1, <1>2, <1>3

\* A table without some keys.
LEMMA WithoutIsItems ==
  ASSUME NEW items \in Items, NEW gone
  PROVE  /\ Without(items, gone) \in Items
         /\ \A k \in Key : Without(items, gone)[k] = IF k \in gone THEN NotKept ELSE items[k]
  BY DEF Without, Items

\* A key that is dropped takes its size with it.
LEMMA BytesWithoutOne ==
  ASSUME NEW items \in Items, NEW k \in Key
  PROVE  Bytes(Without(items, {k})) = Bytes(items) - (IF items[k] = NotKept THEN 0 ELSE SizeOf[<<k, items[k].n>>])
  <1> DEFINE left == Without(items, {k})
             f == SizesOf(items)
             g == SizesOf(left)
  <1>1. left \in Items /\ left[k] = NotKept /\ \A j \in Key \ {k} : left[j] = items[j]
    BY WithoutIsItems
  <1>2. (\A j \in Key : f[j] \in Nat) /\ Bytes(items) = SumFunctionOnSet(f, Key) /\ Bytes(items) \in Nat
    BY BytesIsANumber
  <1>3. (\A j \in Key : g[j] \in Nat) /\ Bytes(left) = SumFunctionOnSet(g, Key) /\ Bytes(left) \in Nat
    BY <1>1, BytesIsANumber
  <1>4. g[k] = 0 /\ f[k] = (IF items[k] = NotKept THEN 0 ELSE SizeOf[<<k, items[k].n>>])
    BY <1>1 DEF SizesOf
  <1>5. \A j \in Key \ {k} : f[j] = g[j]
    BY <1>1 DEF SizesOf
  <1> HIDE DEF f, g, left
  <1>6. SumFunctionOnSet(g, Key) = SumFunctionOnSet(f, Key) - f[k] + g[k]
    <2>1. IsFiniteSet(Key)
      BY ProxyCacheConstants
    <2>2. \A j \in Key : f[j] \in Int /\ g[j] \in Int
      BY <1>2, <1>3
    <2> QED
      BY <1>5, <2>1, <2>2, SumChange
  <1>7. f[k] \in Nat
    BY <1>2
  <1>8. Bytes(left) = Bytes(items) - f[k]
    BY <1>2, <1>3, <1>4, <1>6, <1>7
  <1> QED
    BY <1>4, <1>8 DEF left

\* An answer that is kept adds its size.
LEMMA BytesWith ==
  ASSUME NEW items \in Items, NEW k \in Key, items[k] = NotKept, NEW e \in Answers
  PROVE  /\ [items EXCEPT ![k] = e] \in Items
         /\ Bytes([items EXCEPT ![k] = e]) = Bytes(items) + SizeOf[<<k, e.n>>]
  <1> DEFINE more == [items EXCEPT ![k] = e]
             f == SizesOf(items)
             g == SizesOf(more)
  <1>1. more \in Items /\ more[k] = e /\ \A j \in Key \ {k} : more[j] = items[j]
    BY DEF Items
  <1>2. (\A j \in Key : f[j] \in Nat) /\ Bytes(items) = SumFunctionOnSet(f, Key) /\ Bytes(items) \in Nat
    BY BytesIsANumber
  <1>3. (\A j \in Key : g[j] \in Nat) /\ Bytes(more) = SumFunctionOnSet(g, Key) /\ Bytes(more) \in Nat
    BY <1>1, BytesIsANumber
  <1>4. f[k] = 0 /\ g[k] = SizeOf[<<k, e.n>>]
    <2>1. e # NotKept
      BY NotKeptIsNone
    <2> QED
      BY <1>1, <2>1 DEF SizesOf
  <1>5. \A j \in Key \ {k} : f[j] = g[j]
    BY <1>1 DEF SizesOf
  <1> HIDE DEF f, g, more
  <1>6. SumFunctionOnSet(g, Key) = SumFunctionOnSet(f, Key) - f[k] + g[k]
    <2>1. IsFiniteSet(Key)
      BY ProxyCacheConstants
    <2>2. \A j \in Key : f[j] \in Int /\ g[j] \in Int
      BY <1>2, <1>3
    <2> QED
      BY <1>5, <2>1, <2>2, SumChange
  <1>7. g[k] \in Nat
    BY <1>3
  <1>8. Bytes(more) = Bytes(items) + g[k]
    BY <1>2, <1>3, <1>4, <1>6, <1>7
  <1> QED
    BY <1>1, <1>4, <1>8 DEF more

\* A table that was cleared has no bytes.
LEMMA BytesOfNone ==
  ASSUME NEW items \in Items
  PROVE  Bytes(Without(items, Key)) = 0 /\ Count(Without(items, Key)) = 0
  <1> DEFINE none == Without(items, Key)
             f == SizesOf(none)
  <1>1. none \in Items /\ \A k \in Key : none[k] = NotKept
    BY WithoutIsItems
  <1>2. Bytes(none) = SumFunctionOnSet(f, Key)
    BY <1>1, BytesIsANumber
  <1>3. \A k \in Key : f[k] = 0
    BY <1>1 DEF SizesOf
  <1>4. {k \in Key : none[k] # NotKept} = {}
    BY <1>1
  <1> HIDE DEF f, none
  <1>5. SumFunctionOnSet(f, Key) = 0
    BY <1>3, SumNone, ProxyCacheConstants
  <1>6. Count(none) = 0
    BY <1>4, FS_EmptySet DEF Count
  <1> QED
    BY <1>2, <1>5, <1>6 DEF none

\* An answer that is kept is one more.
LEMMA CountWith ==
  ASSUME NEW items \in Items, NEW k \in Key, items[k] = NotKept, NEW e \in Answers
  PROVE  /\ Count(items) \in Nat
         /\ Count([items EXCEPT ![k] = e]) = Count(items) + 1
  <1> DEFINE held == {j \in Key : items[j] # NotKept}
  <1>1. IsFiniteSet(held)
    BY ProxyCacheConstants, FS_Subset
  <1>2. {j \in Key : [items EXCEPT ![k] = e][j] # NotKept} = held \cup {k}
    BY NotKeptIsNone DEF Items
  <1>3. k \notin held
    OBVIOUS
  <1> HIDE DEF held
  <1>4. Cardinality(held \cup {k}) = Cardinality(held) + 1 /\ Cardinality(held) \in Nat
    BY <1>1, <1>3, FS_AddElement, FS_CardinalityType
  <1> QED
    BY <1>2, <1>4 DEF Count, held

-----------------------------------------------------------------------------
\* The n-th answer for a key was the proxy's at time t or later.
Fresh(k, n, t) == n = current[k] \/ ended[<<k, n>>] >= t
\* What is kept expires in time, and was the proxy's answer when it was asked.
Within(items, k) ==
  items[k] # NotKept => /\ items[k].expires <= tick + CacheTTL
                        /\ Fresh(k, items[k].n, items[k].expires - CacheTTL - Slowest)

\* What a request has was the proxy's answer when it asked, at most Slowest ago.
Asks(r) ==
  \/ r = NotAsking
  \/ /\ r \in [pc : {"asking"}, key : Key, since : Nat]
     /\ r.since <= tick /\ tick <= r.since + Slowest
  \/ /\ r \in [pc : {"answered"}, key : Key, n : 0..Releases, since : Nat]
     /\ r.since <= tick /\ tick <= r.since + Slowest
     /\ Fresh(r.key, r.n, r.since)
  \/ /\ r \in [pc : {"done"}, key : Key, n : 0..Releases]
     /\ Fresh(r.key, r.n, tick - (CacheTTL + Slowest))

\* The inductive invariant: the cache is within its bounds, and its bytes are
\* counted; and each answer, kept or on its way, was true when it was asked for.
CacheInv ==
  /\ tick \in Nat
  /\ current \in [Key -> 0..Releases]
  /\ ended \in [Key \X (0..Releases) -> Nat]
  /\ cached \in Items
  /\ DOMAIN asker = Asker
  /\ BytesAreCounted
  /\ CacheIsBounded
  /\ \A k \in Key : Within(cached, k)
  /\ \A a \in Asker : Asks(asker[a])

\* The parameters are numbers.
LEMMA TimesAreNumbers == CacheTTL \in Nat /\ Slowest \in Nat /\ LastTick \in Nat /\ Releases \in Nat
                         /\ MaxEntries \in Nat \ {0} /\ MaxBytes \in Nat /\ MaxCachedBody \in Nat /\ MaxCachedBody <= MaxBytes
  BY ProxyCacheConstants

\* Put keeps the count, the bounds and the times.
LEMMA PutKeeps ==
  ASSUME CacheInv, NEW k \in Key, NEW n \in 0..Releases, Put(k, n), SizeOf[<<k, n>>] <= MaxCachedBody,
         Fresh(k, n, tick - Slowest), UNCHANGED <<tick, current, ended>>
  PROVE  /\ cached' \in Items
         /\ BytesAreCounted' /\ CacheIsBounded'
         /\ \A j \in Key : Within(cached, j)'
  <1> PICK size : size = SizeOf[<<k, n>>]
    OBVIOUS
  <1> PICK others : others = Without(cached, {k})
    OBVIOUS
  <1> PICK counted : counted = bytes - Replaced(k)
    OBVIOUS
  <1> PICK expired : expired = {j \in Key : others[j] # NotKept /\ tick > others[j].expires}
    OBVIOUS
  <1> PICK swept : swept = IF Full(others, counted, size) THEN Without(others, expired) ELSE others
    OBVIOUS
  <1> PICK sweptBytes : sweptBytes = IF Full(others, counted, size)
                    THEN counted - (Bytes(others) - Bytes(swept)) ELSE counted
    OBVIOUS
  <1> PICK clear : clear = (Full(others, counted, size) /\ StillFull(swept, sweptBytes, size))
    OBVIOUS
  <1> PICK base : base = IF clear THEN Without(cached, Key) ELSE swept
    OBVIOUS
  <1> PICK baseBytes : baseBytes = IF clear THEN 0 ELSE sweptBytes
    OBVIOUS
  <1>1. /\ cached' = [base EXCEPT ![k] = [n |-> n, expires |-> tick + CacheTTL]]
        /\ bytes' = baseBytes + size
    BY DEF Put
  <1>2. size \in Nat /\ size <= MaxBytes /\ MaxEntries \in Nat \ {0} /\ MaxBytes \in Nat
    BY SizeIsANumber, TimesAreNumbers
  <1>3. others \in Items /\ others[k] = NotKept /\ Bytes(others) = counted
    <2>1. bytes = Bytes(cached) /\ cached \in Items
      BY DEF CacheInv, BytesAreCounted
    <2> QED
      BY <2>1, WithoutIsItems, BytesWithoutOne DEF Replaced
  <1>4. swept \in Items /\ swept[k] = NotKept /\ sweptBytes = Bytes(swept)
    <2>1. CASE Full(others, counted, size)
      <3>1. swept = Without(others, expired) /\ sweptBytes = counted - (Bytes(others) - Bytes(swept))
        BY <2>1
      <3>2. swept \in Items /\ swept[k] = NotKept
        BY <1>3, <3>1, WithoutIsItems
      <3>3. Bytes(swept) \in Nat /\ Bytes(others) \in Nat
        BY <1>3, <3>2, BytesIsANumber
      <3> QED
        BY <1>3, <3>1, <3>2, <3>3
    <2>2. CASE ~Full(others, counted, size)
      BY <1>3, <2>2
    <2> QED
      BY <2>1, <2>2
  <1>5. /\ base \in Items /\ base[k] = NotKept /\ baseBytes = Bytes(base)
        /\ Count(base) < MaxEntries /\ baseBytes + size <= MaxBytes
    <2>1. CASE clear
      <3>1. base = Without(cached, Key) /\ baseBytes = 0
        BY <2>1
      <3>2. cached \in Items
        BY DEF CacheInv
      <3>3. base \in Items /\ base[k] = NotKept /\ Bytes(base) = 0 /\ Count(base) = 0
        BY <3>1, <3>2, WithoutIsItems, BytesOfNone
      <3> QED
        BY <1>2, <3>1, <3>3
    <2>2. CASE ~clear
      <3>1. base = swept /\ baseBytes = sweptBytes
        BY <2>2
      <3>2. ~Full(swept, sweptBytes, size)
        BY <2>2 DEF StillFull
      <3>3. Count(swept) \in Nat /\ sweptBytes \in Nat
        <4>1. Bytes(swept) \in Nat
          BY <1>4, BytesIsANumber
        <4>2. IsFiniteSet({j \in Key : swept[j] # NotKept})
          BY ProxyCacheConstants, FS_Subset
        <4> QED
          BY <1>4, <4>1, <4>2, FS_CardinalityType DEF Count
      <3> QED
        BY <1>2, <1>4, <3>1, <3>2, <3>3 DEF Full
    <2> QED
      BY <2>1, <2>2
  <1> PICK e : e = [n |-> n, expires |-> tick + CacheTTL]
    OBVIOUS
  <1>6. e \in Answers /\ e.n = n /\ e.expires = tick + CacheTTL
    BY TimesAreNumbers DEF Answers, CacheInv
  <1>7. cached' \in Items /\ Bytes(cached') = Bytes(base) + size
    <2>1. cached' = [base EXCEPT ![k] = e]
      BY <1>1
    <2> QED
      BY <1>5, <1>6, <2>1, BytesWith
  <1>8. Count(cached') = Count(base) + 1 /\ Count(base) \in Nat
    <2>1. cached' = [base EXCEPT ![k] = e]
      BY <1>1
    <2> QED
      BY <1>5, <1>6, <2>1, CountWith
  <1>9. BytesAreCounted'
    <2>1. Bytes(cached)' = Bytes(cached')
      BY DEF Bytes
    <2> QED
      BY <1>1, <1>5, <1>7, <2>1 DEF BytesAreCounted
  <1>10. CacheIsBounded'
    <2>1. Bytes(cached)' = Bytes(cached') /\ Cardinality(Kept)' = Count(cached')
      BY DEF Bytes, Kept, Count
    <2>2. Count(cached') <= MaxEntries
      BY <1>2, <1>5, <1>8
    <2>3. Bytes(cached') <= MaxBytes
      BY <1>5, <1>7
    <2> QED
      BY <2>1, <2>2, <2>3 DEF CacheIsBounded
  <1>11. ASSUME NEW j \in Key PROVE Within(cached, j)'
    <2>1. CASE j = k
      <3>1. cached'[k] = e
        BY <1>1, <1>5 DEF Items
      <3>2. tick \in Nat /\ CacheTTL \in Nat /\ Slowest \in Nat
        BY TimesAreNumbers DEF CacheInv
      <3>3. e.expires - CacheTTL - Slowest = tick - Slowest
        BY <1>6, <3>2
      <3>4. Fresh(k, e.n, e.expires - CacheTTL - Slowest)
        BY <1>6, <3>3
      <3>5. e.expires <= tick + CacheTTL
        BY <1>6, <3>2
      <3> QED
        BY <2>1, <3>1, <3>4, <3>5 DEF Within, Fresh
    <2>2. CASE j # k
      <3>1. cached'[j] = base[j]
        BY <1>1, <1>5, <2>2 DEF Items
      <3>2. cached \in Items /\ Within(cached, j)
        BY DEF CacheInv
      <3>3. base[j] \in {NotKept, cached[j]}
        <4>1. Without(cached, Key)[j] = NotKept
          BY <3>2, WithoutIsItems
        <4>2. others[j] \in {NotKept, cached[j]}
          BY <3>2, WithoutIsItems
        <4>3. Without(others, expired)[j] \in {NotKept, others[j]}
          BY <1>3, WithoutIsItems
        <4> QED
          BY <4>1, <4>2, <4>3
      <3> QED
        BY <3>1, <3>2, <3>3 DEF Within, Fresh
    <2> QED
      BY <2>1, <2>2
  <1> QED
    BY <1>7, <1>9, <1>10, <1>11

Asking == [pc : {"asking"}, key : Key, since : Nat]
Replied == [pc : {"answered"}, key : Key, n : 0..Releases, since : Nat]
Finished == [pc : {"done"}, key : Key, n : 0..Releases]

\* What a request knows by its place.
LEMMA AsksByPlace ==
  ASSUME CacheInv, NEW a \in Asker
  PROVE  /\ asker[a].pc = "asking" => /\ asker[a] \in Asking
                                      /\ asker[a].since <= tick /\ tick <= asker[a].since + Slowest
         /\ asker[a].pc = "answered" => /\ asker[a] \in Replied
                                        /\ asker[a].since <= tick /\ tick <= asker[a].since + Slowest
                                        /\ Fresh(asker[a].key, asker[a].n, asker[a].since)
         /\ asker[a].pc = "done" => /\ asker[a] \in Finished
                                    /\ Fresh(asker[a].key, asker[a].n, tick - (CacheTTL + Slowest))
  <1>1. Asks(asker[a])
    BY DEF CacheInv
  <1> QED
    BY <1>1 DEF Asks, NotAsking, Asking, Replied, Finished

\* Only one request moves, and the cache, the clock and the proxy stay.
LEMMA OneAsks ==
  ASSUME CacheInv, NEW a \in Asker, NEW r, asker' = [asker EXCEPT ![a] = r], Asks(r),
         UNCHANGED <<tick, current, ended, cached, bytes>>
  PROVE  CacheInv'
  <1>1. \A b \in Asker : asker'[b] = IF b = a THEN r ELSE asker[b]
    BY DEF CacheInv
  <1>2. ASSUME NEW b \in Asker PROVE Asks(asker[b])'
    <2>1. Asks(asker'[b])
      BY <1>1 DEF CacheInv
    <2> QED
      BY <2>1 DEF Asks, Fresh
  <1>3. BytesAreCounted' /\ CacheIsBounded' /\ DOMAIN asker' = Asker
    BY DEF CacheInv, BytesAreCounted, CacheIsBounded, Bytes, Kept
  <1>4. \A k \in Key : Within(cached, k)'
    BY DEF CacheInv, Within, Fresh
  <1> QED
    BY <1>2, <1>3, <1>4 DEF CacheInv

\* A request finds a kept answer, or asks the proxy.
LEMMA AskForKeeps ==
  ASSUME CacheInv, NEW a \in Asker, NEW k \in Key, AskFor(a, k)
  PROVE  CacheInv'
  <1>0. tick \in Nat /\ CacheTTL \in Nat /\ Slowest \in Nat
    BY TimesAreNumbers DEF CacheInv
  <1>1. CASE Live(k)
    <2> PICK r : r = [pc |-> "done", key |-> k, n |-> cached[k].n]
      OBVIOUS
    <2>1. cached[k] # NotKept /\ tick <= cached[k].expires /\ Within(cached, k) /\ cached[k] \in {NotKept} \cup Answers
      BY <1>1 DEF Live, CacheInv, Items
    <2>2. cached[k].n \in 0..Releases /\ cached[k].expires \in Nat
      BY <2>1 DEF Answers
    <2>3. Fresh(k, cached[k].n, tick - (CacheTTL + Slowest))
      <3>1. Fresh(k, cached[k].n, cached[k].expires - CacheTTL - Slowest)
        BY <2>1 DEF Within
      <3>2. ended[<<k, cached[k].n>>] \in Nat
        BY <2>2 DEF CacheInv
      <3> DEFINE x == ended[<<k, cached[k].n>>]
                 y == cached[k].expires
      <3>3. x \in Nat /\ y \in Nat /\ tick <= y /\ (cached[k].n = current[k] \/ x >= y - CacheTTL - Slowest)
        BY <2>1, <2>2, <3>1, <3>2 DEF Fresh
      <3>4. cached[k].n = current[k] \/ x >= tick - (CacheTTL + Slowest)
        <4> HIDE DEF x, y
        <4> QED
          BY <1>0, <3>3
      <3> QED
        BY <3>4 DEF Fresh
    <2>4. Asks(r)
      BY <2>2, <2>3 DEF Asks
    <2>5. asker' = [asker EXCEPT ![a] = r]
      BY <1>1 DEF AskFor
    <2> QED
      BY <2>4, <2>5, OneAsks DEF AskFor
  <1>2. CASE ~Live(k)
    <2> PICK r : r = [pc |-> "asking", key |-> k, since |-> tick]
      OBVIOUS
    <2>1. Asks(r)
      BY <1>0 DEF Asks
    <2>2. asker' = [asker EXCEPT ![a] = r]
      BY <1>2 DEF AskFor
    <2> QED
      BY <2>1, <2>2, OneAsks DEF AskFor
  <1> QED
    BY <1>1, <1>2

\* The proxy answers.
LEMMA ProxyAnswersKeeps ==
  ASSUME CacheInv, NEW a \in Asker, ProxyAnswers(a)
  PROVE  CacheInv'
  <1> PICK k : k = asker[a].key
    OBVIOUS
  <1> PICK r : r = [pc |-> "answered", key |-> k, n |-> current[k], since |-> asker[a].since]
    OBVIOUS
  <1>1. asker[a] \in Asking /\ asker[a].since <= tick /\ tick <= asker[a].since + Slowest
    BY AsksByPlace DEF ProxyAnswers
  <1>2. k \in Key /\ asker[a].since \in Nat /\ current[k] \in 0..Releases
    BY <1>1 DEF Asking, CacheInv
  <1>3. Asks(r)
    BY <1>1, <1>2 DEF Asks, Fresh
  <1>4. asker' = [asker EXCEPT ![a] = r]
    BY DEF ProxyAnswers
  <1> QED
    BY <1>3, <1>4, OneAsks DEF ProxyAnswers

\* The proxy fails, or the request ends.
LEMMA ToIdleKeeps ==
  ASSUME CacheInv, NEW a \in Asker, ProxyFails(a) \/ Leave(a)
  PROVE  CacheInv'
  <1>1. Asks(NotAsking)
    BY DEF Asks
  <1>2. asker' = [asker EXCEPT ![a] = NotAsking]
    BY DEF ProxyFails, Leave
  <1> QED
    BY <1>1, <1>2, OneAsks DEF ProxyFails, Leave

\* An answer is kept: what it replaces goes, and when it does not fit, all.
LEMMA KeepAnswerKeeps ==
  ASSUME CacheInv, NEW a \in Asker, KeepAnswer(a)
  PROVE  CacheInv'
  <1> PICK k : k = asker[a].key
    OBVIOUS
  <1> PICK n : n = asker[a].n
    OBVIOUS
  <1> PICK r : r = [pc |-> "done", key |-> k, n |-> n]
    OBVIOUS
  <1>0. tick \in Nat /\ CacheTTL \in Nat /\ Slowest \in Nat
    BY TimesAreNumbers DEF CacheInv
  <1>1. /\ asker[a] \in Replied /\ tick <= asker[a].since + Slowest
        /\ Fresh(k, n, asker[a].since)
    BY AsksByPlace DEF KeepAnswer
  <1>2. k \in Key /\ n \in 0..Releases /\ asker[a].since \in Nat
    BY <1>1 DEF Replied
  <1>3. Fresh(k, n, tick - Slowest) /\ Fresh(k, n, tick - (CacheTTL + Slowest))
    <2> DEFINE x == ended[<<k, n>>]
               s == asker[a].since
    <2>1. x \in Nat /\ s \in Nat /\ tick <= s + Slowest /\ (n = current[k] \/ x >= s)
      BY <1>1, <1>2 DEF Fresh, CacheInv
    <2>2. n = current[k] \/ (x >= tick - Slowest /\ x >= tick - (CacheTTL + Slowest))
      <3> HIDE DEF x, s
      <3> QED
        BY <1>0, <2>1
    <2> QED
      BY <2>2 DEF Fresh
  <1>4. /\ asker' = [asker EXCEPT ![a] = r] /\ UNCHANGED <<tick, current, ended>>
        /\ IF SizeOf[<<k, n>>] > MaxCachedBody THEN UNCHANGED <<cached, bytes>> ELSE Put(k, n)
    BY DEF KeepAnswer
  <1>5. Asks(r)
    BY <1>2, <1>3 DEF Asks
  <1>6. CASE SizeOf[<<k, n>>] > MaxCachedBody
    BY <1>4, <1>5, <1>6, OneAsks
  <1>7. CASE ~(SizeOf[<<k, n>>] > MaxCachedBody)
    <2>1. SizeOf[<<k, n>>] <= MaxCachedBody
      BY <1>2, <1>7, SizeIsANumber, TimesAreNumbers
    <2>2. Put(k, n)
      BY <1>4, <1>7
    <2>3. cached' \in Items /\ BytesAreCounted' /\ CacheIsBounded' /\ \A j \in Key : Within(cached, j)'
      BY <1>2, <1>3, <1>4, <2>1, <2>2, PutKeeps
    <2>4. \A b \in Asker : asker'[b] = IF b = a THEN r ELSE asker[b]
      BY <1>4 DEF CacheInv
    <2>5. ASSUME NEW b \in Asker PROVE Asks(asker[b])'
      <3>1. Asks(asker'[b])
        BY <1>5, <2>4 DEF CacheInv
      <3> QED
        BY <1>4, <3>1 DEF Asks, Fresh
    <2>6. DOMAIN asker' = Asker
      BY <1>4 DEF CacheInv
    <2> QED
      BY <1>4, <2>3, <2>5, <2>6 DEF CacheInv
  <1> QED
    BY <1>6, <1>7

\* When the answer changes, what was the answer has just ended.
LEMMA FreshStays ==
  ASSUME CacheInv, NEW k \in Key, ProxyChanges(k), NEW j \in Key, NEW n \in 0..Releases, NEW t \in Int, t <= tick,
         Fresh(j, n, t)
  PROVE  Fresh(j, n, t)'
  <1>1. /\ current' = [current EXCEPT ![k] = @ + 1] /\ ended' = [ended EXCEPT ![<<k, current[k]>>] = tick]
        /\ current \in [Key -> 0..Releases] /\ ended \in [Key \X (0..Releases) -> Nat]
    BY DEF ProxyChanges, CacheInv
  <1>2. ended'[<<j, n>>] = IF j = k /\ n = current[k] THEN tick ELSE ended[<<j, n>>]
    <2>1. <<j, n>> \in Key \X (0..Releases) /\ current[k] \in 0..Releases
      BY <1>1
    <2>2. <<j, n>> = <<k, current[k]>> <=> j = k /\ n = current[k]
      OBVIOUS
    <2> QED
      BY <1>1, <2>1, <2>2
  <1>3. j # k => current'[j] = current[j]
    BY <1>1
  <1>4. CASE j = k /\ n = current[k]
    BY <1>2, <1>4 DEF Fresh
  <1>5. CASE ~(j = k /\ n = current[k])
    BY <1>2, <1>3, <1>5 DEF Fresh
  <1> QED
    BY <1>4, <1>5

\* The proxy has a new answer; the one before was its answer until now.
LEMMA ProxyChangesKeeps ==
  ASSUME CacheInv, NEW k \in Key, ProxyChanges(k)
  PROVE  CacheInv'
  <1>0. /\ tick \in Nat /\ CacheTTL \in Nat /\ Slowest \in Nat /\ tick' = tick
        /\ cached' = cached /\ bytes' = bytes /\ asker' = asker
    BY TimesAreNumbers DEF CacheInv, ProxyChanges
  <1>1. current' \in [Key -> 0..Releases] /\ ended' \in [Key \X (0..Releases) -> Nat]
    <2>1. current[k] \in 0..Releases /\ current[k] < Releases /\ Releases \in Nat
      BY TimesAreNumbers DEF ProxyChanges, CacheInv
    <2>2. current[k] + 1 \in 0..Releases
      BY <2>1
    <2> QED
      BY <1>0, <2>1, <2>2 DEF ProxyChanges, CacheInv
  <1>2. ASSUME NEW j \in Key PROVE Within(cached, j)'
    <2> SUFFICES ASSUME cached[j] # NotKept PROVE Within(cached, j)'
      BY <1>0 DEF Within
    <2>1. Within(cached, j) /\ cached[j] \in Answers
      BY DEF CacheInv, Items
    <2>2. cached[j].n \in 0..Releases /\ cached[j].expires \in Nat /\ cached[j].expires <= tick + CacheTTL
      BY <2>1 DEF Answers, Within
    <2> PICK t : t = cached[j].expires - CacheTTL - Slowest
      OBVIOUS
    <2>3. t \in Int /\ t <= tick
      BY <1>0, <2>2
    <2>4. Fresh(j, cached[j].n, t)
      BY <2>1 DEF Within
    <2> PICK n : n = cached[j].n
      OBVIOUS
    <2>5. Fresh(j, n, t)'
      BY <2>2, <2>3, <2>4, FreshStays
    <2>6. n = cached'[j].n /\ t = cached'[j].expires - CacheTTL - Slowest
      BY <1>0
    <2>7. cached'[j].expires <= tick' + CacheTTL
      BY <1>0, <2>2
    <2> QED
      BY <2>5, <2>6, <2>7 DEF Within, Fresh
  <1>3. ASSUME NEW a \in Asker PROVE Asks(asker[a])'
    <2> PICK r : r = asker[a]
      OBVIOUS
    <2>1. Asks(r) /\ r = asker'[a]
      BY <1>0 DEF CacheInv
    <2>2. CASE r \in Replied /\ r.since <= tick /\ tick <= r.since + Slowest /\ Fresh(r.key, r.n, r.since)
      <3>1. r.key \in Key /\ r.n \in 0..Releases /\ r.since \in Nat
        BY <2>2 DEF Replied
      <3>2. Fresh(r.key, r.n, r.since)'
        BY <2>2, <3>1, FreshStays
      <3> QED
        BY <1>0, <2>1, <2>2, <3>2 DEF Asks, Replied
    <2>3. CASE r \in Finished /\ Fresh(r.key, r.n, tick - (CacheTTL + Slowest))
      <3>1. r.key \in Key /\ r.n \in 0..Releases
        BY <2>3 DEF Finished
      <3> PICK t : t = tick - (CacheTTL + Slowest)
        OBVIOUS
      <3>2. t \in Int /\ t <= tick
        BY <1>0
      <3>3. Fresh(r.key, r.n, t)'
        BY <2>3, <3>1, <3>2, FreshStays
      <3>4. t = tick' - (CacheTTL + Slowest)
        BY <1>0
      <3> QED
        BY <1>0, <2>1, <2>3, <3>3, <3>4 DEF Asks, Finished, Fresh
    <2>4. CASE r = NotAsking \/ (r \in Asking /\ r.since <= tick /\ tick <= r.since + Slowest)
      BY <1>0, <2>1, <2>4 DEF Asks, Asking
    <2> QED
      BY <2>1, <2>2, <2>3, <2>4 DEF Asks, Asking, Replied, Finished
  <1>4. BytesAreCounted' /\ CacheIsBounded' /\ DOMAIN asker' = Asker
    BY <1>0 DEF CacheInv, BytesAreCounted, CacheIsBounded, Bytes, Kept
  <1> QED
    BY <1>0, <1>1, <1>2, <1>3, <1>4 DEF CacheInv

\* Time passes; a request is not older than Slowest.
LEMMA TickGoesOnKeeps ==
  ASSUME CacheInv, TickGoesOn
  PROVE  CacheInv'
  <1>0. /\ tick \in Nat /\ CacheTTL \in Nat /\ Slowest \in Nat /\ tick' = tick + 1
        /\ cached' = cached /\ bytes' = bytes /\ asker' = asker /\ current' = current /\ ended' = ended
    BY TimesAreNumbers DEF CacheInv, TickGoesOn
  <1>1. ASSUME NEW j \in Key PROVE Within(cached, j)'
    <2> SUFFICES ASSUME cached[j] # NotKept PROVE Within(cached, j)'
      BY <1>0 DEF Within
    <2>1. Within(cached, j) /\ cached[j] \in Answers
      BY DEF CacheInv, Items
    <2>2. cached[j].expires \in Nat /\ cached[j].expires <= tick + CacheTTL
      BY <2>1 DEF Answers, Within
    <2>3. cached[j].expires <= tick' + CacheTTL
      BY <1>0, <2>2
    <2> QED
      BY <1>0, <2>1, <2>3 DEF Within, Fresh
  <1>2. ASSUME NEW a \in Asker PROVE Asks(asker[a])'
    <2>1. asker[a].pc # "done"
      BY DEF TickGoesOn
    <2>2. asker[a].pc \in {"asking", "answered"} => tick < asker[a].since + Slowest
      BY DEF TickGoesOn
    <2>3. Asks(asker[a])
      BY DEF CacheInv
    <2>4. CASE asker[a] \in Asking /\ asker[a].since <= tick
      <3>1. asker[a].since \in Nat /\ tick < asker[a].since + Slowest
        BY <2>2, <2>4 DEF Asking
      <3>2. asker[a].since <= tick' /\ tick' <= asker[a].since + Slowest
        BY <1>0, <2>4, <3>1
      <3> QED
        BY <1>0, <2>4, <3>2 DEF Asks, Asking
    <2>5. CASE asker[a] \in Replied /\ asker[a].since <= tick /\ Fresh(asker[a].key, asker[a].n, asker[a].since)
      <3>1. asker[a].since \in Nat /\ tick < asker[a].since + Slowest
        BY <2>2, <2>5 DEF Replied
      <3>2. asker[a].since <= tick' /\ tick' <= asker[a].since + Slowest
        BY <1>0, <2>5, <3>1
      <3> QED
        BY <1>0, <2>5, <3>2 DEF Asks, Replied, Fresh
    <2>6. CASE asker[a] = NotAsking
      BY <1>0, <2>6 DEF Asks
    <2> QED
      BY <2>1, <2>3, <2>4, <2>5, <2>6 DEF Asks, Asking, Replied
  <1>3. BytesAreCounted' /\ CacheIsBounded' /\ DOMAIN asker' = Asker
    BY <1>0 DEF CacheInv, BytesAreCounted, CacheIsBounded, Bytes, Kept
  <1> QED
    BY <1>0, <1>1, <1>2, <1>3 DEF CacheInv

\* It holds at first.
LEMMA CacheStarts == ProxyCacheInit => CacheInv
  <1> SUFFICES ASSUME ProxyCacheInit PROVE CacheInv
    OBVIOUS
  <1>1. cached \in Items /\ \A k \in Key : cached[k] = NotKept
    BY DEF ProxyCacheInit, Items
  <1>2. Without(cached, Key) = cached
    BY <1>1 DEF Without, Items
  <1>3. Bytes(cached) = 0 /\ Count(cached) = 0
    BY <1>1, <1>2, BytesOfNone
  <1>4. BytesAreCounted /\ CacheIsBounded
    <2>1. Cardinality(Kept) = Count(cached)
      BY DEF Kept, Count
    <2> QED
      BY <1>3, <2>1, TimesAreNumbers DEF ProxyCacheInit, BytesAreCounted, CacheIsBounded
  <1>5. \A k \in Key : Within(cached, k)
    BY <1>1 DEF Within
  <1>6. \A a \in Asker : Asks(asker[a])
    BY DEF ProxyCacheInit, Asks
  <1>7. /\ tick \in Nat /\ current \in [Key -> 0..Releases] /\ ended \in [Key \X (0..Releases) -> Nat]
        /\ DOMAIN asker = Asker
    BY TimesAreNumbers DEF ProxyCacheInit
  <1> QED
    BY <1>1, <1>4, <1>5, <1>6, <1>7 DEF CacheInv

\* Every step keeps it.
LEMMA CacheStep == CacheInv /\ [ProxyCacheNext]_proxyCacheVars => CacheInv'
  <1> SUFFICES ASSUME CacheInv, [ProxyCacheNext]_proxyCacheVars PROVE CacheInv'
    OBVIOUS
  <1>1. CASE UNCHANGED proxyCacheVars
    <2>1. UNCHANGED <<tick, current, ended, cached, bytes, asker>>
      BY <1>1 DEF proxyCacheVars
    <2>2. BytesAreCounted' /\ CacheIsBounded' /\ DOMAIN asker' = Asker
      BY <2>1 DEF CacheInv, BytesAreCounted, CacheIsBounded, Bytes, Kept
    <2>3. \A k \in Key : Within(cached, k)'
      BY <2>1 DEF CacheInv, Within, Fresh
    <2>4. \A a \in Asker : Asks(asker[a])'
      BY <2>1 DEF CacheInv, Asks, Fresh
    <2> QED
      BY <2>1, <2>2, <2>3, <2>4 DEF CacheInv
  <1> QED
    BY <1>1, AskForKeeps, ProxyAnswersKeeps, ToIdleKeeps, KeepAnswerKeeps, ProxyChangesKeeps, TickGoesOnKeeps
       DEF ProxyCacheNext

\* The cache stays within its bounds, and within its time.
THEOREM TheCacheIsKept == ProxyCacheSpec => []CacheIsKept
  <1>1. CacheInv => CacheIsKept
    <2> SUFFICES ASSUME CacheInv PROVE CacheIsKept
      OBVIOUS
    <2>1. AnswersAreRecent
      BY AsksByPlace DEF AnswersAreRecent, Fresh
    <2> QED
      BY <2>1 DEF CacheInv, CacheIsKept
  <1> QED
    BY CacheStarts, CacheStep, <1>1, PTL DEF ProxyCacheSpec

\* The cache's inductive invariant, up to the last tick.
CacheTypes == CacheInv /\ tick \in 0..LastTick

\* Every step keeps it.
LEMMA CacheTypesStep == CacheTypes /\ [ProxyCacheNext]_proxyCacheVars => CacheTypes'
  <1> SUFFICES ASSUME CacheTypes, [ProxyCacheNext]_proxyCacheVars PROVE CacheTypes'
    OBVIOUS
  <1>1. CacheInv' /\ tick \in 0..LastTick /\ LastTick \in Nat
    BY CacheStep, TimesAreNumbers DEF CacheTypes
  <1>2. tick' = tick \/ (tick < LastTick /\ tick' = tick + 1)
    BY DEF ProxyCacheNext, AskFor, ProxyAnswers, ProxyFails, KeepAnswer, Leave, ProxyChanges, TickGoesOn, proxyCacheVars
  <1> QED
    BY <1>1, <1>2 DEF CacheTypes

\* It holds at first.
LEMMA CacheTypesInit == ProxyCacheInit => CacheTypes
  BY CacheStarts, TimesAreNumbers DEF CacheTypes, ProxyCacheInit

\* It is what the types say.
LEMMA CacheTypesHold == CacheTypes => ProxyCacheTypeOK
  <1> SUFFICES ASSUME CacheTypes PROVE ProxyCacheTypeOK
    OBVIOUS
  <1>1. /\ cached \in Items /\ current \in [Key -> 0..Releases] /\ tick \in 0..LastTick
        /\ CacheTTL \in Nat /\ LastTick \in Nat /\ bytes = Bytes(cached)
    BY TimesAreNumbers DEF CacheTypes, CacheInv, BytesAreCounted
  <1>2. ASSUME NEW k \in Key PROVE cached[k] \in {NotKept} \cup [n : 0..Releases, expires : 0..LastTick + CacheTTL]
    <2> SUFFICES ASSUME cached[k] # NotKept
                 PROVE  cached[k] \in [n : 0..Releases, expires : 0..LastTick + CacheTTL]
      OBVIOUS
    <2>1. cached[k] \in Answers /\ cached[k].expires <= tick + CacheTTL
      BY <1>1 DEF Items, CacheTypes, CacheInv, Within
    <2>2. cached[k].expires \in 0..LastTick + CacheTTL
      BY <1>1, <2>1 DEF Answers
    <2> QED
      BY <2>1, <2>2 DEF Answers
  <1>3. bytes \in Nat
    BY <1>1, BytesIsANumber
  <1> QED
    BY <1>1, <1>2, <1>3 DEF ProxyCacheTypeOK, Items

-----------------------------------------------------------------------------
(* Advisories.                                                             *)

\* What a form, a request and a row hold.
Forms == SUBSET [introduced : 0..TopVersion, fixed : 0..TopVersion]
Creates == [pc : {"create"}, mod : Hosted, ranges : Forms, now : Nat \ {0}]
Row == [id : [year : Int, number : Nat], mod : Hosted, ranges : Forms, modified : Nat, withdrawn : Nat]
OfYear(kept, year) == {i \in DOMAIN kept : kept[i].id.year = year}
\* Every number that was given out is one of the first that many of its year.
Numbered(kept) == \A i \in DOMAIN kept : kept[i].id.number <= Cardinality(OfYear(kept, kept[i].id.year))

\* What a handler has checked is still there when it writes: no row goes away.
EditsNow(e, kept) ==
  /\ e.pc \in {"idle", "create", "update", "withdraw"}
  /\ e.pc = "create" => e \in Creates
  /\ e.pc \in {"update", "withdraw"} => e.row \in DOMAIN kept /\ e.now \in Nat \ {0}
  /\ e.pc = "update" => e.ranges \in Forms

\* The inductive invariant.
EditInv ==
  /\ second \in Nat \ {0}
  /\ advisories \in Seq(Row)
  /\ DOMAIN edit = Editor
  /\ \A h \in Editor : EditsNow(edit[h], advisories)
  /\ Numbered(advisories)

\* The advisories of a year can be counted.
LEMMA OfYearIsFinite ==
  ASSUME NEW kept \in Seq(Row), NEW year
  PROVE  IsFiniteSet(OfYear(kept, year)) /\ Cardinality(OfYear(kept, year)) \in Nat
  <1>1. DOMAIN kept = 1..Len(kept) /\ Len(kept) \in Nat
    OBVIOUS
  <1>2. IsFiniteSet(DOMAIN kept)
    BY <1>1, FS_Interval
  <1>3. OfYear(kept, year) \in SUBSET DOMAIN kept
    BY DEF OfYear
  <1> QED
    BY <1>2, <1>3, FS_Subset, FS_CardinalityType

\* Only one handler moves, and no advisory is gone.
LEMMA OneEdits ==
  ASSUME EditInv, NEW h \in Editor, NEW e, edit' = [edit EXCEPT ![h] = e],
         second' = second, advisories' \in Seq(Row), DOMAIN advisories \subseteq DOMAIN advisories',
         Numbered(advisories'), EditsNow(e, advisories)
  PROVE  EditInv'
  <1>1. \A g \in Editor : edit'[g] = IF g = h THEN e ELSE edit[g]
    BY DEF EditInv
  <1>2. DOMAIN edit' = Editor
    BY DEF EditInv
  <1>3. ASSUME NEW g \in Editor PROVE EditsNow(edit'[g], advisories')
    <2>1. EditsNow(edit'[g], advisories)
      BY <1>1 DEF EditInv
    <2> QED
      BY <2>1 DEF EditsNow
  <1> QED
    BY <1>2, <1>3 DEF EditInv

\* Who edits nothing is fine.
LEMMA Idle == \A kept : EditsNow(NotEditing, kept)
  BY DEF EditsNow, NotEditing

\* A row keeps its id, whatever else is written.
LEMMA RowChanges ==
  ASSUME NEW kept \in Seq(Row), Numbered(kept),
         NEW i \in DOMAIN kept, NEW row \in Row, row.id = kept[i].id, NEW new, new = [kept EXCEPT ![i] = row]
  PROVE  new \in Seq(Row) /\ DOMAIN new = DOMAIN kept /\ Numbered(new)
  <1>1. new \in Seq(Row) /\ DOMAIN new = DOMAIN kept
    OBVIOUS
  <1>2. \A j \in DOMAIN kept : new[j].id = kept[j].id
    OBVIOUS
  <1>3. \A year : OfYear(new, year) = OfYear(kept, year)
    BY <1>1, <1>2 DEF OfYear
  <1> QED
    BY <1>1, <1>2, <1>3 DEF Numbered

\* Rows are added or changed, none goes away.
Grown(kept, new) == new \in Seq(Row) /\ DOMAIN kept \subseteq DOMAIN new /\ Numbered(new)

\* A new row has a number of its year that nobody has.
LEMMA RowIsAdded ==
  ASSUME NEW kept \in Seq(Row), Numbered(kept), NEW row \in Row, NEW year, row.id.year = year,
         row.id.number = Cardinality(OfYear(kept, year)) + 1, NEW new, new = Append(kept, row)
  PROVE  Grown(kept, new)
  <1> PICK n : n = Len(kept)
    OBVIOUS
  <1>1. /\ n \in Nat /\ new \in Seq(Row) /\ DOMAIN kept = 1..n /\ DOMAIN new = 1..(n + 1)
        /\ new[n + 1] = row /\ \A i \in 1..n : new[i] = kept[i]
    OBVIOUS
  <1>2. OfYear(new, year) = OfYear(kept, year) \cup {n + 1}
    BY <1>1 DEF OfYear
  <1>3. n + 1 \notin OfYear(kept, year)
    BY <1>1 DEF OfYear
  <1>4. Cardinality(OfYear(new, year)) = Cardinality(OfYear(kept, year)) + 1 /\ Cardinality(OfYear(kept, year)) \in Nat
    <2> PICK those : those = OfYear(kept, year)
      OBVIOUS
    <2>1. IsFiniteSet(those) /\ Cardinality(those) \in Nat
      BY OfYearIsFinite
    <2>2. Cardinality(those \cup {n + 1}) = Cardinality(those) + 1
      BY <1>3, <2>1, FS_AddElement
    <2> QED
      BY <1>2, <2>1, <2>2
  <1>5. \A y : y # year => OfYear(new, y) = OfYear(kept, y)
    BY <1>1 DEF OfYear
  <1>6. ASSUME NEW i \in DOMAIN new PROVE new[i].id.number <= Cardinality(OfYear(new, new[i].id.year))
    <2>1. CASE i = n + 1
      BY <1>1, <1>4, <2>1
    <2>2. CASE i # n + 1
      <3>1. i \in DOMAIN kept /\ new[i] = kept[i]
        BY <1>1, <2>2
      <3>2. kept[i].id.number <= Cardinality(OfYear(kept, kept[i].id.year))
        BY <3>1 DEF Numbered
      <3>3. kept[i] \in Row
        BY <3>1
      <3>4. kept[i].id.number \in Nat
        BY <3>3 DEF Row
      <3>5. CASE kept[i].id.year = year
        BY <1>4, <3>1, <3>2, <3>4, <3>5
      <3>6. CASE kept[i].id.year # year
        BY <1>5, <3>1, <3>2, <3>6
      <3> QED
        BY <3>5, <3>6
    <2> QED
      BY <2>1, <2>2
  <1> QED
    BY <1>1, <1>6 DEF Numbered, Grown

\* What is stored of a form is a form.
LEMMA NormalizedIsAForm ==
  ASSUME NEW form \in Form
  PROVE  Normalized(form) \in Forms
  <1>1. form \subseteq [introduced : 0..TopVersion, fixed : 0..TopVersion]
    BY AdvisoryConstants
  <1>2. Blank \in [introduced : 0..TopVersion, fixed : 0..TopVersion]
    BY AdvisoryConstants DEF Blank
  <1> QED
    BY <1>1, <1>2 DEF Normalized, Forms

\* What EditsAreOrderly says of a step.
Withdrawn == \A i \in DOMAIN advisories : advisories[i].withdrawn # 0 => advisories'[i].withdrawn # 0

\* An advisory is created, with the next number of its year.
LEMMA CreateKeeps ==
  ASSUME EditInv, NEW h \in Editor, CreateAdvisory(h)
  PROVE  EditInv' /\ Withdrawn
  <1> PICK e : e = edit[h]
    OBVIOUS
  <1> PICK year : year = e.now \div YearLength
    OBVIOUS
  <1> PICK id : id = [year |-> year, number |-> Cardinality(OfYear(advisories, year)) + 1]
    OBVIOUS
  <1> PICK row : row = [id |-> id, mod |-> e.mod, ranges |-> e.ranges, modified |-> e.now, withdrawn |-> 0]
    OBVIOUS
  <1>0. e.pc = "create" /\ e \in Creates
    BY DEF CreateAdvisory, EditInv, EditsNow
  <1>1. e.mod \in Hosted /\ e.ranges \in Forms /\ e.now \in Nat /\ year \in Int
    <2>1. e.mod \in Hosted /\ e.ranges \in Forms /\ e.now \in Nat
      BY <1>0 DEF Creates
    <2> QED
      BY <2>1, AdvisoryConstants
  <1>2. id = NextId(year, e.mod)
    BY DEF NextId, PublishedIn, OfYear
  <1>3. Cardinality(OfYear(advisories, year)) \in Nat
    BY OfYearIsFinite DEF EditInv
  <1>4. row \in Row /\ row.id = id /\ id.year = year /\ id.number = Cardinality(OfYear(advisories, year)) + 1
    BY <1>1, <1>3 DEF Row
  <1>5. ~ \E a \in AllRows : a.id = id
    <2> SUFFICES ASSUME NEW a \in AllRows, a.id = id PROVE FALSE
      OBVIOUS
    <2>1. PICK i \in DOMAIN advisories : advisories[i] = a
      BY DEF AllRows, ToSet
    <2>2. advisories[i].id.number <= Cardinality(OfYear(advisories, advisories[i].id.year))
      BY DEF EditInv, Numbered
    <2>3. Cardinality(OfYear(advisories, year)) + 1 <= Cardinality(OfYear(advisories, year))
      BY <1>4, <2>1, <2>2
    <2> QED
      BY <1>3, <2>3
  <1>6. /\ edit' = [edit EXCEPT ![h] = NotEditing] /\ advisories' = Append(advisories, row) /\ second' = second
    <2>1. ~ \E a \in AllRows : a.id = NextId(e.now \div YearLength, e.mod)
      BY <1>2, <1>5
    <2>2. row = [id |-> NextId(e.now \div YearLength, e.mod), mod |-> e.mod, ranges |-> e.ranges,
                 modified |-> e.now, withdrawn |-> 0]
      BY <1>2
    <2> QED
      BY <2>1, <2>2 DEF CreateAdvisory
  <1>7. advisories \in Seq(Row) /\ Numbered(advisories)
    BY DEF EditInv
  <1>8. advisories' \in Seq(Row) /\ DOMAIN advisories \subseteq DOMAIN advisories' /\ Numbered(advisories')
    <2> PICK kept : kept = advisories
      OBVIOUS
    <2> PICK new : new = Append(kept, row)
      OBVIOUS
    <2>1. kept \in Seq(Row) /\ Numbered(kept) /\ row.id.number = Cardinality(OfYear(kept, year)) + 1 /\ row.id.year = year
      BY <1>4, <1>7
    <2>2. row \in Row
      BY <1>4
    <2>3. Grown(kept, new)
      BY <2>1, <2>2, RowIsAdded
    <2> QED
      BY <1>6, <2>3 DEF Grown
  <1>9. EditInv'
    BY <1>6, <1>8, Idle, OneEdits
  <1>10. Withdrawn
    <2>1. \A i \in DOMAIN advisories : Append(advisories, row)[i] = advisories[i]
      BY <1>4, <1>7
    <2> QED
      BY <1>6, <2>1 DEF Withdrawn
  <1> QED
    BY <1>9, <1>10

\* A handler checks who asks and what is there.
LEMMA CheckKeeps ==
  ASSUME EditInv, NEW h \in Editor,
         \/ \E mod \in Hosted, form \in Form : CheckCreate(h, mod, form)
         \/ \E i \in DOMAIN advisories, form \in Form : CheckUpdate(h, i, form)
         \/ \E i \in DOMAIN advisories : CheckWithdraw(h, i)
         \/ EditFails(h)
  PROVE  EditInv' /\ Withdrawn
  <1>0. /\ advisories \in Seq(Row) /\ Numbered(advisories) /\ second \in Nat \ {0}
    BY DEF EditInv
  <1>1. advisories' = advisories /\ second' = second
    BY DEF CheckCreate, CheckUpdate, CheckWithdraw, EditFails
  <1>2. PICK e : edit' = [edit EXCEPT ![h] = e] /\ EditsNow(e, advisories)
    <2>1. ASSUME NEW mod \in Hosted, NEW form \in Form, CheckCreate(h, mod, form)
          PROVE  \E e : edit' = [edit EXCEPT ![h] = e] /\ EditsNow(e, advisories)
      <3> PICK e : e = [pc |-> "create", mod |-> mod, ranges |-> Normalized(form), now |-> second]
        OBVIOUS
      <3>1. e \in Creates /\ e.pc = "create"
        BY <1>0, NormalizedIsAForm DEF Creates
      <3> QED
        BY <2>1, <3>1 DEF CheckCreate, EditsNow
    <2>2. ASSUME NEW i \in DOMAIN advisories, NEW form \in Form, CheckUpdate(h, i, form)
          PROVE  \E e : edit' = [edit EXCEPT ![h] = e] /\ EditsNow(e, advisories)
      <3> PICK e : e = [pc |-> "update", row |-> i, ranges |-> Normalized(form), now |-> second]
        OBVIOUS
      <3>1. e.pc = "update" /\ e.row = i /\ e.now = second /\ e.ranges \in Forms
        BY NormalizedIsAForm
      <3> QED
        BY <1>0, <2>2, <3>1 DEF CheckUpdate, EditsNow
    <2>3. ASSUME NEW i \in DOMAIN advisories, CheckWithdraw(h, i)
          PROVE  \E e : edit' = [edit EXCEPT ![h] = e] /\ EditsNow(e, advisories)
      <3> PICK e : e = [pc |-> "withdraw", row |-> i, now |-> second]
        OBVIOUS
      <3>1. e.pc = "withdraw" /\ e.row = i /\ e.now = second
        OBVIOUS
      <3> QED
        BY <1>0, <2>3, <3>1 DEF CheckWithdraw, EditsNow
    <2>4. ASSUME EditFails(h)
          PROVE  \E e : edit' = [edit EXCEPT ![h] = e] /\ EditsNow(e, advisories)
      BY <2>4, Idle DEF EditFails
    <2> QED
      BY <2>1, <2>2, <2>3, <2>4
  <1>3. EditInv'
    BY <1>0, <1>1, <1>2, OneEdits
  <1> QED
    BY <1>1, <1>3 DEF Withdrawn

\* An advisory is changed or withdrawn.
LEMMA UpdateKeeps ==
  ASSUME EditInv, NEW h \in Editor, UpdateAdvisory(h) \/ WithdrawAdvisory(h)
  PROVE  EditInv' /\ Withdrawn
  <1> PICK i : i = edit[h].row
    OBVIOUS
  <1> PICK now : now = edit[h].now
    OBVIOUS
  <1>0. /\ i \in DOMAIN advisories /\ now \in Nat \ {0}
        /\ edit[h].pc = "update" => edit[h].ranges \in Forms
        /\ advisories \in Seq(Row) /\ Numbered(advisories)
    BY DEF EditInv, EditsNow, UpdateAdvisory, WithdrawAdvisory
  <1>1. advisories[i] \in Row
    BY <1>0
  <1>2. PICK row \in Row : /\ row.id = advisories[i].id /\ advisories' = [advisories EXCEPT ![i] = row]
                           /\ advisories[i].withdrawn # 0 => row.withdrawn # 0
    <2>1. CASE UpdateAdvisory(h)
      <3> PICK row : row = [advisories[i] EXCEPT !.ranges = edit[h].ranges, !.modified = now]
        OBVIOUS
      <3>1. edit[h].ranges \in Forms
        BY <1>0, <2>1 DEF UpdateAdvisory
      <3>2. row \in Row /\ row.id = advisories[i].id /\ row.withdrawn = advisories[i].withdrawn
        BY <1>0, <1>1, <3>1 DEF Row
      <3>3. advisories' = [advisories EXCEPT ![i] = row]
        BY <2>1 DEF UpdateAdvisory
      <3> QED
        BY <3>2, <3>3
    <2>2. CASE WithdrawAdvisory(h)
      <3> PICK row : row = [advisories[i] EXCEPT !.withdrawn = now, !.modified = now]
        OBVIOUS
      <3>2. row \in Row /\ row.id = advisories[i].id /\ row.withdrawn = now
        BY <1>0, <1>1 DEF Row
      <3>3. advisories' = [advisories EXCEPT ![i] = row]
        BY <2>2 DEF WithdrawAdvisory
      <3>4. now # 0
        BY <1>0
      <3> QED
        BY <3>2, <3>3, <3>4
    <2> QED
      BY <2>1, <2>2
  <1>3. advisories' \in Seq(Row) /\ DOMAIN advisories' = DOMAIN advisories /\ Numbered(advisories')
    BY <1>0, <1>2, RowChanges
  <1>4. edit' = [edit EXCEPT ![h] = NotEditing] /\ second' = second
    BY DEF UpdateAdvisory, WithdrawAdvisory
  <1>5. EditInv'
    BY <1>3, <1>4, Idle, OneEdits
  <1>6. \A j \in DOMAIN advisories : advisories'[j] = IF j = i THEN row ELSE advisories[j]
    BY <1>0, <1>2
  <1>7. Withdrawn
    BY <1>2, <1>6 DEF Withdrawn
  <1> QED
    BY <1>5, <1>7

\* Every step keeps the invariant, and what is withdrawn.
LEMMA EditStep == EditInv /\ [AdvisoriesNext]_advisoryVars => EditInv' /\ Withdrawn
  <1> SUFFICES ASSUME EditInv, [AdvisoriesNext]_advisoryVars PROVE EditInv' /\ Withdrawn
    OBVIOUS
  <1>1. CASE \E h \in Editor : Creating(h, Form) \/ Changing(h, Form) \/ EditFails(h)
    BY <1>1, CreateKeeps, CheckKeeps, UpdateKeeps DEF Creating, Changing
  <1>2. CASE \/ \E mod \in Hosted : Review(mod)
             \/ PublicChanges \/ ToolStep \/ SecondPasses \/ UNCHANGED advisoryVars
    <2>1. advisories' = advisories /\ edit' = edit /\ second' \in {second, second + 1}
      BY <1>2 DEF Review, PublicChanges, ToolStep, RefreshCopy, FetchAdvisory, SecondPasses, advisoryVars
    <2>2. second' \in Nat \ {0}
      BY <2>1 DEF EditInv
    <2> QED
      BY <2>1, <2>2 DEF EditInv, Withdrawn
  <1> QED
    BY <1>1, <1>2 DEF AdvisoriesNext, AdvisoriesStep

\* It holds at first.
LEMMA EditInit == AdvisoriesInit => EditInv
  <1> SUFFICES ASSUME AdvisoriesInit PROVE EditInv
    OBVIOUS
  <1>1. advisories = <<>> /\ second = 1 /\ edit = [h \in Editor |-> NotEditing]
    BY DEF AdvisoriesInit
  <1>2. advisories \in Seq(Row) /\ DOMAIN advisories = {}
    BY <1>1
  <1>3. Numbered(advisories)
    BY <1>2 DEF Numbered
  <1> QED
    BY <1>1, <1>2, <1>3, Idle DEF EditInv

\* Handlers that edit at the same time neither fail nor undo each other.
THEOREM EditsStayOrderly == AdvisoriesSpec => EditsAreOrderly
  <1>1. EditInv => IdsAreFree
    BY DEF EditInv, EditsNow, IdsAreFree
  <1>2. EditInv /\ [AdvisoriesNext]_advisoryVars => [Withdrawn]_advisoryVars
    BY EditStep
  <1>3. EditInv /\ [AdvisoriesNext]_advisoryVars => EditInv'
    BY EditStep
  <1>4. AdvisoriesSpec => []EditInv
    BY EditInit, <1>3, PTL DEF AdvisoriesSpec
  <1>5. AdvisoriesSpec => []IdsAreFree
    BY <1>1, <1>4, PTL
  <1>6. AdvisoriesSpec => [][Withdrawn]_advisoryVars
    BY <1>2, <1>4, PTL DEF AdvisoriesSpec
  <1> QED
    BY <1>5, <1>6, PTL DEF EditsAreOrderly, WithdrawnStays, Withdrawn

\* The inductive invariant of the types: what a handler is about to write is
\* of the types, too.
Writes(e) == e.pc \in {"create", "update", "withdraw"} => e.now \in Second
AdvisoryTypes ==
  /\ AdvisoriesTypeOK
  /\ EditInv
  /\ DOMAIN tool = {"indexes", "reports"}
  /\ \A h \in Editor : Writes(edit[h])

\* A moment of the model is in a year of the model.
LEMMA YearsAreBounded ==
  ASSUME NEW now \in Second
  PROVE  now \div YearLength \in 0..(MaxSecond \div YearLength)
  <1> PICK n : n = YearLength
    OBVIOUS
  <1> PICK most : most = MaxSecond
    OBVIOUS
  <1>1. n \in Nat \ {0} /\ most \in Nat /\ now \in Nat /\ now <= most
    BY AdvisoryConstants DEF Second
  <1> PICK y : y = now \div n
    OBVIOUS
  <1> PICK z : z = most \div n
    OBVIOUS
  <1>2. y \in Int /\ z \in Int
    BY <1>1
  <1>3. n * y <= now /\ now < n * y + n
    BY <1>1
  <1>4. n * z <= most /\ most < n * z + n
    BY <1>1
  <1>5. y >= 0
    <2> SUFFICES ASSUME ~(y >= 0) PROVE FALSE
      OBVIOUS
    <2>1. y + 1 <= 0
      BY <1>2
    <2>2. n * (y + 1) <= 0
      BY <1>1, <1>2, <2>1
    <2>3. n * (y + 1) = n * y + n
      BY <1>1, <1>2
    <2> QED
      BY <1>1, <1>2, <1>3, <2>2, <2>3
  <1>6. y <= z
    <2> SUFFICES ASSUME ~(y <= z) PROVE FALSE
      OBVIOUS
    <2>1. z + 1 <= y
      BY <1>2
    <2>2. n * (z + 1) <= n * y
      BY <1>1, <1>2, <2>1
    <2>3. n * (z + 1) = n * z + n
      BY <1>1, <1>2
    <2>4. n * y \in Int /\ n * z \in Int
      BY <1>1, <1>2
    <2> QED
      BY <1>1, <1>2, <1>3, <1>4, <2>2, <2>3, <2>4
  <1> QED
    BY <1>2, <1>5, <1>6

\* A number that is given out is within the bound.
LEMMA NumbersAreBounded ==
  ASSUME EditInv, Len(advisories) < MaxAdvisories, NEW year
  PROVE  Cardinality(OfYear(advisories, year)) + 1 \in 1..MaxAdvisories
  <1> PICK n : n = Len(advisories)
    OBVIOUS
  <1> PICK those : those = OfYear(advisories, year)
    OBVIOUS
  <1>1. n \in Nat /\ DOMAIN advisories = 1..n
    BY DEF EditInv
  <1>2. IsFiniteSet(1..n) /\ Cardinality(1..n) = n
    <2>1. IsFiniteSet(1..n) /\ Cardinality(1..n) = (IF 1 > n THEN 0 ELSE n - 1 + 1)
      <3>1. 1 \in Int /\ n \in Int
        BY <1>1
      <3> QED
        BY <3>1, FS_Interval
    <2> QED
      BY <1>1, <2>1
  <1>3. those \in SUBSET (1..n)
    BY <1>1 DEF OfYear
  <1>4. Cardinality(those) <= n /\ Cardinality(those) \in Nat
    BY <1>2, <1>3, FS_Subset, FS_CardinalityType
  <1> QED
    BY <1>1, <1>4, AdvisoryConstants

\* A form is a set of rows of the form.
LEMMA FormsAreRanges == Forms = Ranges
  BY DEF Forms, Ranges

\* What is written is of its type.
LEMMA CreateTypes ==
  ASSUME AdvisoryTypes, NEW h \in Editor, CreateAdvisory(h)
  PROVE  \A i \in DOMAIN advisories' : advisories'[i] \in AdvisoryRow
  <1> PICK e : e = edit[h]
    OBVIOUS
  <1> PICK year : year = e.now \div YearLength
    OBVIOUS
  <1> PICK id : id = [year |-> year, number |-> Cardinality(OfYear(advisories, year)) + 1]
    OBVIOUS
  <1> PICK row : row = [id |-> id, mod |-> e.mod, ranges |-> e.ranges, modified |-> e.now, withdrawn |-> 0]
    OBVIOUS
  <1>1. e.pc = "create" /\ e \in Creates /\ e.now \in Second /\ Len(advisories) < MaxAdvisories /\ EditInv
    BY DEF CreateAdvisory, AdvisoryTypes, Writes, EditInv, EditsNow
  <1>2. e.mod \in Hosted /\ e.ranges \in Ranges /\ 0 \in Second
    BY <1>1, FormsAreRanges, AdvisoryConstants DEF Creates, Second
  <1>3. id \in AdvisoryId
    BY <1>1, YearsAreBounded, NumbersAreBounded DEF AdvisoryId
  <1>4. row \in AdvisoryRow
    BY <1>1, <1>2, <1>3 DEF AdvisoryRow
  <1>5. advisories' = advisories \/ advisories' = Append(advisories, row)
    BY <1>1 DEF CreateAdvisory, NextId, PublishedIn, OfYear
  <1>6. advisories \in Seq(Row) /\ \A i \in DOMAIN advisories : advisories[i] \in AdvisoryRow
    BY DEF AdvisoryTypes, AdvisoriesTypeOK, EditInv
  <1>7. CASE advisories' = Append(advisories, row)
    <2> PICK kept : kept = advisories
      OBVIOUS
    <2>1. \A i \in DOMAIN Append(kept, row) : Append(kept, row)[i] \in AdvisoryRow
      BY <1>4, <1>6
    <2> QED
      BY <1>7, <2>1
  <1> QED
    BY <1>5, <1>6, <1>7

\* A row that is changed or withdrawn stays of its type.
LEMMA UpdateTypes ==
  ASSUME AdvisoryTypes, NEW h \in Editor, UpdateAdvisory(h) \/ WithdrawAdvisory(h)
  PROVE  \A i \in DOMAIN advisories' : advisories'[i] \in AdvisoryRow
  <1> PICK i : i = edit[h].row
    OBVIOUS
  <1> PICK now : now = edit[h].now
    OBVIOUS
  <1>1. /\ i \in DOMAIN advisories /\ now \in Second
        /\ edit[h].pc = "update" => edit[h].ranges \in Ranges
        /\ \A j \in DOMAIN advisories : advisories[j] \in AdvisoryRow
    BY FormsAreRanges DEF AdvisoryTypes, AdvisoriesTypeOK, EditInv, EditsNow, Writes, UpdateAdvisory, WithdrawAdvisory
  <1>2. PICK row \in AdvisoryRow : advisories' = [advisories EXCEPT ![i] = row]
    <2>1. CASE UpdateAdvisory(h)
      <3> PICK row : row = [advisories[i] EXCEPT !.ranges = edit[h].ranges, !.modified = now]
        OBVIOUS
      <3>1. edit[h].ranges \in Ranges
        BY <1>1, <2>1 DEF UpdateAdvisory
      <3>2. row \in AdvisoryRow
        BY <1>1, <3>1 DEF AdvisoryRow
      <3> QED
        BY <2>1, <3>2 DEF UpdateAdvisory
    <2>2. CASE WithdrawAdvisory(h)
      <3> PICK row : row = [advisories[i] EXCEPT !.withdrawn = now, !.modified = now]
        OBVIOUS
      <3>2. row \in AdvisoryRow
        BY <1>1 DEF AdvisoryRow
      <3> QED
        BY <2>2, <3>2 DEF WithdrawAdvisory
    <2> QED
      BY <2>1, <2>2
  <1> QED
    BY <1>1, <1>2

\* What a handler is about to write has a time of the clock.
LEMMA WritesStay ==
  ASSUME AdvisoryTypes, [AdvisoriesNext]_advisoryVars
  PROVE  \A h \in Editor : Writes(edit'[h])
  <1>1. second \in Second /\ DOMAIN edit = Editor /\ \A h \in Editor : Writes(edit[h])
    BY DEF AdvisoryTypes, AdvisoriesTypeOK, EditInv
  <1>2. PICK h, e : edit' = edit \/ (edit' = [edit EXCEPT ![h] = e] /\ Writes(e))
    <2>1. ASSUME NEW h \in Editor, NEW mod \in Hosted, NEW form \in Form, CheckCreate(h, mod, form)
          PROVE  \E e : edit' = [edit EXCEPT ![h] = e] /\ Writes(e)
      <3>1. Writes([pc |-> "create", mod |-> mod, ranges |-> Normalized(form), now |-> second])
        BY <1>1 DEF Writes
      <3> QED
        BY <2>1, <3>1 DEF CheckCreate
    <2>2. ASSUME NEW h \in Editor, NEW i \in DOMAIN advisories, NEW form \in Form, CheckUpdate(h, i, form)
          PROVE  \E e : edit' = [edit EXCEPT ![h] = e] /\ Writes(e)
      <3>1. Writes([pc |-> "update", row |-> i, ranges |-> Normalized(form), now |-> second])
        BY <1>1 DEF Writes
      <3> QED
        BY <2>2, <3>1 DEF CheckUpdate
    <2>3. ASSUME NEW h \in Editor, NEW i \in DOMAIN advisories, CheckWithdraw(h, i)
          PROVE  \E e : edit' = [edit EXCEPT ![h] = e] /\ Writes(e)
      <3>1. Writes([pc |-> "withdraw", row |-> i, now |-> second])
        BY <1>1 DEF Writes
      <3> QED
        BY <2>3, <3>1 DEF CheckWithdraw
    <2>4. ASSUME NEW h \in Editor, CreateAdvisory(h) \/ UpdateAdvisory(h) \/ WithdrawAdvisory(h) \/ EditFails(h)
          PROVE  \E e : edit' = [edit EXCEPT ![h] = e] /\ Writes(e)
      <3>1. Writes(NotEditing) /\ Writes([pc |-> "failed"])
        BY DEF Writes, NotEditing
      <3> QED
        BY <2>4, <3>1 DEF CreateAdvisory, UpdateAdvisory, WithdrawAdvisory, EditFails
    <2>5. CASE edit' = edit
      BY <2>5
    <2>6. ASSUME \/ \E mod \in Hosted : Review(mod)
                 \/ PublicChanges \/ ToolStep \/ SecondPasses \/ UNCHANGED advisoryVars
          PROVE  edit' = edit
      BY <2>6 DEF Review, PublicChanges, ToolStep, RefreshCopy, FetchAdvisory, SecondPasses, advisoryVars
    <2> QED
      BY <2>1, <2>2, <2>3, <2>4, <2>5, <2>6 DEF AdvisoriesNext, AdvisoriesStep, Creating, Changing
  <1> QED
    BY <1>1, <1>2

\* The rest of what is kept stays of its type.
LEMMA OthersStay ==
  ASSUME AdvisoryTypes, [AdvisoriesNext]_advisoryVars
  PROVE  /\ second' \in Second /\ underReview' \subseteq Hosted /\ public' \in Second
         /\ tool'.reports \subseteq AdvisoryRow /\ DOMAIN tool' = {"indexes", "reports"}
         /\ changes' \in 0..MaxChanges /\ quiet' \in BOOLEAN
  <1>0. /\ second \in Second /\ underReview \subseteq Hosted /\ public \in Second
        /\ tool.reports \subseteq AdvisoryRow /\ DOMAIN tool = {"indexes", "reports"}
        /\ changes \in 0..MaxChanges /\ quiet \in BOOLEAN
        /\ MaxSecond \in Nat /\ MaxChanges \in Nat
    BY AdvisoryConstants DEF AdvisoryTypes, AdvisoriesTypeOK
  <1>1. quiet' \in BOOLEAN
    BY <1>0 DEF AdvisoriesNext, advisoryVars
  <1>2. ASSUME AdvisoriesStep \/ UNCHANGED advisoryVars
        PROVE  /\ second' \in Second /\ underReview' \subseteq Hosted /\ public' \in Second
               /\ tool'.reports \subseteq AdvisoryRow /\ DOMAIN tool' = {"indexes", "reports"}
               /\ changes' \in 0..MaxChanges
    <2>1. CASE UNCHANGED advisoryVars
      BY <1>0, <2>1 DEF advisoryVars
    <2>2. CASE \E h \in Editor : Creating(h, Form) \/ Changing(h, Form) \/ EditFails(h)
      <3>1. UNCHANGED <<second, underReview, public, tool>>
        BY <2>2 DEF Creating, Changing, EditFails, CreateAdvisory, CheckCreate, CheckWithdraw, CheckUpdate,
                    UpdateAdvisory, WithdrawAdvisory
      <3>2. changes' = changes \/ (changes < MaxChanges /\ changes' = changes + 1)
        BY <2>2 DEF Creating, Changing, EditFails, CreateAdvisory, CheckCreate, CheckWithdraw, CheckUpdate,
                    UpdateAdvisory, WithdrawAdvisory
      <3> QED
        BY <1>0, <3>1, <3>2
    <2>3. CASE \E mod \in Hosted : Review(mod)
      BY <1>0, <2>3 DEF Review
    <2>4. CASE PublicChanges
      BY <1>0, <2>4 DEF PublicChanges, Second
    <2>5. CASE RefreshCopy
      BY <1>0, <2>5 DEF RefreshCopy
    <2>6. CASE FetchAdvisory
      <3>1. PICK a \in Listed : tool' = [tool EXCEPT !.reports = (@ \ ReportOf(a.id)) \cup {a}]
        BY <2>6 DEF FetchAdvisory
      <3>2. a \in AdvisoryRow
        BY DEF Listed, ToSet, AdvisoryTypes, AdvisoriesTypeOK
      <3> QED
        BY <1>0, <2>6, <3>1, <3>2 DEF FetchAdvisory
    <2>7. CASE SecondPasses
      BY <1>0, <2>7 DEF SecondPasses, Second
    <2> QED
      BY <1>2, <2>1, <2>2, <2>3, <2>4, <2>5, <2>6, <2>7 DEF AdvisoriesStep, ToolStep
  <1> QED
    BY <1>1, <1>2 DEF AdvisoriesNext

\* Every step keeps the types.
LEMMA AdvisoryTypesStep == AdvisoryTypes /\ [AdvisoriesNext]_advisoryVars => AdvisoryTypes'
  <1> SUFFICES ASSUME AdvisoryTypes, [AdvisoriesNext]_advisoryVars PROVE AdvisoryTypes'
    OBVIOUS
  <1>1. EditInv'
    BY EditStep DEF AdvisoryTypes
  <1>2. \A i \in DOMAIN advisories' : advisories'[i] \in AdvisoryRow
    <2>1. ASSUME advisories' = advisories PROVE \A i \in DOMAIN advisories' : advisories'[i] \in AdvisoryRow
      BY <2>1 DEF AdvisoryTypes, AdvisoriesTypeOK
    <2>2. ASSUME \/ \E h \in Editor : EditFails(h) \/ \E mod \in Hosted, form \in Form : CheckCreate(h, mod, form)
                 \/ \E h \in Editor : \E i \in DOMAIN advisories :
                      CheckWithdraw(h, i) \/ \E form \in Form : CheckUpdate(h, i, form)
                 \/ \E mod \in Hosted : Review(mod)
                 \/ PublicChanges \/ ToolStep \/ SecondPasses \/ UNCHANGED advisoryVars
          PROVE  advisories' = advisories
      BY <2>2 DEF EditFails, CheckCreate, CheckWithdraw, CheckUpdate, Review, PublicChanges, ToolStep, RefreshCopy,
                  FetchAdvisory, SecondPasses, advisoryVars
    <2> QED
      BY <2>1, <2>2, CreateTypes, UpdateTypes DEF AdvisoriesNext, AdvisoriesStep, Creating, Changing
  <1>3. \A h \in Editor : Writes(edit'[h])
    BY WritesStay
  <1>4. /\ second' \in Second /\ underReview' \subseteq Hosted /\ public' \in Second
        /\ tool'.reports \subseteq AdvisoryRow /\ DOMAIN tool' = {"indexes", "reports"}
        /\ changes' \in 0..MaxChanges /\ quiet' \in BOOLEAN
    BY OthersStay
  <1> QED
    BY <1>1, <1>2, <1>3, <1>4 DEF AdvisoryTypes, AdvisoriesTypeOK

\* They hold at first.
LEMMA AdvisoryTypesInit == AdvisoriesInit => AdvisoryTypes
  <1> SUFFICES ASSUME AdvisoriesInit PROVE AdvisoryTypes
    OBVIOUS
  <1>1. EditInv
    BY EditInit
  <1>2. \A h \in Editor : Writes(edit[h])
    BY DEF AdvisoriesInit, Writes, NotEditing
  <1> QED
    BY <1>1, <1>2, AdvisoryConstants DEF AdvisoryTypes, AdvisoriesInit, AdvisoriesTypeOK, Second

-----------------------------------------------------------------------------
(* A tool that follows the database.                                       *)

\* No two rows have one id.
Distinct(kept) == \A i, j \in DOMAIN kept : kept[i].id = kept[j].id => i = j
\* A handler that has read the clock writes in the second it read, is alone,
\* and is the first to write in it.
WritesFirst(h) ==
  edit[h] # NotEditing =>
    /\ edit[h].now = second
    /\ \A g \in Editor \ {h} : edit[g] = NotEditing
    /\ \A i \in DOMAIN advisories : advisories[i].modified < second
\* A report is the row with its id, or one that was changed since.
StillKnown(r) == \E i \in DOMAIN advisories :
  advisories[i].id = r.id /\ (r = advisories[i] \/ r.modified < advisories[i].modified)

\* The inductive invariant of a tool that keeps up.
ToolInv ==
  /\ EditInv
  /\ Distinct(advisories)
  /\ underReview = {} /\ public = 0
  /\ \A i \in DOMAIN advisories : advisories[i].modified <= second
  /\ \A h \in Editor : WritesFirst(h)
  /\ tool = [indexes |-> tool.indexes, reports |-> tool.reports]
  /\ tool.indexes.modified \in Nat /\ tool.reports \subseteq Row
  /\ tool.indexes = Indexes \/ tool.indexes.modified < Indexes.modified
  /\ \A r \in tool.reports : StillKnown(r)

\* The time of the newest row, 0 when there are none.
Times(kept) == {kept[i].modified : i \in DOMAIN kept} \cup {0}

\* One of the times is the newest.
LEMMA NewestTime ==
  ASSUME NEW kept \in Seq(Row)
  PROVE  /\ Max(Times(kept)) \in Times(kept) /\ Max(Times(kept)) \in Nat
         /\ \A i \in DOMAIN kept : kept[i].modified <= Max(Times(kept))
  <1>1. DOMAIN kept = 1..Len(kept) /\ Len(kept) \in Nat /\ \A i \in DOMAIN kept : kept[i] \in Row
    OBVIOUS
  <1>2. \A i \in DOMAIN kept : kept[i].modified \in Nat
    BY <1>1 DEF Row
  <1>3. Times(kept) \in SUBSET Nat /\ Times(kept) # {}
    BY <1>2 DEF Times
  <1>4. IsFiniteSet(DOMAIN kept)
    BY <1>1, FS_Interval
  <1>5. IsFiniteSet({kept[i].modified : i \in DOMAIN kept})
    <2> DEFINE image == {kept[i].modified : i \in DOMAIN kept}
               f == [i \in DOMAIN kept |-> kept[i].modified]
    <2>1. f \in Surjection(DOMAIN kept, image)
      BY DEF Surjection
    <2> HIDE DEF f
    <2> QED
      BY <1>4, <2>1, FS_Surjection
  <1>6. IsFiniteSet(Times(kept))
    BY <1>5, FS_AddElement DEF Times
  <1>7. \A i \in DOMAIN kept : kept[i].modified \in Times(kept)
    BY DEF Times
  <1> QED
    BY <1>3, <1>6, <1>7, MaxIs

\* With nothing under review every row is listed.
LEMMA AllListed ==
  ASSUME underReview = {}, public = 0
  PROVE  /\ Listed = {advisories[i] : i \in DOMAIN advisories}
         /\ Indexes.modified = Max(Times(advisories))
         /\ Indexes.vulns = {[id |-> a.id, modified |-> a.modified] : a \in Listed}
         /\ Indexes.public = 0
  <1>1. Listed = {advisories[i] : i \in DOMAIN advisories}
    BY DEF Listed, ToSet
  <1>2. {a.modified : a \in Listed} \cup {public} = Times(advisories)
    BY <1>1 DEF Times
  <1> QED
    BY <1>1, <1>2 DEF Indexes

\* The same after a step.
LEMMA AllListedNext ==
  ASSUME underReview' = {}, public' = 0
  PROVE  Indexes'.modified = Max(Times(advisories'))
  <1>1. Listed' = {advisories'[i] : i \in DOMAIN advisories'}
    BY DEF Listed, ToSet
  <1>2. {a.modified : a \in Listed'} \cup {public'} = Times(advisories')
    BY <1>1 DEF Times
  <1> QED
    BY <1>1, <1>2 DEF Indexes

\* The rows after a handler wrote row i at time now.
WrittenAt(kept, new, i, now) ==
  /\ DOMAIN new = DOMAIN kept \cup {i}
  /\ \A j \in DOMAIN kept \ {i} : new[j] = kept[j]
  /\ \A j \in DOMAIN kept : kept[j].id = new[i].id <=> j = i
  /\ new[i].modified = now

\* A handler that writes makes the database newer than any copy, and the row
\* newer than any report of it.
LEMMA WrittenKeeps ==
  ASSUME ToolInv, EditInv', NEW h \in Editor, edit[h] # NotEditing, edit' = [edit EXCEPT ![h] = NotEditing],
         UNCHANGED <<second, underReview, public, tool>>,
         NEW i, WrittenAt(advisories, advisories', i, second)
  PROVE  ToolInv'
  <1> PICK kept, new, now : kept = advisories /\ new = advisories' /\ now = second
    OBVIOUS
  <1>1. /\ kept \in Seq(Row) /\ new \in Seq(Row) /\ now \in Nat \ {0} /\ DOMAIN edit = Editor
        /\ WrittenAt(kept, new, i, now)
    BY DEF ToolInv, EditInv
  <1>2. \A j \in DOMAIN kept : kept[j].modified < now /\ kept[j].modified \in Nat
    <2>1. \A j \in DOMAIN kept : kept[j] \in Row
      BY <1>1
    <2>2. \A j \in DOMAIN kept : kept[j].modified \in Nat
      BY <2>1 DEF Row
    <2>3. WritesFirst(h)
      BY DEF ToolInv
    <2> QED
      BY <2>2, <2>3 DEF WritesFirst
  <1>3. Distinct(new)
    BY <1>1 DEF ToolInv, Distinct, WrittenAt
  <1>4. \A j \in DOMAIN new : new[j].modified <= now
    BY <1>1, <1>2 DEF WrittenAt
  <1>5. \A g \in Editor : edit'[g] = NotEditing
    BY <1>1 DEF ToolInv, WritesFirst
  <1>6. tool.indexes.modified < Indexes'.modified
    <2>1. Indexes.modified = Max(Times(kept)) /\ Indexes'.modified = Max(Times(new))
      BY AllListed, AllListedNext DEF ToolInv
    <2>2. Max(Times(kept)) \in Nat /\ Max(Times(kept)) < now
      <3>1. Max(Times(kept)) \in Times(kept) /\ Max(Times(kept)) \in Nat
        BY <1>1, NewestTime
      <3>2. \A x \in Times(kept) : x < now
        BY <1>1, <1>2 DEF Times
      <3> QED
        BY <3>1, <3>2
    <2>3. Max(Times(new)) \in Nat /\ now <= Max(Times(new))
      <3>1. i \in DOMAIN new /\ new[i].modified = now
        BY <1>1 DEF WrittenAt
      <3> QED
        BY <1>1, <3>1, NewestTime
    <2>4. tool.indexes.modified = Indexes.modified \/ tool.indexes.modified < Indexes.modified
      BY DEF ToolInv
    <2> PICK t, a, b : t = tool.indexes.modified /\ a = Max(Times(kept)) /\ b = Max(Times(new))
      OBVIOUS
    <2>5. t \in Nat
      BY DEF ToolInv
    <2>6. (t = a \/ t < a) /\ a \in Nat /\ a < now /\ b \in Nat /\ now <= b
      BY <2>1, <2>2, <2>3, <2>4
    <2>7. t < b
      BY <1>1, <2>5, <2>6
    <2> QED
      BY <2>1, <2>7
  <1>7. \A r \in tool.reports : StillKnown(r)'
    <2> SUFFICES ASSUME NEW r \in tool.reports PROVE StillKnown(r)'
      OBVIOUS
    <2>1. PICK j \in DOMAIN kept : kept[j].id = r.id /\ (r = kept[j] \/ r.modified < kept[j].modified)
      BY DEF ToolInv, StillKnown
    <2>2. CASE j = i
      <3>1. new[j].id = r.id /\ new[j].modified = now /\ j \in DOMAIN new
        BY <1>1, <2>1, <2>2 DEF WrittenAt
      <3>2. r.modified < now
        <4>1. kept[j].modified < now /\ kept[j].modified \in Nat
          BY <1>2
        <4>2. r.modified = kept[j].modified \/ r.modified < kept[j].modified
          BY <2>1
        <4>3. r.modified \in Nat
          BY DEF ToolInv, Row
        <4> QED
          BY <1>1, <4>1, <4>2, <4>3
      <3> QED
        BY <3>1, <3>2 DEF StillKnown
    <2>3. CASE j # i
      <3>1. new[j] = kept[j] /\ j \in DOMAIN new
        BY <1>1, <2>3 DEF WrittenAt
      <3> QED
        BY <2>1, <3>1 DEF StillKnown
    <2> QED
      BY <2>2, <2>3
  <1> QED
    BY <1>3, <1>4, <1>5, <1>6, <1>7 DEF ToolInv, WritesFirst

\* A handler creates an advisory, or writes one it has checked.
LEMMA WriteIsWritten ==
  ASSUME ToolInv, EditInv', NEW h \in Editor,
         CreateAdvisory(h) \/ UpdateAdvisory(h) \/ WithdrawAdvisory(h)
  PROVE  /\ edit[h] # NotEditing /\ edit' = [edit EXCEPT ![h] = NotEditing]
         /\ UNCHANGED <<second, underReview, public, tool>>
         /\ \E i : WrittenAt(advisories, advisories', i, second)
  <1> PICK now : now = edit[h].now
    OBVIOUS
  <1>1. edit[h].pc # "idle" /\ edit[h] # NotEditing /\ DOMAIN edit = Editor /\ advisories \in Seq(Row)
    BY DEF CreateAdvisory, UpdateAdvisory, WithdrawAdvisory, NotEditing, ToolInv, EditInv
  <1>2. now = second
    BY <1>1 DEF ToolInv, WritesFirst
  <1>3. CASE CreateAdvisory(h)
    <2> PICK e : e = edit[h]
      OBVIOUS
    <2> PICK id : id = NextId(e.now \div YearLength, e.mod)
      OBVIOUS
    <2> PICK row : row = [id |-> id, mod |-> e.mod, ranges |-> e.ranges, modified |-> e.now, withdrawn |-> 0]
      OBVIOUS
    <2>1. edit'[h].pc # "failed"
      BY DEF EditInv, EditsNow
    <2>2. ~ \E a \in AllRows : a.id = id
      <3> SUFFICES ASSUME \E a \in AllRows : a.id = id PROVE FALSE
        OBVIOUS
      <3>1. edit' = [edit EXCEPT ![h] = [pc |-> "failed"]]
        BY <1>3 DEF CreateAdvisory
      <3> QED
        BY <1>1, <2>1, <3>1
    <2>3. advisories' = Append(advisories, row) /\ edit' = [edit EXCEPT ![h] = NotEditing]
          /\ UNCHANGED <<second, underReview, public, tool>>
      BY <1>3, <2>2 DEF CreateAdvisory
    <2> PICK n, kept, new : n = Len(advisories) /\ kept = advisories /\ new = advisories'
      OBVIOUS
    <2>4. /\ DOMAIN new = DOMAIN kept \cup {n + 1} /\ n + 1 \notin DOMAIN kept /\ new[n + 1] = row
          /\ \A j \in DOMAIN kept : new[j] = kept[j]
      BY <1>1, <2>3
    <2>5. \A j \in DOMAIN kept : kept[j].id # id
      BY <2>2 DEF AllRows, ToSet
    <2>6. row.id = id /\ row.modified = second
      BY <1>2
    <2>7. WrittenAt(kept, new, n + 1, second)
      BY <2>4, <2>5, <2>6 DEF WrittenAt
    <2> QED
      BY <1>1, <2>3, <2>7
  <1>4. CASE UpdateAdvisory(h) \/ WithdrawAdvisory(h)
    <2> PICK i : i = edit[h].row
      OBVIOUS
    <2>1. i \in DOMAIN advisories
      BY <1>4 DEF ToolInv, EditInv, EditsNow, UpdateAdvisory, WithdrawAdvisory
    <2>2. PICK row : row.id = advisories[i].id /\ row.modified = now /\ advisories' = [advisories EXCEPT ![i] = row]
      <3>1. advisories[i] \in Row
        BY <1>1, <2>1
      <3>2. CASE UpdateAdvisory(h)
        <4> PICK row : row = [advisories[i] EXCEPT !.ranges = edit[h].ranges, !.modified = now]
          OBVIOUS
        <4>1. row.id = advisories[i].id /\ row.modified = now
          BY <3>1 DEF Row
        <4>2. advisories' = [advisories EXCEPT ![i] = row]
          BY <3>2 DEF UpdateAdvisory
        <4> QED
          BY <4>1, <4>2
      <3>3. CASE WithdrawAdvisory(h)
        <4> PICK row : row = [advisories[i] EXCEPT !.withdrawn = now, !.modified = now]
          OBVIOUS
        <4>1. row.id = advisories[i].id /\ row.modified = now
          BY <3>1 DEF Row
        <4>2. advisories' = [advisories EXCEPT ![i] = row]
          BY <3>3 DEF WithdrawAdvisory
        <4> QED
          BY <4>1, <4>2
      <3> QED
        BY <1>4, <3>2, <3>3
    <2>3. DOMAIN advisories' = DOMAIN advisories /\ advisories'[i] = row
          /\ \A j \in DOMAIN advisories \ {i} : advisories'[j] = advisories[j]
      BY <1>1, <2>1, <2>2
    <2>4. \A j \in DOMAIN advisories : advisories[j].id = advisories[i].id => j = i
      BY <2>1 DEF ToolInv, Distinct
    <2>5. WrittenAt(advisories, advisories', i, second)
      BY <1>2, <2>1, <2>2, <2>3, <2>4 DEF WrittenAt
    <2>6. edit' = [edit EXCEPT ![h] = NotEditing] /\ UNCHANGED <<second, underReview, public, tool>>
      BY <1>4 DEF UpdateAdvisory, WithdrawAdvisory
    <2> QED
      BY <1>1, <2>5, <2>6
  <1> QED
    BY <1>3, <1>4

\* What does not write the rows leaves what is said of them and of the tool.
LEMMA RowsStay ==
  ASSUME ToolInv, EditInv', UNCHANGED <<advisories, underReview, public>>, second' >= second,
         \A h \in Editor : WritesFirst(h)',
         tool' = [indexes |-> tool'.indexes, reports |-> tool'.reports],
         tool'.indexes = Indexes \/ tool'.indexes = tool.indexes, tool'.reports \subseteq Row,
         \A r \in tool'.reports : StillKnown(r)
  PROVE  ToolInv'
  <1>1. Indexes' = Indexes
    BY DEF Indexes, Listed
  <1>2. \A r \in tool'.reports : StillKnown(r)'
    BY DEF StillKnown
  <1>3. \A i \in DOMAIN advisories : advisories[i].modified <= second'
    <2> SUFFICES ASSUME NEW i \in DOMAIN advisories PROVE advisories[i].modified <= second'
      OBVIOUS
    <2>1. advisories[i] \in Row /\ second \in Nat /\ second' \in Nat
      BY DEF EditInv, ToolInv
    <2>2. advisories[i].modified \in Nat
      BY <2>1 DEF Row
    <2> QED
      BY <2>1, <2>2 DEF ToolInv
  <1>4. tool'.indexes = Indexes' \/ tool'.indexes.modified < Indexes'.modified
    BY <1>1 DEF ToolInv
  <1>5. Indexes.modified \in Nat
    BY AllListed, NewestTime DEF ToolInv, EditInv
  <1>6. tool'.indexes.modified \in Nat
    BY <1>5 DEF ToolInv
  <1> QED
    BY <1>2, <1>3, <1>4, <1>6 DEF ToolInv

\* While nothing is written, it is enough that the handlers at work still
\* write first.
LEMMA NothingIsWritten ==
  ASSUME ToolInv, EditInv', UNCHANGED <<advisories, underReview, public, tool>>, second' \in {second, second + 1},
         \A h \in Editor : WritesFirst(h)'
  PROVE  ToolInv'
  <1>1. second \in Nat
    BY DEF ToolInv, EditInv
  <1>2. \A r \in tool'.reports : StillKnown(r)
    BY DEF ToolInv
  <1>3. second' >= second /\ tool'.reports \subseteq Row
        /\ tool' = [indexes |-> tool'.indexes, reports |-> tool'.reports]
    BY <1>1 DEF ToolInv
  <1> QED
    BY <1>2, <1>3, RowsStay

\* A handler that checks is the only one at work, in a second nobody wrote in.
LEMMA CheckWritesFirst ==
  ASSUME ToolInv, EditInv', NEW h \in Editor,
         \/ \E mod \in Hosted, form \in Form : CheckCreate(h, mod, form)
         \/ \E i \in DOMAIN advisories, form \in Form : CheckUpdate(h, i, form)
         \/ \E i \in DOMAIN advisories : CheckWithdraw(h, i),
         edit' # edit /\ advisories' = advisories => \A a \in AllRows : a.modified < second,
         \A g, k \in Editor : g = k \/ edit'[g] = NotEditing \/ edit'[k] = NotEditing
  PROVE  ToolInv'
  <1>1. PICK e : e # NotEditing /\ e.now = second /\ edit' = [edit EXCEPT ![h] = e]
                 /\ UNCHANGED <<second, advisories, underReview, public, tool>>
    <2>1. ASSUME NEW mod \in Hosted, NEW form \in Form, CheckCreate(h, mod, form)
          PROVE  \E e : e # NotEditing /\ e.now = second /\ edit' = [edit EXCEPT ![h] = e]
                        /\ UNCHANGED <<second, advisories, underReview, public, tool>>
      <3> PICK e : e = [pc |-> "create", mod |-> mod, ranges |-> Normalized(form), now |-> second]
        OBVIOUS
      <3>1. e.pc = "create" /\ e.now = second
        OBVIOUS
      <3> QED
        BY <2>1, <3>1 DEF CheckCreate, NotEditing
    <2>2. ASSUME NEW i \in DOMAIN advisories, NEW form \in Form, CheckUpdate(h, i, form)
          PROVE  \E e : e # NotEditing /\ e.now = second /\ edit' = [edit EXCEPT ![h] = e]
                        /\ UNCHANGED <<second, advisories, underReview, public, tool>>
      <3> PICK e : e = [pc |-> "update", row |-> i, ranges |-> Normalized(form), now |-> second]
        OBVIOUS
      <3>1. e.pc = "update" /\ e.now = second
        OBVIOUS
      <3> QED
        BY <2>2, <3>1 DEF CheckUpdate, NotEditing
    <2>3. ASSUME NEW i \in DOMAIN advisories, CheckWithdraw(h, i)
          PROVE  \E e : e # NotEditing /\ e.now = second /\ edit' = [edit EXCEPT ![h] = e]
                        /\ UNCHANGED <<second, advisories, underReview, public, tool>>
      <3> PICK e : e = [pc |-> "withdraw", row |-> i, now |-> second]
        OBVIOUS
      <3>1. e.pc = "withdraw" /\ e.now = second
        OBVIOUS
      <3> QED
        BY <2>3, <3>1 DEF CheckWithdraw, NotEditing
    <2> QED
      BY <2>1, <2>2, <2>3
  <1>2. \A g \in Editor : edit'[g] = IF g = h THEN e ELSE edit[g]
    BY <1>1 DEF ToolInv, EditInv
  <1>3. \A g \in Editor \ {h} : edit'[g] = NotEditing
    BY <1>1, <1>2
  <1>4. \A i \in DOMAIN advisories : advisories[i].modified < second
    <2>1. CASE edit' # edit
      BY <1>1, <2>1 DEF AllRows, ToSet
    <2>2. CASE edit' = edit
      <3>1. edit[h] = e
        BY <1>2, <2>2
      <3> QED
        BY <1>1, <3>1 DEF ToolInv, WritesFirst
    <2> QED
      BY <2>1, <2>2
  <1>5. \A g \in Editor : WritesFirst(g)'
    BY <1>1, <1>2, <1>3, <1>4 DEF WritesFirst
  <1>6. second' = second /\ second \in Nat /\ tool' = tool
    BY <1>1 DEF ToolInv, EditInv
  <1> QED
    BY <1>1, <1>5, <1>6, RowsStay DEF ToolInv

\* The tool fetches what the database serves.
LEMMA ToolKeeps == ToolInv /\ EditInv' /\ ToolStep => ToolInv'
  <1> SUFFICES ASSUME ToolInv, EditInv', ToolStep PROVE ToolInv'
    OBVIOUS
  <1>1. UNCHANGED <<second, advisories, underReview, public, edit>> /\ second \in Nat
    BY DEF ToolStep, RefreshCopy, FetchAdvisory, ToolInv, EditInv
  <1>2. \A h \in Editor : WritesFirst(h)'
    BY <1>1 DEF ToolInv, WritesFirst
  <1>3. /\ tool' = [indexes |-> tool'.indexes, reports |-> tool'.reports]
        /\ tool'.indexes = Indexes \/ tool'.indexes = tool.indexes
        /\ \A r \in tool'.reports : r \in tool.reports \/ r \in Listed
    <2> PICK was : was = tool.indexes /\ tool = [indexes |-> was, reports |-> tool.reports]
      BY DEF ToolInv
    <2>1. CASE RefreshCopy
      BY <2>1 DEF RefreshCopy
    <2>2. CASE FetchAdvisory
      <3>1. PICK a \in Listed : tool' = [tool EXCEPT !.reports = (@ \ ReportOf(a.id)) \cup {a}]
        BY <2>2 DEF FetchAdvisory
      <3> QED
        BY <3>1
    <2> QED
      BY <2>1, <2>2 DEF ToolStep
  <1>4. \A r \in tool'.reports : StillKnown(r)
    BY <1>3, AllListed DEF ToolInv, StillKnown
  <1>5. Listed \subseteq Row
    BY AllListed DEF ToolInv, EditInv
  <1>6. tool'.reports \subseteq Row
    BY <1>3, <1>5 DEF ToolInv
  <1> QED
    BY <1>1, <1>2, <1>3, <1>4, <1>6, RowsStay

\* One change in a second keeps the invariant.
LEMMA ToolStepKeeps == ToolInv /\ AdvisoriesNext /\ OneChangePerSecond => ToolInv'
  <1> SUFFICES ASSUME ToolInv, AdvisoriesNext, OneChangePerSecond PROVE ToolInv'
    OBVIOUS
  <1>0. AdvisoriesStep
    BY DEF AdvisoriesNext
  <1>1. EditInv'
    BY EditStep DEF ToolInv
  <1>2. /\ UNCHANGED <<underReview, public>>
        /\ edit' # edit /\ advisories' = advisories => \A a \in AllRows : a.modified < second
        /\ \A g, h \in Editor : g = h \/ edit'[g] = NotEditing \/ edit'[h] = NotEditing
        /\ second' # second => \A h \in Editor : edit[h] = NotEditing
    BY DEF OneChangePerSecond
  <1>3. ASSUME NEW h \in Editor, CreateAdvisory(h) \/ UpdateAdvisory(h) \/ WithdrawAdvisory(h)
        PROVE  ToolInv'
    <2>1. /\ edit[h] # NotEditing /\ edit' = [edit EXCEPT ![h] = NotEditing]
          /\ UNCHANGED <<second, underReview, public, tool>>
          /\ \E i : WrittenAt(advisories, advisories', i, second)
      BY <1>1, <1>3, WriteIsWritten
    <2>2. PICK i : WrittenAt(advisories, advisories', i, second)
      BY <2>1
    <2> QED
      BY <1>1, <2>1, <2>2, WrittenKeeps
  <1>4. ASSUME NEW h \in Editor,
               \/ \E mod \in Hosted, form \in Form : CheckCreate(h, mod, form)
               \/ \E i \in DOMAIN advisories, form \in Form : CheckUpdate(h, i, form)
               \/ \E i \in DOMAIN advisories : CheckWithdraw(h, i)
        PROVE  ToolInv'
    BY <1>1, <1>2, <1>4, CheckWritesFirst
  <1>5. CASE ToolStep
    BY <1>1, <1>5, ToolKeeps
  <1>6. CASE SecondPasses
    <2>1. UNCHANGED <<advisories, edit, tool>> /\ second' = second + 1 /\ second \in Nat
      BY <1>6 DEF SecondPasses, ToolInv, EditInv
    <2>2. \A h \in Editor : edit[h] = NotEditing
      BY <1>2, <2>1
    <2> QED
      BY <1>2, <2>1, <2>2, NothingIsWritten, <1>1 DEF WritesFirst
  <1>7. ASSUME NEW h \in Editor, EditFails(h) PROVE ToolInv'
    <2>1. UNCHANGED <<advisories, tool, second>> /\ second \in Nat /\ edit' = [edit EXCEPT ![h] = NotEditing]
      BY <1>7 DEF EditFails, ToolInv, EditInv
    <2>2. \A g \in Editor : edit'[g] = NotEditing \/ edit'[g] = edit[g]
      BY <2>1 DEF ToolInv, EditInv
    <2>3. ASSUME NEW g \in Editor PROVE WritesFirst(g)'
      BY <2>1, <2>2 DEF WritesFirst, ToolInv
    <2> QED
      BY <1>1, <1>2, <2>1, <2>3, NothingIsWritten
  <1>8. ASSUME NEW mod \in Hosted, Review(mod) PROVE ToolInv'
    BY <1>2, <1>8 DEF Review
  <1>9. CASE PublicChanges
    <2>1. PICK modified \in public + 1..second : public' = modified
      BY <1>9 DEF PublicChanges
    <2>2. public = 0 /\ second \in Nat
      BY DEF ToolInv, EditInv
    <2> QED
      BY <1>2, <2>1, <2>2
  <1> QED
    BY <1>0, <1>3, <1>4, <1>5, <1>6, <1>7, <1>8, <1>9 DEF AdvisoriesStep, Creating, Changing

\* It holds at first.
LEMMA ToolInit == AdvisoriesInit => ToolInv
  <1> SUFFICES ASSUME AdvisoriesInit PROVE ToolInv
    OBVIOUS
  <1>1. EditInv
    BY EditInit
  <1>2. /\ advisories = <<>> /\ underReview = {} /\ public = 0 /\ edit = [h \in Editor |-> NotEditing]
        /\ tool = [indexes |-> [modified |-> 0, vulns |-> {}, public |-> 0], reports |-> {}]
    BY DEF AdvisoriesInit
  <1>3. DOMAIN advisories = {}
    BY <1>2
  <1>4. Indexes = [modified |-> 0, vulns |-> {}, public |-> 0]
    <2>1. Listed = {}
      BY <1>2, <1>3, AllListed
    <2>2. Times(advisories) = {0}
      BY <1>3 DEF Times
    <2>3. Max({0}) = 0
      BY DEF Max
    <2> QED
      BY <1>2, <2>1, <2>3 DEF Indexes
  <1> QED
    BY <1>1, <1>2, <1>3, <1>4 DEF ToolInv, Distinct, WritesFirst

\* A tool that has done what db.json told it to has the indexes, and the
\* reports it need not fetch again are those that are served.
LEMMA ToolInvIsCurrent == ToolInv => ToolIsCurrent
  <1> SUFFICES ASSUME ToolInv, tool.indexes.modified = Indexes.modified
               PROVE  /\ tool.indexes = Indexes
                      /\ \A entry \in tool.indexes.vulns, a \in tool.reports :
                           a.id = entry.id /\ a.modified >= entry.modified => a \in Listed
    BY DEF ToolIsCurrent
  <1>1. tool.indexes = Indexes
    BY DEF ToolInv
  <1>2. ASSUME NEW entry \in tool.indexes.vulns, NEW a \in tool.reports, a.id = entry.id, a.modified >= entry.modified
        PROVE  a \in Listed
    <2>1. PICK j \in DOMAIN advisories : entry = [id |-> advisories[j].id, modified |-> advisories[j].modified]
      BY <1>1, AllListed DEF ToolInv
    <2>2. PICK i \in DOMAIN advisories : advisories[i].id = a.id /\ (a = advisories[i] \/ a.modified < advisories[i].modified)
      BY DEF ToolInv, StillKnown
    <2>3. i = j
      BY <1>2, <2>1, <2>2 DEF ToolInv, Distinct
    <2>4. a.modified \in Nat /\ advisories[i].modified \in Nat
      <3>1. a \in Row /\ advisories[i] \in Row
        BY DEF ToolInv, EditInv
      <3> QED
        BY <3>1 DEF Row
    <2>5. ~(a.modified < advisories[i].modified)
      BY <1>2, <2>1, <2>3, <2>4
    <2> QED
      BY <2>2, <2>5, AllListed DEF ToolInv
  <1> QED
    BY <1>1, <1>2

-----------------------------------------------------------------------------
(* What a report says.                                                     *)

\* What one event, the last one at first, makes of a version.
StepAt(seq, v, it, s) ==
  IF s = {} THEN FALSE
  ELSE IF v >= seq[Max(s)].version THEN seq[Max(s)].kind = "introduced" ELSE it[s \ {Max(s)}]
Unfolded(seq, v) == CHOOSE it : it = [s \in SUBSET DOMAIN seq |-> StepAt(seq, v, it, s)]

\* Whether a version is affected is computed by that iteration.
LEMMA InRangeUnfolds ==
  ASSUME NEW events, NEW v
  PROVE  InRange(events, v) = Unfolded(SortedEvents(events), v)[DOMAIN SortedEvents(events)]
  BY DEF InRange, FoldLeft, MapThenFoldSet, Unfolded, StepAt

Unfolds(seq, v) == Unfolded(seq, v) = [s \in SUBSET DOMAIN seq |-> StepAt(seq, v, Unfolded(seq, v), s)]
\* The recursion can be unfolded for one or two events.
LEMMA UnfoldsTwice ==
  ASSUME NEW seq, NEW v, DOMAIN seq = 1..1 \/ DOMAIN seq = 1..2
  PROVE  Unfolds(seq, v)
  <1> DEFINE Reached(i) == v >= seq[i].version
             Begins(i) == seq[i].kind = "introduced"
             First(s) == IF 1 \in s THEN (IF Reached(1) THEN Begins(1) ELSE FALSE) ELSE FALSE
             it == [s \in SUBSET DOMAIN seq |->
                      IF 2 \in s THEN (IF Reached(2) THEN Begins(2) ELSE First(s)) ELSE First(s)]
  <1>0. SUBSET DOMAIN seq \subseteq {{}, {1}, {2}, {1, 2}}
    <2>1. 1..1 = {1} /\ 1..2 = {1, 2}
      OBVIOUS
    <2>2. \A s \in SUBSET {1, 2} : s \in {{}, {1}, {2}, {1, 2}}
      <3> TAKE s \in SUBSET {1, 2}
      <3>1. CASE 1 \in s
        <4>1. CASE 2 \in s
          <5>1. s = {1, 2}
            BY <3>1, <4>1
          <5> QED
            BY <5>1
        <4>2. CASE 2 \notin s
          <5>1. s = {1}
            BY <3>1, <4>2
          <5> QED
            BY <5>1
        <4> QED
          BY <4>1, <4>2
      <3>2. CASE 1 \notin s
        <4>1. CASE 2 \in s
          <5>1. s = {2}
            BY <3>2, <4>1
          <5> QED
            BY <5>1
        <4>2. CASE 2 \notin s
          <5>1. s = {}
            BY <3>2, <4>2
          <5> QED
            BY <5>1
        <4> QED
          BY <4>1, <4>2
      <3> QED
        BY <3>1, <3>2
    <2> QED
      BY <2>1, <2>2
  <1>1. Max({1}) = 1 /\ Max({2}) = 2 /\ Max({1, 2}) = 2
    <2>1. Max({1}) = 1
      BY DEF Max
    <2>2. Max({2}) = 2
      BY DEF Max
    <2>3. Max({1, 2}) = 2
      <3>1. IsFiniteSet({1, 2})
        BY FS_EmptySet, FS_AddElement, FS_Singleton
      <3>2. Max({1, 2}) \in {1, 2} /\ \A x \in {1, 2} : x <= Max({1, 2})
        BY <3>1, MaxIs
      <3> QED
        BY <3>2
    <2> QED
      BY <2>1, <2>2, <2>3
  <1>2. \A s \in SUBSET DOMAIN seq : it[s] = StepAt(seq, v, it, s)
    <2> TAKE s \in SUBSET DOMAIN seq
    <2>0. \A t \in SUBSET DOMAIN seq : it[t] = IF 2 \in t THEN (IF Reached(2) THEN Begins(2) ELSE First(t)) ELSE First(t)
      OBVIOUS
    <2> HIDE DEF it
    <2>1. CASE s = {}
      BY <2>0, <2>1 DEF StepAt
    <2>2. CASE s = {1}
      <3>1. {1} \ {1} = {} /\ {} \in SUBSET DOMAIN seq /\ it[{}] = FALSE
        BY <2>0
      <3>2. it[s] = IF Reached(1) THEN Begins(1) ELSE FALSE
        BY <2>0, <2>2
      <3> QED
        BY <1>1, <2>2, <3>1, <3>2 DEF StepAt
    <2>3. CASE s = {2}
      <3>1. {2} \ {2} = {} /\ {} \in SUBSET DOMAIN seq /\ it[{}] = FALSE
        BY <2>0
      <3>2. it[s] = IF Reached(2) THEN Begins(2) ELSE FALSE
        BY <2>0, <2>3
      <3> QED
        BY <1>1, <2>3, <3>1, <3>2 DEF StepAt
    <2>4. CASE s = {1, 2}
      <3>1. {1, 2} \ {2} = {1} /\ {1} \in SUBSET DOMAIN seq
        BY <2>4
      <3>2. it[{1}] = First({1})
        BY <2>0, <3>1
      <3>3. it[s] = IF Reached(2) THEN Begins(2) ELSE First({1})
        BY <2>0, <2>4
      <3> QED
        BY <1>1, <2>4, <3>1, <3>2, <3>3 DEF StepAt
    <2> QED
      BY <1>0, <2>1, <2>2, <2>3, <2>4
  <1>3. it = [s \in SUBSET DOMAIN seq |-> StepAt(seq, v, it, s)]
    BY <1>2
  <1> HIDE DEF it
  <1>4. \E g : g = [s \in SUBSET DOMAIN seq |-> StepAt(seq, v, g, s)]
    BY <1>3
  <1> QED
    BY <1>4 DEF Unfolded, Unfolds

\* What the last of one or two events at or below a version was.
LEMMA InRangeOfOne ==
  ASSUME NEW events, NEW v, DOMAIN SortedEvents(events) = 1..1
  PROVE  InRange(events, v) =
           IF v >= SortedEvents(events)[1].version THEN SortedEvents(events)[1].kind = "introduced" ELSE FALSE
  <1> PICK seq : seq = SortedEvents(events)
    OBVIOUS
  <1> PICK it : it = Unfolded(seq, v)
    OBVIOUS
  <1>1. it = [s \in SUBSET DOMAIN seq |-> StepAt(seq, v, it, s)] /\ DOMAIN seq = {1}
    <2>1. DOMAIN seq = 1..1 \/ DOMAIN seq = 1..2
      OBVIOUS
    <2>2. Unfolds(seq, v)
      BY <2>1, UnfoldsTwice
    <2>3. 1..1 = {1}
      OBVIOUS
    <2> QED
      BY <2>2, <2>3 DEF Unfolds
  <1>2. it[{1}] = StepAt(seq, v, it, {1}) /\ it[{}] = StepAt(seq, v, it, {})
    BY <1>1
  <1>3. Max({1}) = 1 /\ {1} \ {1} = {}
    BY DEF Max
  <1>4. it[{}] = FALSE
    BY <1>2 DEF StepAt
  <1>5. it[{1}] = IF v >= seq[1].version THEN seq[1].kind = "introduced" ELSE FALSE
    BY <1>2, <1>3, <1>4 DEF StepAt
  <1>6. InRange(events, v) = it[{1}]
    BY <1>1, InRangeUnfolds
  <1> QED
    BY <1>5, <1>6

\* The same, of two.
LEMMA InRangeOfTwo ==
  ASSUME NEW events, NEW v, DOMAIN SortedEvents(events) = 1..2
  PROVE  InRange(events, v) =
           IF v >= SortedEvents(events)[2].version THEN SortedEvents(events)[2].kind = "introduced"
           ELSE IF v >= SortedEvents(events)[1].version THEN SortedEvents(events)[1].kind = "introduced" ELSE FALSE
  <1> PICK seq : seq = SortedEvents(events)
    OBVIOUS
  <1> PICK it : it = Unfolded(seq, v)
    OBVIOUS
  <1>1. it = [s \in SUBSET DOMAIN seq |-> StepAt(seq, v, it, s)] /\ DOMAIN seq = {1, 2}
    <2>1. DOMAIN seq = 1..1 \/ DOMAIN seq = 1..2
      OBVIOUS
    <2>2. Unfolds(seq, v)
      BY <2>1, UnfoldsTwice
    <2>3. 1..2 = {1, 2}
      OBVIOUS
    <2> QED
      BY <2>2, <2>3 DEF Unfolds
  <1>2. /\ it[{1, 2}] = StepAt(seq, v, it, {1, 2}) /\ it[{1}] = StepAt(seq, v, it, {1})
        /\ it[{}] = StepAt(seq, v, it, {})
    BY <1>1
  <1>3. Max({1}) = 1 /\ {1} \ {1} = {} /\ Max({1, 2}) = 2 /\ {1, 2} \ {2} = {1}
    <2>1. Max({1}) = 1
      BY DEF Max
    <2>2. IsFiniteSet({1, 2})
      <3>1. IsFiniteSet({1}) /\ {1, 2} = {1} \cup {2}
        BY FS_Singleton
      <3> QED
        BY <3>1, FS_AddElement
    <2>3. Max({1, 2}) \in {1, 2} /\ \A x \in {1, 2} : x <= Max({1, 2})
      BY <2>2, MaxIs
    <2> QED
      BY <2>1, <2>3
  <1>4. it[{}] = FALSE
    BY <1>2 DEF StepAt
  <1>5. it[{1}] = IF v >= seq[1].version THEN seq[1].kind = "introduced" ELSE FALSE
    BY <1>2, <1>3, <1>4 DEF StepAt
  <1>6. it[{1, 2}] = IF v >= seq[2].version THEN seq[2].kind = "introduced" ELSE it[{1}]
    BY <1>2, <1>3 DEF StepAt
  <1>7. InRange(events, v) = it[{1, 2}]
    BY <1>1, InRangeUnfolds
  <1> QED
    BY <1>5, <1>6, <1>7

\* The events of a range of an acceptable form say which versions it is of.
LEMMA EventsAffect ==
  ASSUME NEW r \in [introduced : 0..TopVersion, fixed : 0..TopVersion],
         r.introduced # 0 /\ r.fixed # 0 => r.introduced < r.fixed, NEW v \in Nat \ {0}
  PROVE  InRange(EventsOf(r), v) <=> v >= r.introduced /\ (r.fixed = 0 \/ v < r.fixed)
  <1> PICK a, b : a = r.introduced /\ b = r.fixed
    OBVIOUS
  <1>0. a \in Nat /\ b \in Nat /\ (a # 0 /\ b # 0 => a < b)
    BY AdvisoryConstants
  <1> PICK e, f : e = [version |-> a, kind |-> "introduced"] /\ f = [version |-> b, kind |-> "fixed"]
    OBVIOUS
  <1> PICK events : events = EventsOf(r)
    OBVIOUS
  <1> PICK seq : seq = SortedEvents(events)
    OBVIOUS
  <1> DEFINE order == {ab \in events \X events : Before(ab[1], ab[2])}
  <1>1. \A x, y \in events : <<x, y>> \in order <=> Before(x, y)
    OBVIOUS
  <1>2. seq = Sorted(events, order)
    BY DEF SortedEvents
  <1> HIDE DEF order
  <1>3. CASE b = 0
    <2>1. events = {e}
      BY <1>3 DEF EventsOf
    <2>2. IsFiniteSet(events) /\ Cardinality(events) = 1
      BY <2>1, FS_Singleton
    <2>3. Orders(order, events)
      <3>1. ~Before(e, e)
        BY <1>0 DEF Before
      <3> QED
        BY <1>1, <2>1, <3>1 DEF Orders
    <2>4. seq \in [1..1 -> events]
      <3>1. Sorted(events, order) \in [1..Cardinality(events) -> events]
        BY <2>2, <2>3, SortedIs
      <3> QED
        BY <1>2, <2>2, <3>1
    <2>5. DOMAIN seq = 1..1 /\ seq[1] = e
      BY <2>1, <2>4
    <2>6. InRange(events, v) = IF v >= e.version THEN e.kind = "introduced" ELSE FALSE
      BY <2>5, InRangeOfOne
    <2> QED
      BY <1>3, <2>6
  <1>4. CASE b # 0
    <2>1. events = {e, f} /\ e # f
      <3>1. e.kind # f.kind
        OBVIOUS
      <3> QED
        BY <1>4, <3>1 DEF EventsOf
    <2>2. IsFiniteSet(events) /\ Cardinality(events) = 2
      <3>1. IsFiniteSet({f}) /\ Cardinality({f}) = 1
        BY FS_Singleton
      <3>2. {e, f} = {f} \cup {e} /\ e \notin {f}
        BY <2>1
      <3>3. IsFiniteSet({f} \cup {e}) /\ Cardinality({f} \cup {e}) = Cardinality({f}) + 1
        BY <3>1, <3>2, FS_AddElement
      <3> QED
        BY <2>1, <3>1, <3>2, <3>3
    <2>3. a < b
      BY <1>0, <1>4
    <2>4. ~Before(e, e) /\ ~Before(f, f) /\ Before(e, f) /\ ~Before(f, e)
      BY <1>0, <2>3 DEF Before
    <2>5. Orders(order, events)
      BY <1>1, <2>1, <2>4 DEF Orders
    <2>6. seq \in [1..2 -> events] /\ \A i, j \in 1..2 : i < j => <<seq[i], seq[j]>> \in order
      BY <1>2, <2>2, <2>5, SortedIs
    <2>7. <<seq[1], seq[2]>> \in order /\ seq[1] \in {e, f} /\ seq[2] \in {e, f} /\ DOMAIN seq = 1..2
      BY <2>1, <2>6
    <2>8. seq[1] = e /\ seq[2] = f
      BY <1>1, <2>1, <2>4, <2>7
    <2>9. InRange(events, v) = IF v >= f.version THEN f.kind = "introduced"
                               ELSE IF v >= e.version THEN e.kind = "introduced" ELSE FALSE
      <3>1. DOMAIN SortedEvents(events) = 1..2
        BY <2>7
      <3>2. InRange(events, v) =
              IF v >= SortedEvents(events)[2].version THEN SortedEvents(events)[2].kind = "introduced"
              ELSE IF v >= SortedEvents(events)[1].version THEN SortedEvents(events)[1].kind = "introduced" ELSE FALSE
        BY <3>1, InRangeOfTwo, Zenon
      <3> QED
        BY <2>8, <3>2
    <2>10. f.version = b /\ f.kind # "introduced" /\ e.version = a /\ e.kind = "introduced"
      OBVIOUS
    <2>11. InRange(events, v) <=> ~(v >= b) /\ v >= a
      BY <2>9, <2>10, Zenon
    <2> QED
      BY <1>0, <1>4, <2>3, <2>11
  <1> QED
    BY <1>3, <1>4

\* What is filled in, is checked, and is written, is acceptable.
FormsInv ==
  /\ EditInv
  /\ \A i \in DOMAIN advisories : Acceptable(advisories[i].ranges)
  /\ \A h \in Editor : edit[h].pc \in {"create", "update"} => Acceptable(edit[h].ranges)

\* A form stays acceptable when it is normalized.
LEMMA NormalizedIsAcceptable ==
  ASSUME NEW form, Acceptable(form)
  PROVE  Acceptable(Normalized(form))
  BY DEF Acceptable, Normalized, Blank

\* Every step keeps the forms acceptable.
LEMMA FormsStep == FormsInv /\ [AdvisoriesNext]_advisoryVars => FormsInv'
  <1> SUFFICES ASSUME FormsInv, [AdvisoriesNext]_advisoryVars PROVE FormsInv'
    OBVIOUS
  <1>1. EditInv'
    BY EditStep DEF FormsInv
  <1>2. advisories \in Seq(Row) /\ DOMAIN edit = Editor
    BY DEF FormsInv, EditInv
  <1>3. ASSUME NEW h \in Editor, NEW mod, NEW form, CheckCreate(h, mod, form) PROVE FormsInv'
    <2> PICK e : e = [pc |-> "create", mod |-> mod, ranges |-> Normalized(form), now |-> second]
      OBVIOUS
    <2>1. edit' = [edit EXCEPT ![h] = e] /\ advisories' = advisories /\ Acceptable(e.ranges)
      BY <1>3, NormalizedIsAcceptable DEF CheckCreate
    <2>2. \A g \in Editor : edit'[g] = IF g = h THEN e ELSE edit[g]
      BY <1>2, <2>1
    <2> QED
      BY <1>1, <2>1, <2>2 DEF FormsInv
  <1>4. ASSUME NEW h \in Editor, NEW i, NEW form, CheckUpdate(h, i, form) PROVE FormsInv'
    <2> PICK e : e = [pc |-> "update", row |-> i, ranges |-> Normalized(form), now |-> second]
      OBVIOUS
    <2>1. edit' = [edit EXCEPT ![h] = e] /\ advisories' = advisories /\ Acceptable(e.ranges)
      BY <1>4, NormalizedIsAcceptable DEF CheckUpdate
    <2>2. \A g \in Editor : edit'[g] = IF g = h THEN e ELSE edit[g]
      BY <1>2, <2>1
    <2> QED
      BY <1>1, <2>1, <2>2 DEF FormsInv
  <1>5. ASSUME NEW h \in Editor, NEW i, CheckWithdraw(h, i) PROVE FormsInv'
    <2> PICK e : e = [pc |-> "withdraw", row |-> i, now |-> second]
      OBVIOUS
    <2>1. edit' = [edit EXCEPT ![h] = e] /\ advisories' = advisories /\ e.pc = "withdraw"
      BY <1>5 DEF CheckWithdraw
    <2>2. \A g \in Editor : edit'[g] = IF g = h THEN e ELSE edit[g]
      BY <1>2, <2>1
    <2> QED
      BY <1>1, <2>1, <2>2 DEF FormsInv
  <1>6. ASSUME NEW h \in Editor, EditFails(h) PROVE FormsInv'
    <2>1. edit' = [edit EXCEPT ![h] = NotEditing] /\ advisories' = advisories
      BY <1>6 DEF EditFails
    <2>2. \A g \in Editor : edit'[g] = IF g = h THEN NotEditing ELSE edit[g]
      BY <1>2, <2>1
    <2> QED
      BY <1>1, <2>1, <2>2 DEF FormsInv, NotEditing
  <1>7. ASSUME NEW h \in Editor, CreateAdvisory(h) PROVE FormsInv'
    <2>1. PICK row, e : /\ row.ranges = edit[h].ranges /\ e.pc \in {"failed", "idle"}
                        /\ advisories' = advisories \/ advisories' = Append(advisories, row)
                        /\ edit' = [edit EXCEPT ![h] = e]
      <3> PICK id : id = NextId(edit[h].now \div YearLength, edit[h].mod)
        OBVIOUS
      <3> PICK row : row = [id |-> id, mod |-> edit[h].mod, ranges |-> edit[h].ranges,
                            modified |-> edit[h].now, withdrawn |-> 0]
        OBVIOUS
      <3>1. CASE \E a \in AllRows : a.id = id
        <4>1. advisories' = advisories /\ edit' = [edit EXCEPT ![h] = [pc |-> "failed"]]
          BY <1>7, <3>1 DEF CreateAdvisory
        <4>2. row.ranges = edit[h].ranges /\ [pc |-> "failed"].pc \in {"failed", "idle"}
          OBVIOUS
        <4> QED
          BY <4>1, <4>2
      <3>2. CASE ~ \E a \in AllRows : a.id = id
        <4>1. advisories' = Append(advisories, row) /\ edit' = [edit EXCEPT ![h] = NotEditing]
          BY <1>7, <3>2 DEF CreateAdvisory
        <4>2. row.ranges = edit[h].ranges /\ NotEditing.pc \in {"failed", "idle"}
          BY DEF NotEditing
        <4> QED
          BY <4>1, <4>2
      <3> QED
        BY <3>1, <3>2
    <2>2. Acceptable(row.ranges)
      BY <1>7, <2>1 DEF FormsInv, CreateAdvisory
    <2>3. ASSUME NEW i \in DOMAIN advisories'
          PROVE  advisories'[i] = row \/ (i \in DOMAIN advisories /\ advisories'[i] = advisories[i])
      <3>1. CASE advisories' = advisories
        BY <3>1
      <3>2. CASE advisories' = Append(advisories, row)
        <4> PICK n : n = Len(advisories)
          OBVIOUS
        <4>1. /\ n \in Nat /\ DOMAIN advisories = 1..n /\ DOMAIN advisories' = 1..(n + 1)
              /\ advisories'[n + 1] = row /\ \A j \in 1..n : advisories'[j] = advisories[j]
          BY <1>2, <3>2
        <4>2. i = n + 1 \/ i \in 1..n
          BY <4>1
        <4> QED
          BY <4>1, <4>2
      <3> QED
        BY <2>1, <3>1, <3>2
    <2>4. \A i \in DOMAIN advisories' : Acceptable(advisories'[i].ranges)
      BY <2>2, <2>3 DEF FormsInv
    <2>5. \A g \in Editor : edit'[g] = IF g = h THEN e ELSE edit[g]
      BY <1>2, <2>1
    <2> QED
      BY <1>1, <2>1, <2>4, <2>5 DEF FormsInv
  <1>8. ASSUME NEW h \in Editor, UpdateAdvisory(h) \/ WithdrawAdvisory(h) PROVE FormsInv'
    <2> PICK i : i = edit[h].row
      OBVIOUS
    <2>0. i \in DOMAIN advisories /\ advisories[i] \in Row
      BY <1>2, <1>8 DEF FormsInv, EditInv, EditsNow, UpdateAdvisory, WithdrawAdvisory
    <2>1. PICK row : Acceptable(row.ranges) /\ advisories' = [advisories EXCEPT ![i] = row]
      <3>1. CASE UpdateAdvisory(h)
        <4> PICK row : row = [advisories[i] EXCEPT !.ranges = edit[h].ranges, !.modified = edit[h].now]
          OBVIOUS
        <4>1. row.ranges = edit[h].ranges
          BY <2>0 DEF Row
        <4>2. Acceptable(edit[h].ranges)
          BY <3>1 DEF UpdateAdvisory, FormsInv
        <4>3. advisories' = [advisories EXCEPT ![i] = row]
          BY <3>1 DEF UpdateAdvisory
        <4> QED
          BY <4>1, <4>2, <4>3
      <3>2. CASE WithdrawAdvisory(h)
        <4> PICK row : row = [advisories[i] EXCEPT !.withdrawn = edit[h].now, !.modified = edit[h].now]
          OBVIOUS
        <4>1. row.ranges = advisories[i].ranges
          BY <2>0 DEF Row
        <4>2. Acceptable(advisories[i].ranges)
          BY <2>0 DEF FormsInv
        <4>3. advisories' = [advisories EXCEPT ![i] = row]
          BY <3>2 DEF WithdrawAdvisory
        <4> QED
          BY <4>1, <4>2, <4>3
      <3> QED
        BY <1>8, <3>1, <3>2
    <2>2. DOMAIN advisories' = DOMAIN advisories /\ \A j \in DOMAIN advisories : advisories'[j] = IF j = i THEN row ELSE advisories[j]
      BY <1>2, <2>0, <2>1
    <2>3. \A j \in DOMAIN advisories' : Acceptable(advisories'[j].ranges)
      BY <2>1, <2>2 DEF FormsInv
    <2>4. edit' = [edit EXCEPT ![h] = NotEditing]
      BY <1>8 DEF UpdateAdvisory, WithdrawAdvisory
    <2>5. \A g \in Editor : edit'[g] = IF g = h THEN NotEditing ELSE edit[g]
      BY <1>2, <2>4
    <2> QED
      BY <1>1, <2>3, <2>5 DEF FormsInv, NotEditing
  <1>9. CASE \/ \E mod \in Hosted : Review(mod)
             \/ PublicChanges \/ ToolStep \/ SecondPasses \/ UNCHANGED advisoryVars
    <2>1. advisories' = advisories /\ edit' = edit
      BY <1>9 DEF Review, PublicChanges, ToolStep, RefreshCopy, FetchAdvisory, SecondPasses, advisoryVars
    <2> QED
      BY <1>1, <2>1 DEF FormsInv
  <1> QED
    BY <1>3, <1>4, <1>5, <1>6, <1>7, <1>8, <1>9 DEF AdvisoriesNext, AdvisoriesStep, Creating, Changing

\* It holds at first.
LEMMA FormsInit == AdvisoriesInit => FormsInv
  <1> SUFFICES ASSUME AdvisoriesInit PROVE FormsInv
    OBVIOUS
  <1>1. EditInv
    BY EditInit
  <1>2. DOMAIN advisories = {} /\ \A h \in Editor : edit[h].pc = "idle"
    BY DEF AdvisoriesInit, NotEditing
  <1> QED
    BY <1>1, <1>2 DEF FormsInv

\* The report says of a version what the owner filled in.
LEMMA FormsAffect == FormsInv => AffectsWhatWasFilledIn
  <1> SUFFICES ASSUME FormsInv, NEW a \in AllRows, NEW v \in 1..TopVersion
               PROVE  Affects(a, v) <=>
                        a.withdrawn = 0 /\ \E r \in a.ranges : v >= r.introduced /\ (r.fixed = 0 \/ v < r.fixed)
    BY DEF AffectsWhatWasFilledIn
  <1>1. PICK i \in DOMAIN advisories : a = advisories[i]
    BY DEF AllRows, ToSet
  <1>2. a.ranges \in Forms /\ Acceptable(a.ranges)
    <2>1. a \in Row
      BY <1>1 DEF FormsInv, EditInv
    <2> QED
      BY <1>1, <2>1 DEF FormsInv, Row
  <1>3. v \in Nat \ {0}
    BY AdvisoryConstants
  <1>4. \A r \in a.ranges : InRange(EventsOf(r), v) <=> v >= r.introduced /\ (r.fixed = 0 \/ v < r.fixed)
    BY <1>2, <1>3, EventsAffect DEF Forms, Acceptable
  <1>5. AffectsVersion(OsvRanges(a.ranges), v) <=> \E r \in a.ranges : InRange(EventsOf(r), v)
    BY DEF AffectsVersion, OsvRanges
  <1> QED
    BY <1>4, <1>5 DEF Affects

\* While there is one change in a second the tool keeps up, and reports say
\* what was filled in all the time.
FollowInv == FormsInv /\ (quiet => ToolInv)

\* Every step keeps it: a change that is not the only one in its second ends
\* the quiet for good.
LEMMA FollowStep == FollowInv /\ [AdvisoriesNext]_advisoryVars => FollowInv'
  <1> SUFFICES ASSUME FollowInv, [AdvisoriesNext]_advisoryVars PROVE FollowInv'
    OBVIOUS
  <1>1. FormsInv'
    BY FormsStep DEF FollowInv
  <1>2. ASSUME quiet' PROVE ToolInv'
    <2>1. CASE AdvisoriesNext
      BY <1>2, <2>1, ToolStepKeeps DEF AdvisoriesNext, FollowInv
    <2>2. CASE UNCHANGED advisoryVars
      <3>1. ToolInv /\ UNCHANGED <<second, advisories, underReview, public, edit, tool>>
        BY <1>2, <2>2 DEF advisoryVars, FollowInv
      <3>2. EditInv'
        BY <1>1 DEF FormsInv
      <3>3. \A h \in Editor : WritesFirst(h)'
        BY <3>1 DEF WritesFirst, ToolInv
      <3> QED
        BY <3>1, <3>2, <3>3, NothingIsWritten
    <2> QED
      BY <2>1, <2>2
  <1> QED
    BY <1>1, <1>2 DEF FollowInv

\* A report says of a version what its owner filled in, and a tool that asks
\* db.json what changed misses nothing, as long as there is one change in a
\* second.
THEOREM ToolsKeepUp == AdvisoriesSpec => []ToolsFollow
  <1>1. AdvisoriesInit => FollowInv
    BY FormsInit, ToolInit DEF FollowInv
  <1>2. FollowInv => ToolsFollow
    BY FormsAffect, ToolInvIsCurrent DEF FollowInv, ToolsFollow
  <1> QED
    BY <1>1, <1>2, FollowStep, PTL DEF AdvisoriesSpec

-----------------------------------------------------------------------------
(* What readers are shown.                                                 *)

\* A request that is being answered, or has been.
ReadPc == {"source", "versions", "row", "docs", "docs source", "page", "content", "acquire",
           "download", "reading", "hosted", "public", "look up", "done"}
Origin == {"nowhere", "error", "store", "public", "registry"}
Text == {NotCached, "made", "failed"}
Asked == [pc : ReadPc, kind : ReadKind \cup {"module latest"}, mod : ModPath,
          answer : [from : Origin, docs : Text],
          seen : [ModPath -> SUBSET Sight], down : BOOLEAN,
          hits : SUBSET ModPath, public : SUBSET ModPath, left : SUBSET ModPath]

\* Past the first statement the module was on show; on the way to the docs,
\* or to the latest version, it had one to install.
Shown == {"versions", "row", "docs", "docs source", "content", "acquire", "download", "reading"}
OnShow(s) == s \cap {"installable", "yanked"} # {}
OnTheWay(j) ==
  /\ j.pc \in Shown => OnShow(j.seen[j.mod])
  /\ (j.pc \in Shown \ {"versions"} /\ j.kind \in {"latest", "module", "module latest"})
       => "installable" \in j.seen[j.mod]
  /\ j.pc \in {"page", "content"} => j.kind = "page"
  /\ j.pc \in {"hosted", "public", "look up"} => j.kind \in SearchKind

\* Of what a search shows as public, and may still show, each was at some
\* moment not an installable module of this registry.
WasNotOurs(j, m) == \E s \in j.seen[m] : s # "installable"
Searches(j) ==
  /\ (j.pc = "public" /\ j.kind \in {"search", "api search"}) =>
       \A m \in ModPath \ j.hits : WasNotOurs(j, m)
  /\ \A m \in j.public : WasNotOurs(j, m)

\* The answer from such a place was true of a module that was seen so.
WasTrue(j, from) ==
  LET s == j.seen[j.mod] IN
  /\ from = "registry" => OnShow(s)
  /\ (from = "registry" /\ j.kind \in {"latest", "module"}) => "installable" \in s
  /\ from \in {"store", "public"} => "missing" \in s
  /\ from = "public" => j.mod \notin OurPath
  /\ from = "nowhere" => s # {"installable"}
  /\ (from = "nowhere" /\ j.kind \notin {"latest", "module", "module latest"}) =>
       s \cap {"missing", "hidden"} # {}

Sound(j) ==
  /\ OnTheWay(j)
  /\ Searches(j)
  /\ (j.pc = "done" /\ j.kind \notin SearchKind) => WasTrue(j, j.answer.from)

TablesOK ==
  /\ hosted \in [OurPath -> Sight \ {"hidden"}]
  /\ inReview \subseteq OurPath
  /\ docs \in [ModPath -> Text]
  /\ found \in {NotCached} \cup SUBSET ModPath

Active(r) == reader[r].pc \notin {"idle", "done"}

\* Without the last conjunct an answer could be from before the request.
ReadsInv ==
  /\ TablesOK
  /\ reader \in [Reader -> Asked \cup {NoReader}]
  /\ \A r \in Reader : reader[r] # NoReader => Sound(reader[r])
  /\ \A r \in Reader : Active(r) => \A m \in ModPath : Standing[m] \in reader[r].seen[m]

\* A module stands as a reader can see it; one that nobody here publishes is
\* missing.
LEMMA StandingIsSight ==
  ASSUME TablesOK, NEW m \in ModPath
  PROVE  /\ Standing[m] \in Sight
         /\ m \notin OurPath => Standing[m] = "missing"
  BY DEF TablesOK, Standing, StandingOf, Sight

\* A request that is being answered has its fields, and is sound.
LEMMA ActiveAsked ==
  ASSUME ReadsInv, NEW r \in Reader, reader[r].pc \in ReadPc
  PROVE  reader[r] \in Asked /\ Sound(reader[r]) /\ Mod(r) \in ModPath
  <1>1. reader[r] # NoReader
    <2>1. NoReader.pc = "idle" /\ "idle" \notin ReadPc
      BY DEF NoReader, ReadPc
    <2> QED
      BY <2>1
  <1>2. reader[r] \in Asked
    BY <1>1 DEF ReadsInv
  <1> QED
    BY <1>1, <1>2 DEF ReadsInv, Mod, Asked

\* The request of r goes on as j, which was asked the same and saw the same.
Onward(r, j) ==
  /\ reader' = [reader EXCEPT ![r] = j]
  /\ Active(r)
  /\ j \in Asked
  /\ j.seen = reader[r].seen

\* A reader goes on to a job that is sound, and the invariant is kept.
LEMMA OnwardInv ==
  ASSUME ReadsInv, NEW r \in Reader, NEW j, Onward(r, j), Sound(j),
         hosted' = hosted, inReview' = inReview, TablesOK'
  PROVE  ReadsInv'
  <1>1. /\ reader' \in [Reader -> Asked \cup {NoReader}]
        /\ reader'[r] = j
        /\ \A q \in Reader \ {r} : reader'[q] = reader[q]
    BY DEF Onward, ReadsInv
  <1>2. Standing' = Standing
    BY DEF Standing, StandingOf
  <1>3. \A q \in Reader : reader'[q] # NoReader => Sound(reader'[q])
    BY <1>1 DEF ReadsInv
  <1>4. ASSUME NEW q \in Reader, Active(q)', NEW m \in ModPath
        PROVE  Standing[m] \in reader'[q].seen[m]
    <2>1. Active(q)
      BY <1>1, <1>4 DEF Active, Onward
    <2> QED
      BY <1>1, <2>1 DEF ReadsInv, Onward
  <1> QED
    BY <1>1, <1>2, <1>3, <1>4 DEF ReadsInv

\* The request of r is over.
LEMMA OverRead ==
  ASSUME ReadsInv, NEW r \in Reader, reader' = [reader EXCEPT ![r] = NoReader],
         hosted' = hosted, inReview' = inReview, docs' = docs, found' = found
  PROVE  ReadsInv'
  <1>1. /\ reader' \in [Reader -> Asked \cup {NoReader}]
        /\ reader'[r] = NoReader
        /\ \A q \in Reader \ {r} : reader'[q] = reader[q]
    BY DEF ReadsInv
  <1>2. Standing' = Standing /\ TablesOK'
    BY DEF Standing, StandingOf, ReadsInv, TablesOK
  <1> QED
    BY <1>1, <1>2 DEF ReadsInv, Active, NoReader

\* A request that goes on elsewhere, or ends, is well formed.
LEMMA GoesAsked ==
  ASSUME ReadsInv, NEW r \in Reader, Active(r), reader[r].pc \in ReadPc, NEW pc \in ReadPc
  PROVE  LET j == [reader[r] EXCEPT !.pc = pc] IN
         /\ j \in Asked /\ j.pc = pc
         /\ j.seen = reader[r].seen /\ j.mod = Mod(r) /\ j.kind = reader[r].kind
         /\ j.hits = reader[r].hits /\ j.public = reader[r].public
         /\ Goes(r, pc) => Onward(r, j)
  <1>1. reader[r] \in Asked
    BY ActiveAsked
  <1> QED
    BY <1>1 DEF Asked, Goes, Onward, ReadsInv, Mod

\* An answer leaves the rest of the job as it was.
LEMMA EndsAsked ==
  ASSUME ReadsInv, NEW r \in Reader, Active(r), reader[r].pc \in ReadPc,
         NEW told \in [from : Origin, docs : Text]
  PROVE  LET j == [reader[r] EXCEPT !.pc = "done", !.answer = told] IN
         /\ j \in Asked /\ j.pc = "done" /\ j.answer = told
         /\ j.seen = reader[r].seen /\ j.mod = Mod(r) /\ j.kind = reader[r].kind
         /\ j.public = reader[r].public
         /\ Ends(r, told) => Onward(r, j)
  <1>1. reader[r] \in Asked
    BY ActiveAsked
  <1> QED
    BY <1>1 DEF Asked, Ends, Onward, ReadsInv, Mod, ReadPc

\* Going on is sound when the place is one the request may be at.
LEMMA GoesInv ==
  ASSUME ReadsInv, NEW r \in Reader, Active(r), reader[r].pc \in ReadPc, NEW pc \in ReadPc,
         Goes(r, pc), pc \notin {"done", "hosted", "public", "look up", "page"},
         pc = "content" => Is(r, {"page"}),
         pc \in Shown => OnShow(Seen(r)),
         (pc \in Shown \ {"versions"} /\ Is(r, {"latest", "module", "module latest"}))
           => "installable" \in Seen(r),
         hosted' = hosted, inReview' = inReview, docs' = docs, found' = found
  PROVE  ReadsInv'
  <1> DEFINE j == [reader[r] EXCEPT !.pc = pc]
  <1>1. /\ j \in Asked /\ j.pc = pc
        /\ j.seen = reader[r].seen /\ j.mod = Mod(r) /\ j.kind = reader[r].kind
        /\ j.hits = reader[r].hits /\ j.public = reader[r].public
        /\ Onward(r, j)
    BY GoesAsked
  <1> HIDE DEF j
  <1>2. Sound(reader[r])
    BY ActiveAsked
  <1>3. OnTheWay(j)
    BY <1>1 DEF OnTheWay, Seen, Is
  <1>4. Searches(j)
    BY <1>1, <1>2 DEF Sound, Searches, WasNotOurs
  <1>5. Sound(j)
    BY <1>1, <1>3, <1>4 DEF Sound
  <1>6. TablesOK'
    BY DEF ReadsInv, TablesOK
  <1> QED
    BY <1>1, <1>5, <1>6, OnwardInv

\* Ending is sound when the answer was true of what was seen.
LEMMA EndsInv ==
  ASSUME ReadsInv, NEW r \in Reader, Active(r), reader[r].pc \in ReadPc,
         NEW told \in [from : Origin, docs : Text], Ends(r, told),
         ~Is(r, SearchKind) => WasTrue(reader[r], told.from),
         hosted' = hosted, inReview' = inReview, TablesOK'
  PROVE  ReadsInv'
  <1> DEFINE j == [reader[r] EXCEPT !.pc = "done", !.answer = told]
  <1>1. /\ j \in Asked /\ j.pc = "done" /\ j.answer = told
        /\ j.seen = reader[r].seen /\ j.mod = Mod(r) /\ j.kind = reader[r].kind
        /\ j.public = reader[r].public
        /\ Onward(r, j)
    BY EndsAsked
  <1> HIDE DEF j
  <1>2. Sound(reader[r])
    BY ActiveAsked
  <1>3. OnTheWay(j)
    BY <1>1 DEF OnTheWay, Shown
  <1>4. Searches(j)
    BY <1>1, <1>2 DEF Sound, Searches, WasNotOurs
  <1>5. j.kind \notin SearchKind => WasTrue(j, j.answer.from)
    BY <1>1 DEF WasTrue, Is, Mod
  <1>6. Sound(j)
    BY <1>1, <1>3, <1>4, <1>5 DEF Sound
  <1> QED
    BY <1>1, <1>6, OnwardInv

\* Every request is at one place of its way.
LEMMA AtAPlace ==
  ASSUME NEW r \in Reader, NEW pc \in ReadPc \ {"done"}, At(r, pc)
  PROVE  Active(r) /\ reader[r].pc \in ReadPc
  BY DEF At, Active, ReadPc

\* What is so while a request is at work is something it sees.
LEMMA SeesNow ==
  ASSUME ReadsInv, NEW r \in Reader, Active(r), reader[r].pc \in ReadPc
  PROVE  /\ Mod(r) \in ModPath
         /\ Standing[Mod(r)] \in Seen(r)
         /\ Standing[Mod(r)] \in Sight
         /\ Mod(r) \notin OurPath => Standing[Mod(r)] = "missing"
         /\ Seen(r) = reader[r].seen[reader[r].mod]
  <1>1. Mod(r) \in ModPath
    BY ActiveAsked
  <1>2. TablesOK
    BY DEF ReadsInv
  <1> QED
    BY <1>1, <1>2, StandingIsSight DEF ReadsInv, Seen, Mod

\* The answers that the handlers give.
LEMMA AnswersAreWellFormed ==
  /\ \A from \in Origin : From(from) \in [from : Origin, docs : Text] /\ From(from).from = from
  /\ NotThere \in [from : Origin, docs : Text] /\ NotThere.from = "nowhere"
  /\ Failed \in [from : Origin, docs : Text] /\ Failed.from = "error"
  BY DEF From, NotThere, Failed, Origin, Text

\* Whether the module is ours: the store, or the public proxy, is asked only
\* of one that was missing.
LEMMA SourceInv ==
  ASSUME ReadsInv, NEW r \in Reader, Source(r)
  PROVE  ReadsInv'
  <1>1. At(r, "source") /\ UNCHANGED <<tables, caches, slots>>
    BY DEF Source
  <1>2. Active(r) /\ reader[r].pc \in ReadPc
    BY <1>1, AtAPlace DEF ReadPc
  <1>3. /\ hosted' = hosted /\ inReview' = inReview /\ docs' = docs /\ found' = found
        /\ TablesOK'
    BY <1>1 DEF tables, caches, ReadsInv, TablesOK
  <1>4. /\ Standing[Mod(r)] \in Seen(r)
        /\ Standing[Mod(r)] \in Sight
        /\ Seen(r) = reader[r].seen[reader[r].mod]
    BY <1>2, SeesNow
  <1>5. CASE Absent(Mod(r)) /\ Ends(r, From("store"))
    <2>1. From("store") \in [from : Origin, docs : Text] /\ From("store").from = "store"
      BY AnswersAreWellFormed DEF Origin
    <2>2. WasTrue(reader[r], "store")
      BY <1>4, <1>5 DEF WasTrue, Absent
    <2> QED
      BY <1>2, <1>3, <1>5, <2>1, <2>2, EndsInv
  <1>6. CASE Absent(Mod(r)) /\ Mod(r) \notin OurPath /\ Ends(r, From("public"))
    <2>1. From("public") \in [from : Origin, docs : Text] /\ From("public").from = "public"
      BY AnswersAreWellFormed DEF Origin
    <2>2. WasTrue(reader[r], "public")
      BY <1>4, <1>6 DEF WasTrue, Absent, Mod
    <2> QED
      BY <1>2, <1>3, <1>6, <2>1, <2>2, EndsInv
  <1>7. CASE Ends(r, Failed)
    <2>1. Failed \in [from : Origin, docs : Text] /\ Failed.from = "error"
      BY AnswersAreWellFormed
    <2>2. WasTrue(reader[r], "error")
      BY DEF WasTrue
    <2> QED
      BY <1>2, <1>3, <1>7, <2>1, <2>2, EndsInv
  <1>8. CASE Standing[Mod(r)] \in {"missing", "hidden"} /\ Ends(r, NotThere)
    <2>1. NotThere \in [from : Origin, docs : Text] /\ NotThere.from = "nowhere"
      BY AnswersAreWellFormed
    <2>2. WasTrue(reader[r], "nowhere")
      BY <1>4, <1>8 DEF WasTrue
    <2> QED
      BY <1>2, <1>3, <1>8, <2>1, <2>2, EndsInv
  <1>9. CASE Standing[Mod(r)] \notin {"missing", "hidden"} /\ Goes(r, AfterSource(r))
    <2>1. OnShow(Seen(r))
      BY <1>4, <1>9 DEF OnShow, Sight
    <2>2. CASE Is(r, {"list", "latest", "module", "module latest"})
      <3>1. Goes(r, "versions")
        BY <1>9, <2>2 DEF AfterSource
      <3>2. "versions" \in ReadPc \ {"done", "hosted", "public", "look up", "page", "content"}
        BY DEF ReadPc
      <3> QED
        BY <1>2, <1>3, <2>1, <3>1, <3>2, GoesInv
    <2>3. CASE ~Is(r, {"list", "latest", "module", "module latest"})
      <3>1. Goes(r, "row")
        BY <1>9, <2>3 DEF AfterSource
      <3>2. "row" \in ReadPc \ {"done", "hosted", "public", "look up", "page", "content"}
           /\ ~Is(r, {"latest", "module", "module latest"})
        BY <2>3 DEF ReadPc, Is
      <3> QED
        BY <1>2, <1>3, <2>1, <3>1, <3>2, GoesInv
    <2> QED
      BY <2>2, <2>3
  <1>10. \/ Absent(Mod(r)) /\ Ends(r, From("store"))
         \/ Absent(Mod(r)) /\ Mod(r) \notin OurPath /\ Ends(r, From("public"))
         \/ Ends(r, Failed)
         \/ Standing[Mod(r)] \in {"missing", "hidden"} /\ Ends(r, NotThere)
         \/ Standing[Mod(r)] \notin {"missing", "hidden"} /\ Goes(r, AfterSource(r))
    BY DEF Source, Absent
  <1> QED
    BY <1>5, <1>6, <1>7, <1>8, <1>9, <1>10

\* What holds of the module of a request on its way.
LEMMA OnTheWayNow ==
  ASSUME ReadsInv, NEW r \in Reader, reader[r].pc \in Shown
  PROVE  /\ OnShow(Seen(r))
         /\ (reader[r].pc # "versions" /\ Is(r, {"latest", "module", "module latest"}))
              => "installable" \in Seen(r)
  <1>1. reader[r].pc \in ReadPc
    BY DEF Shown, ReadPc
  <1>2. Sound(reader[r])
    BY <1>1, ActiveAsked
  <1> QED
    BY <1>2 DEF Sound, OnTheWay, Seen, Mod, Is

\* Answers from the registry, and "not found" of what was hidden.
LEMMA RegistryInv ==
  ASSUME ReadsInv, NEW r \in Reader, Active(r), reader[r].pc \in ReadPc, NEW text \in Text,
         Ends(r, [from |-> "registry", docs |-> text]),
         ~Is(r, SearchKind) => OnShow(Seen(r)),
         Is(r, {"latest", "module"}) => "installable" \in Seen(r),
         hosted' = hosted, inReview' = inReview, TablesOK'
  PROVE  ReadsInv'
  <1> DEFINE told == [from |-> "registry", docs |-> text]
  <1>1. told \in [from : Origin, docs : Text] /\ told.from = "registry"
    BY DEF Origin
  <1> HIDE DEF told
  <1>2. ~Is(r, SearchKind) => WasTrue(reader[r], told.from)
    BY <1>1 DEF WasTrue, Seen, Mod, Is
  <1>3. Ends(r, told)
    BY DEF told
  <1> QED
    BY <1>1, <1>2, <1>3, EndsInv

\* Not found is the answer about a module that is missing or under review.
LEMMA HiddenInv ==
  ASSUME ReadsInv, NEW r \in Reader, Active(r), reader[r].pc \in ReadPc,
         Standing[Mod(r)] \in {"missing", "hidden"}, Ends(r, NotThere),
         hosted' = hosted, inReview' = inReview, TablesOK'
  PROVE  ReadsInv'
  <1>1. NotThere \in [from : Origin, docs : Text] /\ NotThere.from = "nowhere"
    BY AnswersAreWellFormed
  <1>2. WasTrue(reader[r], NotThere.from)
    BY <1>1, SeesNow DEF WasTrue
  <1> QED
    BY <1>1, <1>2, EndsInv

\* What no step of one request changes.
LEMMA TablesStay ==
  ASSUME ReadsInv, UNCHANGED <<tables, caches>>
  PROVE  hosted' = hosted /\ inReview' = inReview /\ docs' = docs /\ found' = found /\ TablesOK'
  BY DEF tables, caches, ReadsInv, TablesOK

\* Documentation that is kept changes nothing of the tables.
LEMMA DocsChange ==
  ASSUME ReadsInv, UNCHANGED <<tables, found>>, docs' = docs \/ \E m \in ModPath, text \in Text :
           docs' = [docs EXCEPT ![m] = text]
  PROVE  hosted' = hosted /\ inReview' = inReview /\ found' = found /\ TablesOK'
  BY DEF tables, ReadsInv, TablesOK

\* The list of versions is read.
LEMMA ReadVersionListInv ==
  ASSUME ReadsInv, NEW r \in Reader, ReadVersionList(r)
  PROVE  ReadsInv'
  <1>1. At(r, "versions") /\ UNCHANGED <<tables, caches, slots>>
    BY DEF ReadVersionList
  <1>2. Active(r) /\ reader[r].pc \in ReadPc
    BY <1>1, AtAPlace DEF ReadPc
  <1>3. /\ hosted' = hosted /\ inReview' = inReview /\ docs' = docs /\ found' = found
        /\ TablesOK'
    BY <1>1, TablesStay
  <1>4. Standing[Mod(r)] \in Seen(r) /\ Seen(r) = reader[r].seen[reader[r].mod]
    BY <1>2, SeesNow
  <1>5. OnShow(Seen(r))
    BY <1>1, OnTheWayNow DEF At, Shown
  <1>6. CASE Standing[Mod(r)] = "hidden" /\ Ends(r, NotThere)
    BY <1>2, <1>3, <1>6, HiddenInv
  <1>7. CASE Is(r, {"list"}) /\ Ends(r, From("registry"))
    <2>1. Ends(r, [from |-> "registry", docs |-> NotCached]) /\ NotCached \in Text
      BY <1>7 DEF From, Text
    <2>2. ~Is(r, {"latest", "module"})
      BY <1>7 DEF Is
    <2> QED
      BY <1>2, <1>3, <1>5, <2>1, <2>2, RegistryInv
  <1>8. CASE Standing[Mod(r)] = "installable" /\ (Goes(r, "row") \/ Goes(r, "docs"))
    <2>1. "installable" \in Seen(r)
      BY <1>4, <1>8
    <2>2. {"row", "docs"} \subseteq ReadPc \ {"done", "hosted", "public", "look up", "page", "content"}
      BY DEF ReadPc
    <2>3. CASE Goes(r, "row")
      BY <1>2, <1>3, <1>5, <2>1, <2>2, <2>3, GoesInv
    <2>4. CASE Goes(r, "docs")
      BY <1>2, <1>3, <1>5, <2>1, <2>2, <2>4, GoesInv
    <2> QED
      BY <1>8, <2>3, <2>4
  <1>9. CASE Standing[Mod(r)] = "yanked" /\ Is(r, {"latest", "module latest"}) /\ Ends(r, NotThere)
    <2>1. NotThere \in [from : Origin, docs : Text] /\ NotThere.from = "nowhere"
      BY AnswersAreWellFormed
    <2>2. WasTrue(reader[r], NotThere.from)
      BY <1>4, <1>9, <2>1 DEF WasTrue, Is
    <2> QED
      BY <1>2, <1>3, <1>9, <2>1, <2>2, EndsInv
  <1>10. CASE /\ Is(r, {"module"})
              /\ reader' = [reader EXCEPT ![r].pc = "source", ![r].kind = "module latest"]
    <2> DEFINE j == [reader[r] EXCEPT !.pc = "source", !.kind = "module latest"]
    <2>1. reader[r] \in Asked /\ Sound(reader[r])
      BY <1>2, ActiveAsked
    <2>2. /\ j \in Asked /\ j.pc = "source" /\ j.kind = "module latest"
          /\ j.seen = reader[r].seen /\ j.public = reader[r].public
      BY <2>1 DEF Asked, ReadPc
    <2>3. Onward(r, j)
      BY <1>2, <1>10, <2>1, <2>2 DEF Onward, ReadsInv
    <2> HIDE DEF j
    <2>4. Sound(j)
      BY <2>1, <2>2 DEF Sound, OnTheWay, Searches, WasNotOurs, Shown
    <2> QED
      BY <1>3, <2>3, <2>4, OnwardInv
  <1>11. \/ Standing[Mod(r)] = "hidden" /\ Ends(r, NotThere)
         \/ Is(r, {"list"}) /\ Ends(r, From("registry"))
         \/ Standing[Mod(r)] = "installable" /\ (Goes(r, "row") \/ Goes(r, "docs"))
         \/ Standing[Mod(r)] = "yanked" /\ Is(r, {"latest", "module latest"}) /\ Ends(r, NotThere)
         \/ /\ Is(r, {"module"})
            /\ reader' = [reader EXCEPT ![r].pc = "source", ![r].kind = "module latest"]
    BY DEF ReadVersionList
  <1> QED
    BY <1>6, <1>7, <1>8, <1>9, <1>10, <1>11

\* The docs that are shown become those that are kept.
LEMMA ShowsModuleInv ==
  ASSUME ReadsInv, NEW r \in Reader, reader[r].pc \in Shown \ {"versions"}, NEW text \in Text,
         ShowsModule(r, text), UNCHANGED <<tables, found>>
  PROVE  ReadsInv'
  <1>1. Active(r) /\ reader[r].pc \in ReadPc
    BY DEF Shown, Active, ReadPc
  <1>2. Mod(r) \in ModPath
    BY <1>1, SeesNow
  <1>3. hosted' = hosted /\ inReview' = inReview /\ TablesOK'
    BY <1>2, DocsChange DEF ShowsModule
  <1>4. Ends(r, [from |-> "registry", docs |-> text])
    BY DEF ShowsModule, Ends
  <1>5. OnShow(Seen(r)) /\ (Is(r, {"latest", "module"}) => "installable" \in Seen(r))
    BY OnTheWayNow DEF Is
  <1> QED
    BY <1>1, <1>3, <1>4, <1>5, RegistryInv

\* The row of a version is read.
LEMMA ReadVersionRowInv ==
  ASSUME ReadsInv, NEW r \in Reader, ReadVersionRow(r)
  PROVE  ReadsInv'
  <1>1. At(r, "row") /\ UNCHANGED <<tables, content, found, slots>>
    BY DEF ReadVersionRow
  <1>2. Active(r) /\ reader[r].pc \in ReadPc
    BY <1>1, AtAPlace DEF ReadPc
  <1>3. reader[r].pc \in Shown \ {"versions"}
    BY <1>1 DEF At, Shown
  <1>4. OnShow(Seen(r)) /\ (Is(r, {"latest", "module", "module latest"}) => "installable" \in Seen(r))
    BY <1>3, OnTheWayNow
  <1>6. CASE ShowsModule(r, "failed")
    BY <1>1, <1>3, <1>6, ShowsModuleInv DEF Text
  <1>7. ASSUME docs' = docs
        PROVE  /\ hosted' = hosted /\ inReview' = inReview /\ found' = found
               /\ TablesOK'
    BY <1>1, <1>7, DocsChange DEF tables
  <1>8. CASE Standing[Mod(r)] = "hidden" /\ Ends(r, NotThere) /\ docs' = docs
    BY <1>2, <1>7, <1>8, HiddenInv
  <1>9. CASE docs' = docs /\ Ends(r, From("registry"))
    <2>1. Ends(r, [from |-> "registry", docs |-> NotCached]) /\ NotCached \in Text
      BY <1>9 DEF From, Text
    <2>2. Is(r, {"latest", "module"}) => "installable" \in Seen(r)
      BY <1>4 DEF Is
    <2> QED
      BY <1>2, <1>4, <1>7, <1>9, <2>1, <2>2, RegistryInv
  <1>10. CASE /\ docs' = docs
              /\ Is(r, {"module latest"})
              /\ reader' = [reader EXCEPT ![r].pc = "docs", ![r].kind = "module"]
    <2> DEFINE j == [reader[r] EXCEPT !.pc = "docs", !.kind = "module"]
    <2>1. reader[r] \in Asked /\ Sound(reader[r])
      BY <1>2, ActiveAsked
    <2>2. /\ j \in Asked /\ j.pc = "docs" /\ j.kind = "module"
          /\ j.seen = reader[r].seen /\ j.public = reader[r].public /\ j.mod = Mod(r)
      BY <2>1 DEF Asked, ReadPc, ReadKind, ProxyKind, Mod
    <2>3. Onward(r, j)
      BY <1>2, <1>10, <2>1, <2>2 DEF Onward, ReadsInv
    <2> HIDE DEF j
    <2>4. "installable" \in Seen(r)
      BY <1>4, <1>10 DEF Is
    <2>5. Sound(j)
      BY <1>4, <2>1, <2>2, <2>4 DEF Sound, OnTheWay, Searches, WasNotOurs, Shown, Seen
    <2> QED
      BY <1>7, <1>10, <2>3, <2>5, OnwardInv
  <1>11. CASE docs' = docs /\ Goes(r, "acquire")
    <2>1. "acquire" \in ReadPc \ {"done", "hosted", "public", "look up", "page", "content"}
      BY DEF ReadPc
    <2> QED
      BY <1>2, <1>4, <1>7, <1>11, <2>1, GoesInv
  <1>12. \/ ShowsModule(r, "failed")
         \/ Standing[Mod(r)] = "hidden" /\ Ends(r, NotThere) /\ docs' = docs
         \/ docs' = docs /\ Ends(r, From("registry"))
         \/ /\ docs' = docs
            /\ Is(r, {"module latest"})
            /\ reader' = [reader EXCEPT ![r].pc = "docs", ![r].kind = "module"]
         \/ docs' = docs /\ Goes(r, "acquire")
    BY DEF ReadVersionRow, WithoutZip
  <1> QED
    BY <1>6, <1>8, <1>9, <1>10, <1>11, <1>12

\* Documentation is looked up, or made.
LEMMA DocsInv ==
  ASSUME ReadsInv, NEW r \in Reader, FindDocs(r) \/ DocsSource(r)
  PROVE  ReadsInv'
  <1>1. reader[r].pc \in {"docs", "docs source"} /\ UNCHANGED <<tables, content, found, slots>>
    BY DEF FindDocs, DocsSource, At
  <1>2. Active(r) /\ reader[r].pc \in ReadPc /\ reader[r].pc \in Shown \ {"versions"}
    BY <1>1 DEF Active, ReadPc, Shown
  <1>3. OnShow(Seen(r)) /\ (Is(r, {"latest", "module", "module latest"}) => "installable" \in Seen(r))
    BY <1>2, OnTheWayNow
  <1>4. Mod(r) \in ModPath
    BY <1>2, SeesNow
  <1>5. ASSUME NEW text \in Text, ShowsModule(r, text) PROVE ReadsInv'
    BY <1>1, <1>2, <1>5, ShowsModuleInv
  <1>6. ASSUME NEW pc \in {"docs source", "row"}, Goes(r, pc), docs' = docs PROVE ReadsInv'
    <2>1. pc \in ReadPc \ {"done", "hosted", "public", "look up", "page", "content"}
      BY DEF ReadPc
    <2>2. hosted' = hosted /\ inReview' = inReview /\ found' = found
      BY <1>1 DEF tables
    <2> QED
      BY <1>2, <1>3, <1>6, <2>1, <2>2, GoesInv
  <1>7. CASE FindDocs(r)
    <2>1. docs[Mod(r)] \in Text
      BY <1>4 DEF ReadsInv, TablesOK
    <2> QED
      BY <1>5, <1>6, <1>7, <2>1 DEF FindDocs
  <1>8. CASE DocsSource(r)
    BY <1>5, <1>6, <1>8 DEF DocsSource, Text
  <1> QED
    BY <1>7, <1>8

\* The page of a module is made.
LEMMA PageInv ==
  ASSUME ReadsInv, NEW r \in Reader, ReadModule(r) \/ FindContent(r)
  PROVE  ReadsInv'
  <1>1. reader[r].pc \in {"page", "content"} /\ UNCHANGED <<tables, caches, slots>>
    BY DEF ReadModule, FindContent, At
  <1>2. Active(r) /\ reader[r].pc \in ReadPc
    BY <1>1 DEF Active, ReadPc
  <1>3. /\ hosted' = hosted /\ inReview' = inReview /\ docs' = docs /\ found' = found
        /\ TablesOK'
    BY <1>1, TablesStay
  <1>4. Standing[Mod(r)] \in Seen(r) /\ Standing[Mod(r)] \in Sight
    BY <1>2, SeesNow
  <1>5. CASE ReadModule(r)
    <2>1. CASE Standing[Mod(r)] \in {"missing", "hidden"} /\ Ends(r, NotThere)
      BY <1>2, <1>3, <2>1, HiddenInv
    <2>2. CASE Standing[Mod(r)] \notin {"missing", "hidden"} /\ Goes(r, "content")
      <3>1. OnShow(Seen(r))
        BY <1>4, <2>2 DEF OnShow, Sight
      <3>2. "content" \in ReadPc \ {"done", "hosted", "public", "look up", "page"}
        BY DEF ReadPc
      <3>3. reader[r].kind = "page"
        BY <1>2, <1>5, ActiveAsked DEF ReadModule, At, Sound, OnTheWay
      <3>4. Is(r, {"page"}) /\ ~Is(r, {"latest", "module", "module latest"})
        BY <3>3 DEF Is
      <3> QED
        BY <1>2, <1>3, <2>2, <3>1, <3>2, <3>4, GoesInv
    <2> QED
      BY <1>5, <2>1, <2>2 DEF ReadModule
  <1>6. CASE FindContent(r)
    <2>1. OnShow(Seen(r)) /\ (Is(r, {"latest", "module", "module latest"}) => "installable" \in Seen(r))
      BY <1>6, OnTheWayNow DEF FindContent, At, Shown
    <2>2. CASE Ends(r, From("registry"))
      <3>1. Ends(r, [from |-> "registry", docs |-> NotCached]) /\ NotCached \in Text
        BY <2>2 DEF From, Text
      <3>2. Is(r, {"latest", "module"}) => "installable" \in Seen(r)
        BY <2>1 DEF Is
      <3> QED
        BY <1>2, <1>3, <2>1, <3>1, <3>2, RegistryInv
    <2>3. CASE Standing[Mod(r)] = "hidden" /\ Ends(r, NotThere)
      BY <1>2, <1>3, <2>3, HiddenInv
    <2>4. CASE Goes(r, "row")
      <3>1. "row" \in ReadPc \ {"done", "hosted", "public", "look up", "page", "content"}
        BY DEF ReadPc
      <3> QED
        BY <1>2, <1>3, <2>1, <2>4, <3>1, GoesInv
    <2> QED
      BY <1>6, <2>2, <2>3, <2>4 DEF FindContent
  <1> QED
    BY <1>5, <1>6

\* A zip is waited for, fetched, and sent.
LEMMA ZipInv ==
  ASSUME ReadsInv, NEW r \in Reader, Acquire(r) \/ Download(r) \/ DownloadFails(r) \/ UseZip(r)
  PROVE  ReadsInv'
  <1>1. reader[r].pc \in {"acquire", "download", "reading"} /\ UNCHANGED <<tables, found>>
    BY DEF Acquire, Download, DownloadFails, UseZip, At, caches
  <1>2. Active(r) /\ reader[r].pc \in ReadPc /\ reader[r].pc \in Shown \ {"versions"}
    BY <1>1 DEF Active, ReadPc, Shown
  <1>3. OnShow(Seen(r)) /\ (Is(r, {"latest", "module", "module latest"}) => "installable" \in Seen(r))
    BY <1>2, OnTheWayNow
  <1>4. Mod(r) \in ModPath
    BY <1>2, SeesNow
  <1>5. ASSUME docs' = docs
        PROVE  hosted' = hosted /\ inReview' = inReview /\ found' = found /\ TablesOK'
    BY <1>1, <1>5, DocsChange
  <1>6. ASSUME NEW pc \in {"download", "reading"}, Goes(r, pc), docs' = docs PROVE ReadsInv'
    <2>1. pc \in ReadPc \ {"done", "hosted", "public", "look up", "page", "content"}
      BY DEF ReadPc
    <2> QED
      BY <1>2, <1>3, <1>5, <1>6, <2>1, GoesInv
  <1>7. CASE Acquire(r)
    BY <1>6, <1>7 DEF Acquire, caches
  <1>8. CASE Download(r)
    BY <1>6, <1>8 DEF Download, caches
  <1>9. CASE DownloadFails(r)
    <2>1. CASE Ends(r, Failed) /\ docs' = docs
      <3>1. Failed \in [from : Origin, docs : Text] /\ Failed.from = "error"
        BY AnswersAreWellFormed
      <3>2. WasTrue(reader[r], Failed.from)
        BY <3>1 DEF WasTrue
      <3> QED
        BY <1>2, <1>5, <2>1, <3>1, <3>2, EndsInv
    <2>2. CASE /\ Is(r, {"module"})
               /\ reader' = [reader EXCEPT ![r].pc = "done", ![r].down = TRUE,
                                           ![r].answer = [from |-> "registry", docs |-> "failed"]]
               /\ docs' = [docs EXCEPT ![Mod(r)] = "failed"]
      <3> DEFINE j == [reader[r] EXCEPT !.pc = "done", !.down = TRUE,
                                        !.answer = [from |-> "registry", docs |-> "failed"]]
      <3>1. reader[r] \in Asked /\ Sound(reader[r])
        BY <1>2, ActiveAsked
      <3>2. /\ j \in Asked /\ j.pc = "done" /\ j.kind = reader[r].kind /\ j.answer.from = "registry"
            /\ j.seen = reader[r].seen /\ j.public = reader[r].public /\ j.mod = Mod(r)
        BY <3>1 DEF Asked, ReadPc, Origin, Text, Mod
      <3>3. Onward(r, j)
        BY <1>2, <2>2, <3>1, <3>2 DEF Onward, ReadsInv
      <3> HIDE DEF j
      <3>4. "installable" \in Seen(r)
        BY <1>3, <2>2 DEF Is
      <3>5. Sound(j)
        BY <1>3, <3>1, <3>2, <3>4 DEF Sound, OnTheWay, Searches, WasNotOurs, WasTrue, Shown, Seen
      <3>6. hosted' = hosted /\ inReview' = inReview /\ TablesOK'
        BY <1>1, <1>4, <2>2, DocsChange DEF Text
      <3> QED
        BY <3>3, <3>5, <3>6, OnwardInv
    <2> QED
      BY <1>9, <2>1, <2>2 DEF DownloadFails
  <1>10. CASE UseZip(r)
    <2>1. CASE ShowsModule(r, "made")
      BY <1>1, <1>2, <2>1, ShowsModuleInv DEF Text
    <2>2. CASE Ends(r, From("registry")) /\ docs' = docs
      <3>1. Ends(r, [from |-> "registry", docs |-> NotCached]) /\ NotCached \in Text
        BY <2>2 DEF From, Text
      <3>2. Is(r, {"latest", "module"}) => "installable" \in Seen(r)
        BY <1>3 DEF Is
      <3> QED
        BY <1>2, <1>3, <1>5, <2>2, <3>1, <3>2, RegistryInv
    <2> QED
      BY <1>10, <2>1, <2>2 DEF UseZip
  <1> QED
    BY <1>7, <1>8, <1>9, <1>10

-----------------------------------------------------------------------------
(* Searches.                                                               *)

\* A search asks the index of the registry.
LEMMA SearchHostedInv ==
  ASSUME ReadsInv, NEW r \in Reader, SearchHosted(r)
  PROVE  ReadsInv'
  <1> DEFINE hits == {m \in ModPath : Standing[m] = "installable"}
             j == [reader[r] EXCEPT !.pc = "public", !.hits = hits]
  <1>1. At(r, "hosted") /\ UNCHANGED <<tables, caches, slots>>
    BY DEF SearchHosted
  <1>2. Active(r) /\ reader[r].pc \in ReadPc
    BY <1>1, AtAPlace DEF ReadPc
  <1>3. reader[r] \in Asked /\ Sound(reader[r])
    BY <1>2, ActiveAsked
  <1>4. hits \in SUBSET ModPath
    OBVIOUS
  <1>5. \A m \in ModPath \ hits : WasNotOurs(reader[r], m)
    BY <1>2 DEF ReadsInv, WasNotOurs
  <1>6. reader' = [reader EXCEPT ![r].pc = "public", ![r].hits = hits]
    BY DEF SearchHosted
  <1> HIDE DEF hits
  <1>7. /\ j \in Asked /\ j.pc = "public" /\ j.hits = hits /\ j.kind = reader[r].kind
        /\ j.seen = reader[r].seen /\ j.public = reader[r].public
    BY <1>3, <1>4 DEF Asked, ReadPc
  <1>8. Onward(r, j)
    BY <1>2, <1>3, <1>6, <1>7 DEF Onward, ReadsInv
  <1> HIDE DEF j
  <1>9. Sound(j)
    <2>1. j.kind \in SearchKind
      BY <1>1, <1>3, <1>7 DEF Sound, OnTheWay, At
    <2> QED
      BY <1>3, <1>5, <1>7, <2>1 DEF Sound, OnTheWay, Searches, WasNotOurs, Shown
  <1>10. hosted' = hosted /\ inReview' = inReview /\ TablesOK'
    BY <1>1, TablesStay
  <1> QED
    BY <1>8, <1>9, <1>10, OnwardInv

\* A search asks about modules of the public proxy.
LEMMA SearchPublicInv ==
  ASSUME ReadsInv, NEW r \in Reader, SearchPublic(r)
  PROVE  ReadsInv'
  <1>1. At(r, "public") /\ Is(r, {"search"}) /\ UNCHANGED <<tables, docs, content, slots>>
    BY DEF SearchPublic
  <1>2. Active(r) /\ reader[r].pc \in ReadPc
    BY <1>1, AtAPlace DEF ReadPc
  <1>3. reader[r] \in Asked /\ Sound(reader[r])
    BY <1>2, ActiveAsked
  <1>4. PICK theirs \in SUBSET ModPath :
          /\ reader' = [reader EXCEPT ![r].pc = "done", ![r].answer = From("registry"),
                                      ![r].public = Merge(reader[r].hits, theirs)]
          /\ found' = theirs
    <2>1. PICK theirs \in IF found = NotCached THEN SUBSET OnPkgGoDev ELSE {found} :
            /\ reader' = [reader EXCEPT ![r].pc = "done", ![r].answer = From("registry"),
                                        ![r].public = Merge(reader[r].hits, theirs)]
            /\ found' = theirs
      BY DEF SearchPublic
    <2>2. theirs \in SUBSET ModPath
      BY <2>1 DEF OnPkgGoDev, ReadsInv, TablesOK
    <2> QED
      BY <2>1, <2>2
  <1> DEFINE given == Merge(reader[r].hits, theirs)
             j == [reader[r] EXCEPT !.pc = "done", !.answer = From("registry"), !.public = given]
  <1>5. given \in SUBSET ModPath /\ given \cap reader[r].hits = {}
    BY DEF Merge
  <1> HIDE DEF given
  <1>6. From("registry") \in [from : Origin, docs : Text]
    BY AnswersAreWellFormed DEF Origin
  <1>7. /\ j \in Asked /\ j.pc = "done" /\ j.public = given
        /\ j.seen = reader[r].seen /\ j.kind = reader[r].kind
    BY <1>3, <1>5, <1>6 DEF Asked, ReadPc
  <1>8. Onward(r, j)
    BY <1>2, <1>3, <1>4, <1>7 DEF Onward, ReadsInv, given
  <1> HIDE DEF j
  <1>9. \A m \in given : WasNotOurs(reader[r], m)
    BY <1>1, <1>3, <1>5 DEF At, Is, Sound, Searches
  <1>10. Sound(j)
    BY <1>1, <1>7, <1>9 DEF Sound, OnTheWay, Searches, WasNotOurs, Shown, Is, SearchKind
  <1>11. hosted' = hosted /\ inReview' = inReview /\ TablesOK'
    BY <1>1, <1>4 DEF tables, ReadsInv, TablesOK
  <1> QED
    BY <1>8, <1>10, <1>11, OnwardInv

\* What it found is looked up in the tables, one module after the other.
LEMMA AskIndexInv ==
  ASSUME ReadsInv, NEW r \in Reader, AskIndex(r)
  PROVE  ReadsInv'
  <1>1. At(r, "public") /\ UNCHANGED <<tables, caches, slots>>
    BY DEF AskIndex
  <1>2. Active(r) /\ reader[r].pc \in ReadPc
    BY <1>1, AtAPlace DEF ReadPc
  <1>3. reader[r] \in Asked /\ Sound(reader[r])
    BY <1>2, ActiveAsked
  <1>4. PICK theirs \in SUBSET OnPkgGoDev :
          reader' = [reader EXCEPT ![r].pc = "look up", ![r].left = theirs \ reader[r].hits]
    BY DEF AskIndex
  <1> DEFINE rest == theirs \ reader[r].hits
             j == [reader[r] EXCEPT !.pc = "look up", !.left = rest]
  <1>5. rest \in SUBSET ModPath
    BY DEF OnPkgGoDev
  <1> HIDE DEF rest
  <1>6. /\ j \in Asked /\ j.pc = "look up" /\ j.kind = reader[r].kind
        /\ j.seen = reader[r].seen /\ j.public = reader[r].public
    BY <1>3, <1>5 DEF Asked, ReadPc
  <1>7. Onward(r, j)
    BY <1>2, <1>3, <1>4, <1>6 DEF Onward, ReadsInv, rest
  <1> HIDE DEF j
  <1>8. Sound(j)
    <2>1. j.kind \in SearchKind
      BY <1>1, <1>3, <1>6 DEF Sound, OnTheWay, At
    <2> QED
      BY <1>3, <1>6, <2>1 DEF Sound, OnTheWay, Searches, WasNotOurs, Shown
  <1>9. hosted' = hosted /\ inReview' = inReview /\ TablesOK'
    BY <1>1, TablesStay
  <1> QED
    BY <1>7, <1>8, <1>9, OnwardInv

\* A search ends.
LEMMA SearchEndsInv ==
  ASSUME ReadsInv, NEW r \in Reader, Active(r), reader[r].pc \in ReadPc, Is(r, SearchKind),
         Ends(r, From("registry")), UNCHANGED <<tables, caches, slots>>
  PROVE  ReadsInv'
  <1>1. From("registry") \in [from : Origin, docs : Text]
    BY AnswersAreWellFormed DEF Origin
  <1>2. hosted' = hosted /\ inReview' = inReview /\ TablesOK'
    BY TablesStay
  <1> QED
    BY <1>1, <1>2, EndsInv

\* What is shown as public was looked up, and was not installable then.
LEMMA ShowUnlessHostedInv ==
  ASSUME ReadsInv, NEW r \in Reader, At(r, "look up"), NEW m \in reader[r].left,
         ShowUnlessHosted(r, m), UNCHANGED <<tables, caches, slots>>
  PROVE  ReadsInv'
  <1>1. Active(r) /\ reader[r].pc \in ReadPc
    BY AtAPlace DEF ReadPc
  <1>2. reader[r] \in Asked /\ Sound(reader[r])
    BY <1>1, ActiveAsked
  <1>3. m \in ModPath
    BY <1>2 DEF Asked
  <1> DEFINE rest == reader[r].left \ {m}
             given == IF Standing[m] = "installable" \/ (Standing[m] = "missing" /\ m \in StorePath)
                      THEN reader[r].public ELSE reader[r].public \cup {m}
             j == [reader[r] EXCEPT !.left = rest, !.public = given]
  <1>4. rest \in SUBSET ModPath /\ given \in SUBSET ModPath
    BY <1>2, <1>3 DEF Asked
  <1>5. given \subseteq reader[r].public \/ (given = reader[r].public \cup {m} /\ Standing[m] # "installable")
    OBVIOUS
  <1>6. reader' = [reader EXCEPT ![r].left = rest, ![r].public = given]
    BY <1>2 DEF ShowUnlessHosted, ReadsInv
  <1> HIDE DEF rest, given
  <1>7. /\ j \in Asked /\ j.pc = "look up" /\ j.public = given
        /\ j.seen = reader[r].seen /\ j.kind = reader[r].kind
    BY <1>2, <1>4 DEF Asked, At
  <1>8. Onward(r, j)
    BY <1>1, <1>2, <1>6, <1>7 DEF Onward, ReadsInv
  <1> HIDE DEF j
  <1>9. \A n \in given : WasNotOurs(reader[r], n)
    <2>1. \A n \in reader[r].public : WasNotOurs(reader[r], n)
      BY <1>2 DEF Sound, Searches
    <2>2. Standing[m] # "installable" => WasNotOurs(reader[r], m)
      BY <1>1, <1>3 DEF ReadsInv, WasNotOurs
    <2> QED
      BY <1>5, <2>1, <2>2
  <1>10. Sound(j)
    <2>1. j.kind \in SearchKind
      BY <1>2, <1>7 DEF Sound, OnTheWay, At
    <2> QED
      BY <1>7, <1>9, <2>1 DEF Sound, OnTheWay, Searches, WasNotOurs, Shown
  <1>11. hosted' = hosted /\ inReview' = inReview /\ TablesOK'
    BY TablesStay
  <1> QED
    BY <1>8, <1>10, <1>11, OnwardInv

\* A search goes on.
LEMMA SearchStepInv ==
  ASSUME ReadsInv, NEW r \in Reader, SearchStep(r)
  PROVE  ReadsInv'
  <1>1. CASE PublicSearchFails(r)
    <2>1. Active(r) /\ reader[r].pc \in ReadPc
      BY <1>1, AtAPlace DEF PublicSearchFails, ReadPc
    <2> QED
      BY <1>1, <2>1, SearchEndsInv DEF PublicSearchFails
  <1>2. CASE LookUp(r)
    <2>1. At(r, "look up") /\ UNCHANGED <<tables, caches, slots>>
      BY <1>2 DEF LookUp
    <2>2. Active(r) /\ reader[r].pc \in ReadPc
      BY <2>1, AtAPlace DEF ReadPc
    <2>3. Is(r, SearchKind)
      BY <2>1, <2>2, ActiveAsked DEF Sound, OnTheWay, At, Is
    <2>4. ASSUME NEW m \in reader[r].left, ShowUnlessHosted(r, m) PROVE ReadsInv'
      BY <2>1, <2>4, ShowUnlessHostedInv
    <2>5. Ends(r, From("registry")) => ReadsInv'
      BY <2>1, <2>2, <2>3, SearchEndsInv
    <2> QED
      BY <1>2, <2>4, <2>5 DEF LookUp
  <1> QED
    BY <1>1, <1>2, SearchHostedInv, SearchPublicInv, AskIndexInv DEF SearchStep

\* A request begins by seeing how everything stands.
LEMMA AskInv ==
  ASSUME ReadsInv, NEW r \in Reader, NEW kind \in ReadKind, NEW m \in ModPath, AskForModule(r, kind, m)
  PROVE  ReadsInv'
  <1> DEFINE pc == CASE kind = "page" -> "page" [] kind = "public search" -> "public"
                     [] kind \in SearchKind -> "hosted" [] OTHER -> "source"
             seen == [n \in ModPath |-> {Standing[n]}]
             j == [pc |-> pc, kind |-> kind, mod |-> m, answer |-> NotThere, seen |-> seen,
                   down |-> FALSE, hits |-> {}, public |-> {}, left |-> {}]
  <1>1. reader[r] = NoReader /\ reader' = [reader EXCEPT ![r] = j]
    BY DEF AskForModule
  <1>2. UNCHANGED <<tables, caches, slots>>
    BY DEF AskForModule
  <1>3. /\ pc \in {"page", "public", "hosted", "source"}
        /\ pc = "page" => kind = "page"
        /\ pc \in {"public", "hosted"} => kind \in SearchKind
        /\ pc = "public" => kind \notin {"search", "api search"}
    BY DEF SearchKind
  <1>4. seen \in [ModPath -> SUBSET Sight] /\ \A n \in ModPath : Standing[n] \in seen[n]
    BY StandingIsSight DEF ReadsInv
  <1>5. NotThere \in [from : Origin, docs : Text]
    BY AnswersAreWellFormed
  <1> HIDE DEF pc, seen
  <1>6. /\ j \in Asked /\ j.pc = pc /\ j.kind = kind /\ j.seen = seen /\ j.public = {}
    BY <1>3, <1>4, <1>5 DEF Asked, ReadPc
  <1> HIDE DEF j
  <1>7. Sound(j)
    BY <1>3, <1>6 DEF Sound, OnTheWay, Searches, Shown
  <1>8. /\ reader' \in [Reader -> Asked \cup {NoReader}]
        /\ reader'[r] = j
        /\ \A q \in Reader \ {r} : reader'[q] = reader[q]
    BY <1>1, <1>6 DEF ReadsInv
  <1>9. Standing' = Standing /\ TablesOK'
    BY <1>2 DEF tables, caches, Standing, StandingOf, ReadsInv, TablesOK
  <1>10. \A q \in Reader : reader'[q] # NoReader => Sound(reader'[q])
    BY <1>7, <1>8 DEF ReadsInv
  <1>11. \A q \in Reader : Active(q)' => \A n \in ModPath : Standing[n] \in reader'[q].seen[n]
    BY <1>4, <1>6, <1>8 DEF ReadsInv, Active
  <1> QED
    BY <1>8, <1>9, <1>10, <1>11 DEF ReadsInv

\* To see more of the modules takes nothing from what is sound.
LEMMA SoundStays ==
  ASSUME NEW j \in Asked, NEW k \in Asked, Sound(j), j.pc # "done",
         k = [j EXCEPT !.seen = k.seen], \A m \in ModPath : j.seen[m] \subseteq k.seen[m]
  PROVE  Sound(k)
  <1>1. /\ k.pc = j.pc /\ k.kind = j.kind /\ k.mod = j.mod /\ k.hits = j.hits /\ k.public = j.public
        /\ j.mod \in ModPath /\ j.public \subseteq ModPath
    BY DEF Asked
  <1>2. OnTheWay(k)
    <2>1. j.seen[j.mod] \subseteq k.seen[j.mod]
      BY <1>1
    <2> QED
      BY <1>1, <2>1 DEF Sound, OnTheWay, OnShow
  <1>3. \A m \in ModPath : WasNotOurs(j, m) => WasNotOurs(k, m)
    BY DEF WasNotOurs
  <1>4. Searches(k)
    BY <1>1, <1>3 DEF Sound, Searches
  <1> QED
    BY <1>1, <1>2, <1>4 DEF Sound

\* However modules come to stand, requests that are at work see it.
LEMMA BecomesInv ==
  ASSUME ReadsInv, NEW h \in [OurPath -> Sight \ {"hidden"}], NEW review \in SUBSET OurPath,
         Becomes(h, review)
  PROVE  ReadsInv'
  <1> DEFINE now == StandingOf(h, review)
             more(j) == [j EXCEPT !.seen = [m \in ModPath |-> @[m] \cup {now[m]}]]
  <1>1. /\ hosted' = h /\ inReview' = review /\ UNCHANGED <<docs, content, found>>
    BY DEF Becomes, caches
  <1>2. Standing' = now /\ TablesOK'
    BY <1>1 DEF Standing, ReadsInv, TablesOK
  <1>3. \A m \in ModPath : now[m] \in Sight
    BY DEF StandingOf, Sight
  <1>4. \A q \in Reader : reader'[q] = IF Active(q) THEN more(reader[q]) ELSE reader[q]
    BY DEF Becomes, Active
  <1>5. reader' = [q \in Reader |-> reader'[q]]
    BY DEF Becomes
  <1> HIDE DEF now
  <1>6. ASSUME NEW q \in Reader, Active(q)
        PROVE  /\ reader'[q] \in Asked /\ Sound(reader'[q])
               /\ \A m \in ModPath : now[m] \in reader'[q].seen[m]
    <2>1. reader[q] # NoReader
      BY <1>6 DEF Active, NoReader
    <2>2. reader[q] \in Asked /\ Sound(reader[q]) /\ reader[q].pc # "done"
      BY <1>6, <2>1 DEF ReadsInv, Active
    <2>3. reader'[q] = more(reader[q])
      BY <1>4, <1>6
    <2> DEFINE s == [m \in ModPath |-> reader[q].seen[m] \cup {now[m]}]
    <2>4. reader'[q] = [reader[q] EXCEPT !.seen = s]
      BY <2>2, <2>3 DEF Asked
    <2>5. s \in [ModPath -> SUBSET Sight]
      BY <1>3, <2>2 DEF Asked
    <2>6. \A m \in ModPath : reader[q].seen[m] \subseteq s[m] /\ now[m] \in s[m]
      OBVIOUS
    <2> HIDE DEF s
    <2>7. reader'[q] \in Asked /\ reader'[q].seen = s
      BY <2>2, <2>4, <2>5 DEF Asked
    <2>8. Sound(reader'[q])
      BY <2>2, <2>4, <2>6, <2>7, SoundStays
    <2> QED
      BY <2>6, <2>7, <2>8
  <1>7. reader' \in [Reader -> Asked \cup {NoReader}]
    BY <1>4, <1>5, <1>6 DEF ReadsInv
  <1>8. \A q \in Reader : reader'[q] # NoReader => Sound(reader'[q])
    BY <1>4, <1>6 DEF ReadsInv
  <1>9. \A q \in Reader : Active(q)' => \A m \in ModPath : Standing'[m] \in reader'[q].seen[m]
    <2> SUFFICES ASSUME NEW q \in Reader, Active(q)' PROVE \A m \in ModPath : now[m] \in reader'[q].seen[m]
      BY <1>2
    <2>1. Active(q)
      BY <1>4 DEF Active
    <2> QED
      BY <1>6, <2>1
  <1> QED
    BY <1>2, <1>7, <1>8, <1>9 DEF ReadsInv

\* The invariant holds at first.
LEMMA ReadsInitInv == ReadsInit => ReadsInv
  <1> SUFFICES ASSUME ReadsInit PROVE ReadsInv
    OBVIOUS
  <1>1. TablesOK
    BY DEF ReadsInit, TablesOK, Sight, Text
  <1> QED
    BY <1>1 DEF ReadsInit, ReadsInv, Active, NoReader

\* Every step keeps it.
LEMMA ReadsStep == ReadsInv /\ [ReadsNext]_readsVars => ReadsInv'
  <1> SUFFICES ASSUME ReadsInv, [ReadsNext]_readsVars PROVE ReadsInv'
    OBVIOUS
  <1>1. ASSUME NEW r \in Reader, ModuleStep(r) PROVE ReadsInv'
    BY <1>1, SourceInv, ReadVersionListInv, ReadVersionRowInv, DocsInv, PageInv, ZipInv DEF ModuleStep
  <1>2. ASSUME NEW r \in Reader, ClientLeaves(r) \/ Answered(r) PROVE ReadsInv'
    BY <1>2, OverRead DEF ClientLeaves, Answered, tables, caches
  <1>3. Moderation => ReadsInv'
    <2> SUFFICES ASSUME NEW m \in OurPath,
                        \/ PublishModule(m) \/ YankVersion(m) \/ UnyankVersion(m)
                        \/ QuarantineModule(m) \/ ReleaseModule(m)
                 PROVE  ReadsInv'
      BY DEF Moderation
    <2>1. TablesOK
      BY DEF ReadsInv
    <2>2. ASSUME NEW s \in {"installable", "yanked"}
          PROVE  [hosted EXCEPT ![m] = s] \in [OurPath -> Sight \ {"hidden"}]
      BY <2>1 DEF TablesOK, Sight
    <2>3. ASSUME NEW s \in {"installable", "yanked"}, Becomes([hosted EXCEPT ![m] = s], inReview)
          PROVE  ReadsInv'
      BY <2>1, <2>2, <2>3, BecomesInv DEF TablesOK
    <2>4. ASSUME NEW review \in SUBSET OurPath, Becomes(hosted, review)
          PROVE  ReadsInv'
      BY <2>1, <2>4, BecomesInv DEF TablesOK
    <2> QED
      BY <2>1, <2>3, <2>4 DEF PublishModule, YankVersion, UnyankVersion, QuarantineModule, ReleaseModule,
                              TablesOK
  <1>4. ASSUME docs' \in [ModPath -> Text], found' \in {NotCached} \cup SUBSET ModPath,
               UNCHANGED <<tables, reader>>
        PROVE  ReadsInv'
    BY <1>4 DEF ReadsInv, TablesOK, tables, Standing, StandingOf, Active
  <1>5. ASSUME NEW m \in ModPath, Evict(m) PROVE ReadsInv'
    BY <1>4, <1>5 DEF Evict, ReadsInv, TablesOK, Text
  <1>6. ResultsExpire => ReadsInv'
    BY <1>4 DEF ResultsExpire, ReadsInv, TablesOK
  <1>7. CASE UNCHANGED readsVars
    BY <1>4, <1>7 DEF readsVars, caches, ReadsInv, TablesOK
  <1> QED
    BY <1>1, <1>2, <1>3, <1>5, <1>6, <1>7, SearchStepInv, AskInv DEF ReadsNext, ReadStep

\* Sound answers are what the property says of them.
LEMMA SoundAnswers == ReadsInv => ReadersSeeTheTables
  <1> SUFFICES ASSUME ReadsInv PROVE ReadersSeeTheTables
    OBVIOUS
  <1>1. ASSUME NEW r \in Reader, At(r, "done")
        PROVE  reader[r] \in Asked /\ Sound(reader[r])
    BY <1>1, ActiveAsked DEF At, ReadPc
  <1>2. AnswersWereTrue
    <2> SUFFICES ASSUME NEW r \in Reader, Done(r, ReadKind \ SearchKind)
                 PROVE  LET from == reader[r].answer.from IN
                        /\ from = "registry" => Seen(r) \cap {"installable", "yanked"} # {}
                        /\ from = "registry" /\ Is(r, {"latest", "module"}) => "installable" \in Seen(r)
                        /\ from \in {"store", "public"} => "missing" \in Seen(r)
                        /\ from = "public" => Mod(r) \notin OurPath
                        /\ from = "nowhere" => Seen(r) # {"installable"}
                        /\ from = "nowhere" /\ ~Is(r, {"latest", "module", "module latest"}) =>
                             Seen(r) \cap {"missing", "hidden"} # {}
      BY DEF AnswersWereTrue
    <2>1. WasTrue(reader[r], reader[r].answer.from)
      BY <1>1 DEF Done, Is, At, Sound
    <2> QED
      BY <2>1 DEF WasTrue, Seen, Mod, Is, OnShow
  <1>3. HostedIsNotPublic
    BY <1>1 DEF HostedIsNotPublic, Done, Sound, Searches, WasNotOurs
  <1> QED
    BY <1>2, <1>3 DEF ReadersSeeTheTables

\* What readers are shown was so at some moment of their request, whatever
\* is published, yanked, reviewed and released meanwhile, and whatever the
\* caches held: for any number of requests, of modules and of download slots.
THEOREM ReadersAreToldTheTruth == ReadsSpec => []ReadersSeeTheTables
  BY SoundAnswers, ReadsInitInv, ReadsStep, PTL DEF ReadsSpec

-----------------------------------------------------------------------------
(* The slots for zips.                                                     *)

\* The inductive invariant for the slots of the download limit.
SlotsInv == ReadsInv /\ SlotsAreCounted /\ slots <= MaxOpen

Holders == {r \in Reader : Holding(r)}

\* A step of r that leaves the slots alone, and does not come to a zip.
LEMMA SameHolders ==
  ASSUME SlotsInv, NEW r \in Reader, NEW j, reader' = [reader EXCEPT ![r] = j], slots' = slots,
         j.pc \in {"download", "reading"} <=> Holding(r)
  PROVE  SlotsAreCounted' /\ slots' <= MaxOpen
  <1>1. reader'[r] = j /\ \A q \in Reader \ {r} : reader'[q] = reader[q]
    BY DEF SlotsInv, ReadsInv
  <1>2. \A q \in Reader : Holding(q)' <=> Holding(q)
    BY <1>1 DEF Holding
  <1> QED
    BY <1>2 DEF SlotsInv, SlotsAreCounted

\* The readers that hold a slot can be counted.
LEMMA HoldersFinite ==
  ASSUME SlotsInv
  PROVE  IsFiniteSet(Holders) /\ Cardinality(Holders) \in Nat /\ slots = Cardinality(Holders)
  <1>1. IsFiniteSet(Holders)
    BY ReadsConstants, FS_Subset DEF Holders
  <1> QED
    BY <1>1, FS_CardinalityType DEF SlotsInv, SlotsAreCounted, Holders

\* A reader takes a slot.
LEMMA OneMore ==
  ASSUME SlotsInv, NEW r \in Reader, NEW j, reader' = [reader EXCEPT ![r] = j], slots' = slots + 1,
         slots < MaxOpen, j.pc = "download", ~Holding(r)
  PROVE  SlotsAreCounted' /\ slots' <= MaxOpen
  <1>1. reader'[r] = j /\ \A q \in Reader \ {r} : reader'[q] = reader[q]
    BY DEF SlotsInv, ReadsInv
  <1>2. {q \in Reader : Holding(q)'} = Holders \cup {r}
    BY <1>1 DEF Holding, Holders
  <1>3. r \notin Holders
    BY DEF Holders
  <1>4. Cardinality(Holders \cup {r}) = Cardinality(Holders) + 1
    BY <1>3, HoldersFinite, FS_AddElement
  <1>5. slots' = Cardinality({q \in Reader : Holding(q)'})
    BY <1>2, <1>4, HoldersFinite
  <1>6. slots' <= MaxOpen
    BY HoldersFinite, ReadsConstants
  <1> QED
    BY <1>5, <1>6 DEF SlotsAreCounted

\* A reader gives its slot back.
LEMMA OneLess ==
  ASSUME SlotsInv, NEW r \in Reader, NEW j, reader' = [reader EXCEPT ![r] = j], slots' = slots - 1,
         j.pc \notin {"download", "reading"}, Holding(r)
  PROVE  SlotsAreCounted' /\ slots' <= MaxOpen
  <1>1. reader'[r] = j /\ \A q \in Reader \ {r} : reader'[q] = reader[q]
    BY DEF SlotsInv, ReadsInv
  <1>2. {q \in Reader : Holding(q)'} = Holders \ {r}
    BY <1>1 DEF Holding, Holders
  <1>3. r \in Holders
    BY DEF Holders
  <1>4. Cardinality(Holders \ {r}) = Cardinality(Holders) - 1
    BY <1>3, HoldersFinite, FS_RemoveElement
  <1>5. slots' = Cardinality({q \in Reader : Holding(q)'})
    BY <1>2, <1>4, HoldersFinite
  <1>6. slots' <= MaxOpen
    BY HoldersFinite, ReadsConstants DEF SlotsInv
  <1> QED
    BY <1>5, <1>6 DEF SlotsAreCounted

\* Where a request is, and where it goes on.
Steps(r, pc) ==
  \E j : reader' = [reader EXCEPT ![r] = j] /\ j.pc = pc

\* Each of these steps takes a reader to one place, and changes nobody else.
LEMMA StepsTo ==
  ASSUME ReadsInv, NEW r \in Reader, reader[r].pc \in ReadPc
  PROVE  /\ \A pc : Goes(r, pc) => Steps(r, pc)
         /\ \A told : Ends(r, told) => Steps(r, "done")
         /\ \A text : ShowsModule(r, text) => Steps(r, "done")
  <1>1. reader[r] \in Asked
    BY ActiveAsked
  <1>2. ASSUME NEW pc, Goes(r, pc) PROVE Steps(r, pc)
    <2> DEFINE j == [reader[r] EXCEPT !.pc = pc]
    <2>1. reader' = [reader EXCEPT ![r] = j] /\ j.pc = pc
      BY <1>1, <1>2 DEF Goes, ReadsInv, Asked
    <2> QED
      BY <2>1 DEF Steps
  <1>3. ASSUME NEW told, Ends(r, told) PROVE Steps(r, "done")
    <2> DEFINE j == [reader[r] EXCEPT !.pc = "done", !.answer = told]
    <2>1. reader' = [reader EXCEPT ![r] = j] /\ j.pc = "done"
      BY <1>1, <1>3 DEF Ends, ReadsInv, Asked
    <2> QED
      BY <2>1 DEF Steps
  <1> QED
    BY <1>2, <1>3 DEF ShowsModule, Ends

\* A step from a place without a zip to another one.
LEMMA NoZipStep ==
  ASSUME SlotsInv, NEW r \in Reader, ~Holding(r), NEW pc, pc \notin {"download", "reading"},
         Steps(r, pc), slots' = slots
  PROVE  SlotsAreCounted' /\ slots' <= MaxOpen
  <1>1. PICK j : reader' = [reader EXCEPT ![r] = j] /\ j.pc = pc
    BY DEF Steps
  <1> QED
    BY <1>1, SameHolders

\* No handler but that of a zip comes near the slots.
LEMMA ReadingSlots ==
  ASSUME SlotsInv, NEW r \in Reader,
         \/ Source(r) \/ ReadVersionList(r) \/ ReadVersionRow(r) \/ FindDocs(r) \/ DocsSource(r)
         \/ ReadModule(r) \/ FindContent(r)
  PROVE  SlotsAreCounted' /\ slots' <= MaxOpen
  <1>1. /\ reader[r].pc \in {"source", "versions", "row", "docs", "docs source", "page", "content"}
        /\ slots' = slots
    BY DEF Source, ReadVersionList, ReadVersionRow, FindDocs, DocsSource, ReadModule, FindContent, At
  <1>2. reader[r].pc \in ReadPc /\ ~Holding(r)
    BY <1>1 DEF ReadPc, Holding
  <1>3. reader[r] \in Asked
    BY <1>2, ActiveAsked DEF SlotsInv
  <1>4. /\ \A pc : Goes(r, pc) => Steps(r, pc)
        /\ \A told : Ends(r, told) => Steps(r, "done")
        /\ \A text : ShowsModule(r, text) => Steps(r, "done")
    BY <1>2, StepsTo DEF SlotsInv
  <1>5. \A kind, pc : reader' = [reader EXCEPT ![r].pc = pc, ![r].kind = kind] => Steps(r, pc)
    <2> SUFFICES ASSUME NEW kind, NEW pc, reader' = [reader EXCEPT ![r].pc = pc, ![r].kind = kind]
                 PROVE  Steps(r, pc)
      OBVIOUS
    <2> DEFINE j == [reader[r] EXCEPT !.pc = pc, !.kind = kind]
    <2>1. reader' = [reader EXCEPT ![r] = j] /\ j.pc = pc
      BY <1>3 DEF Asked, SlotsInv, ReadsInv
    <2> QED
      BY <2>1 DEF Steps
  <1>6. \E pc : pc \notin {"download", "reading"} /\ Steps(r, pc)
    <2>1. CASE Source(r)
      BY <1>4, <2>1 DEF Source, AfterSource
    <2>2. CASE ReadVersionList(r)
      BY <1>4, <1>5, <2>2 DEF ReadVersionList
    <2>3. CASE ReadVersionRow(r)
      BY <1>4, <1>5, <2>3 DEF ReadVersionRow, WithoutZip
    <2>4. CASE FindDocs(r) \/ DocsSource(r) \/ ReadModule(r) \/ FindContent(r)
      BY <1>4, <2>4 DEF FindDocs, DocsSource, ReadModule, FindContent
    <2> QED
      BY <2>1, <2>2, <2>3, <2>4
  <1> QED
    BY <1>1, <1>2, <1>6, NoZipStep

\* A zip takes a slot when there is one, and gives it back however it ends.
LEMMA ZipSlots ==
  ASSUME SlotsInv, NEW r \in Reader, Acquire(r) \/ Download(r) \/ DownloadFails(r) \/ UseZip(r)
  PROVE  SlotsAreCounted' /\ slots' <= MaxOpen
  <1>1. reader[r].pc \in {"acquire", "download", "reading"}
    BY DEF Acquire, Download, DownloadFails, UseZip, At
  <1>2. reader[r].pc \in ReadPc
    BY <1>1 DEF ReadPc
  <1>3. reader[r] \in Asked
    BY <1>2, ActiveAsked DEF SlotsInv
  <1>4. /\ \A pc : Goes(r, pc) => Steps(r, pc)
        /\ \A told : Ends(r, told) => Steps(r, "done")
        /\ \A text : ShowsModule(r, text) => Steps(r, "done")
    BY <1>2, StepsTo DEF SlotsInv
  <1>5. CASE Acquire(r)
    <2>1. PICK j : reader' = [reader EXCEPT ![r] = j] /\ j.pc = "download"
      BY <1>4, <1>5 DEF Acquire, Steps
    <2> QED
      BY <1>5, <2>1, OneMore DEF Acquire, At, Holding
  <1>6. CASE Download(r)
    <2>1. PICK j : reader' = [reader EXCEPT ![r] = j] /\ j.pc = "reading"
      BY <1>4, <1>6 DEF Download, Steps
    <2> QED
      BY <1>6, <2>1, SameHolders DEF Download, At, Holding
  <1>7. ASSUME Holding(r), slots' = slots - 1, Steps(r, "done")
        PROVE  SlotsAreCounted' /\ slots' <= MaxOpen
    <2>1. PICK j : reader' = [reader EXCEPT ![r] = j] /\ j.pc = "done"
      BY <1>7 DEF Steps
    <2> QED
      BY <1>7, <2>1, OneLess
  <1>8. CASE DownloadFails(r)
    <2>1. CASE Ends(r, Failed)
      BY <1>4, <1>7, <1>8, <2>1 DEF DownloadFails, At, Holding
    <2>2. CASE reader' = [reader EXCEPT ![r].pc = "done", ![r].down = TRUE,
                                        ![r].answer = [from |-> "registry", docs |-> "failed"]]
      <3> DEFINE j == [reader[r] EXCEPT !.pc = "done", !.down = TRUE,
                                        !.answer = [from |-> "registry", docs |-> "failed"]]
      <3>1. reader' = [reader EXCEPT ![r] = j] /\ j.pc = "done"
        BY <1>3, <2>2 DEF Asked, SlotsInv, ReadsInv
      <3>2. Steps(r, "done")
        BY <3>1 DEF Steps
      <3> QED
        BY <1>7, <1>8, <3>2 DEF DownloadFails, At, Holding
    <2> QED
      BY <1>8, <2>1, <2>2 DEF DownloadFails
  <1>9. CASE UseZip(r)
    BY <1>4, <1>7, <1>9 DEF UseZip, Close, At, Holding
  <1> QED
    BY <1>5, <1>6, <1>8, <1>9

\* No search comes near them.
LEMMA SearchSlots ==
  ASSUME SlotsInv, NEW r \in Reader, SearchStep(r)
  PROVE  SlotsAreCounted' /\ slots' <= MaxOpen
  <1>1. reader[r].pc \in {"hosted", "public", "look up"} /\ slots' = slots
    BY DEF SearchStep, SearchHosted, SearchPublic, PublicSearchFails, AskIndex, LookUp, At
  <1>2. reader[r].pc \in ReadPc /\ ~Holding(r)
    BY <1>1 DEF ReadPc, Holding
  <1>3. reader[r] \in Asked
    BY <1>2, ActiveAsked DEF SlotsInv
  <1>4. reader'[r].pc \in {"public", "look up", "done"} /\ reader' = [reader EXCEPT ![r] = reader'[r]]
    <2>0. reader = [q \in Reader |-> reader[q]]
      BY DEF SlotsInv, ReadsInv
    <2>1. CASE SearchHosted(r)
      BY <1>3, <2>0, <2>1 DEF SearchHosted, Asked
    <2>2. CASE SearchPublic(r)
      <3>1. PICK theirs : reader' = [reader EXCEPT ![r].pc = "done", ![r].answer = From("registry"),
                                                   ![r].public = theirs]
        BY <2>2 DEF SearchPublic
      <3> QED
        BY <1>3, <2>0, <3>1 DEF Asked
    <2>3. CASE PublicSearchFails(r)
      BY <1>3, <2>0, <2>3 DEF PublicSearchFails, Ends, Asked
    <2>4. CASE AskIndex(r)
      <3>1. PICK rest : reader' = [reader EXCEPT ![r].pc = "look up", ![r].left = rest]
        BY <2>4 DEF AskIndex
      <3> QED
        BY <1>3, <2>0, <3>1 DEF Asked
    <2>5. CASE LookUp(r)
      <3>1. CASE Ends(r, From("registry"))
        BY <1>3, <2>0, <3>1 DEF Ends, Asked
      <3>2. CASE \E m \in reader[r].left : ShowUnlessHosted(r, m)
        <4>1. PICK rest, theirs : reader' = [reader EXCEPT ![r].left = rest, ![r].public = theirs]
          BY <1>3, <2>0, <3>2 DEF ShowUnlessHosted, Asked
        <4>2. reader[r].pc = "look up"
          BY <2>5 DEF LookUp, At
        <4> QED
          BY <1>3, <2>0, <4>1, <4>2 DEF Asked
      <3> QED
        BY <2>5, <3>1, <3>2 DEF LookUp
    <2> QED
      BY <2>1, <2>2, <2>3, <2>4, <2>5 DEF SearchStep
  <1>5. Steps(r, reader'[r].pc)
    BY <1>4 DEF Steps
  <1> QED
    BY <1>1, <1>2, <1>4, <1>5, NoZipStep

\* Every step keeps their count.
LEMMA SlotsStep == SlotsInv /\ [ReadsNext]_readsVars => SlotsInv'
  <1> SUFFICES ASSUME SlotsInv, [ReadsNext]_readsVars PROVE SlotsAreCounted' /\ slots' <= MaxOpen
    BY ReadsStep DEF SlotsInv
  <1>1. ASSUME NEW r \in Reader, ReadStep(r) PROVE SlotsAreCounted' /\ slots' <= MaxOpen
    BY <1>1, ReadingSlots, ZipSlots, SearchSlots DEF ReadStep, ModuleStep
  <1>2. ASSUME NEW r \in Reader, NEW kind, NEW m, AskForModule(r, kind, m)
        PROVE  SlotsAreCounted' /\ slots' <= MaxOpen
    <2>1. ~Holding(r) /\ slots' = slots
      <3>1. reader[r] = NoReader /\ slots' = slots
        BY <1>2 DEF AskForModule
      <3>2. NoReader.pc = "idle"
        BY DEF NoReader
      <3> QED
        BY <3>1, <3>2 DEF Holding
    <2>2. Steps(r, reader'[r].pc) /\ reader'[r].pc \notin {"download", "reading"}
      <3> DEFINE pc == CASE kind = "page" -> "page" [] kind = "public search" -> "public"
                         [] kind \in SearchKind -> "hosted" [] OTHER -> "source"
                 j == [pc |-> pc, kind |-> kind, mod |-> m, answer |-> NotThere,
                       seen |-> [n \in ModPath |-> {Standing[n]}],
                       down |-> FALSE, hits |-> {}, public |-> {}, left |-> {}]
      <3>1. reader' = [reader EXCEPT ![r] = j]
        BY <1>2 DEF AskForModule
      <3>2. reader'[r] = j
        BY <3>1 DEF SlotsInv, ReadsInv
      <3>3. pc \notin {"download", "reading"}
        OBVIOUS
      <3>4. j.pc = pc
        OBVIOUS
      <3> HIDE DEF pc, j
      <3> QED
        BY <3>1, <3>2, <3>3, <3>4 DEF Steps
    <2> QED
      BY <2>1, <2>2, NoZipStep
  <1>3. ASSUME NEW r \in Reader, ClientLeaves(r) PROVE SlotsAreCounted' /\ slots' <= MaxOpen
    <2>1. NoReader.pc = "idle"
      BY DEF NoReader
    <2>2. CASE Holding(r)
      BY <1>3, <2>1, <2>2, OneLess DEF ClientLeaves
    <2>3. CASE ~Holding(r)
      BY <1>3, <2>1, <2>3, SameHolders DEF ClientLeaves
    <2> QED
      BY <2>2, <2>3
  <1>4. ASSUME NEW r \in Reader, Answered(r) PROVE SlotsAreCounted' /\ slots' <= MaxOpen
    <2>1. NoReader.pc = "idle"
      BY DEF NoReader
    <2> QED
      BY <1>4, <2>1, SameHolders DEF Answered, At, Holding
  <1>5. ASSUME slots' = slots, \A q \in Reader : reader'[q].pc = reader[q].pc
        PROVE  SlotsAreCounted' /\ slots' <= MaxOpen
    BY <1>5 DEF SlotsInv, SlotsAreCounted, Holding
  <1>6. ASSUME NEW h, NEW review, Becomes(h, review) PROVE SlotsAreCounted' /\ slots' <= MaxOpen
    <2>1. slots' = slots
      BY <1>6 DEF Becomes
    <2>2. ASSUME NEW q \in Reader PROVE reader'[q].pc = reader[q].pc
      <3>1. CASE reader[q].pc \in {"idle", "done"}
        BY <1>6, <3>1 DEF Becomes
      <3>2. CASE reader[q].pc \notin {"idle", "done"}
        <4>1. reader[q] # NoReader
          BY <3>2 DEF NoReader
        <4>2. reader[q] \in Asked
          BY <4>1 DEF SlotsInv, ReadsInv
        <4>3. \A s : [reader[q] EXCEPT !.seen = s].pc = reader[q].pc
          BY <4>2 DEF Asked
        <4> QED
          BY <1>6, <3>2, <4>2, <4>3 DEF Becomes, Asked
      <3> QED
        BY <3>1, <3>2
    <2> QED
      BY <1>5, <2>1, <2>2
  <1>7. Moderation => SlotsAreCounted' /\ slots' <= MaxOpen
    BY <1>6 DEF Moderation, PublishModule, YankVersion, UnyankVersion, QuarantineModule, ReleaseModule
  <1>8. ASSUME NEW m \in ModPath, Evict(m) PROVE SlotsAreCounted' /\ slots' <= MaxOpen
    BY <1>5, <1>8 DEF Evict
  <1>9. ResultsExpire => SlotsAreCounted' /\ slots' <= MaxOpen
    BY <1>5 DEF ResultsExpire
  <1>10. CASE UNCHANGED readsVars
    BY <1>5, <1>10 DEF readsVars
  <1> QED
    BY <1>1, <1>2, <1>3, <1>4, <1>7, <1>8, <1>9, <1>10 DEF ReadsNext

\* At first all of them are free.
LEMMA SlotsInit == ReadsInit => SlotsInv
  <1> SUFFICES ASSUME ReadsInit PROVE SlotsAreCounted /\ slots <= MaxOpen
    BY ReadsInitInv DEF SlotsInv
  <1>1. {r \in Reader : Holding(r)} = {}
    BY DEF ReadsInit, Holding, NoReader
  <1>2. Cardinality({}) = 0
    BY FS_EmptySet
  <1> QED
    BY <1>1, <1>2, ReadsConstants DEF ReadsInit, SlotsAreCounted

\* The slots taken are those of the requests that hold a zip, and no more
\* than there are: whoever fails, or is left, gives its slot back.
THEOREM SlotsAreReturned == ReadsSpec => [](SlotsAreCounted /\ slots <= MaxOpen)
  <1>1. SlotsInv => SlotsAreCounted /\ slots <= MaxOpen
    BY DEF SlotsInv
  <1> QED
    BY <1>1, SlotsInit, SlotsStep, PTL DEF ReadsSpec

\* What was made from a zip is kept of modules somebody asks for, and no more
\* slots are taken than there are.
ReadsTypes == SlotsInv /\ content \in [ModPath -> {NotCached, "made"}]

\* Every step keeps the types.
LEMMA ReadsTypesStep == ReadsTypes /\ [ReadsNext]_readsVars => ReadsTypes'
  <1> SUFFICES ASSUME ReadsTypes, [ReadsNext]_readsVars PROVE ReadsTypes'
    OBVIOUS
  <1>1. SlotsInv' /\ content \in [ModPath -> {NotCached, "made"}]
    BY SlotsStep DEF ReadsTypes
  <1>2. content' = content \/ \E m : content' = [content EXCEPT ![m] = "made"] \/ content' = [content EXCEPT ![m] = NotCached]
    BY DEF ReadsNext, ReadStep, ModuleStep, SearchStep, Moderation, AskForModule, ClientLeaves, Answered, Source,
           ReadVersionList, ReadVersionRow, FindDocs, DocsSource, ReadModule, FindContent, Acquire, Download,
           DownloadFails, UseZip, SearchHosted, SearchPublic, PublicSearchFails, AskIndex, LookUp, Becomes,
           PublishModule, YankVersion, UnyankVersion, QuarantineModule, ReleaseModule, Evict, ResultsExpire,
           caches, readsVars
  <1> QED
    BY <1>1, <1>2 DEF ReadsTypes

\* They hold at first.
LEMMA ReadsTypesInit == ReadsInit => ReadsTypes
  <1> SUFFICES ASSUME ReadsInit PROVE ReadsTypes
    OBVIOUS
  <1> QED
    BY SlotsInit DEF ReadsInit, ReadsTypes

\* They are what the types say: holders can be counted.
LEMMA ReadsTypesHold == ReadsTypes => ReadsTypeOK
  <1> SUFFICES ASSUME ReadsTypes PROVE ReadsTypeOK
    OBVIOUS
  <1>1. slots \in Nat /\ slots <= MaxOpen /\ MaxOpen \in Nat
    <2>1. IsFiniteSet(Holders) /\ slots = Cardinality(Holders) /\ slots <= MaxOpen
      BY HoldersFinite DEF ReadsTypes, SlotsInv, SlotsAreCounted, Holders
    <2> QED
      BY <2>1, FS_CardinalityType, ReadsConstants
  <1> QED
    BY <1>1 DEF ReadsTypes, SlotsInv, ReadsInv, TablesOK, Text, ReadsTypeOK

-----------------------------------------------------------------------------
(* Pages of a search.                                                      *)

\* How far a list is skipped over.
SkippedOver(n, offset) == IF offset >= n THEN offset - n ELSE 0

CutsMeet(a, b, o, l) == Cut(a \o b, o, l) = Cut(a, o, l) \o Cut(b, SkippedOver(Len(a), o), l - Len(Cut(a, o, l)))

\* A page that is cut from a list, and from what follows it, is cut from both.
LEMMA CutJoined ==
  ASSUME NEW S, NEW a \in Seq(S), NEW b \in Seq(S), NEW o \in Nat, NEW l \in Nat
  PROVE  CutsMeet(a, b, o, l)
  <1> DEFINE n == Len(a)
             m == Len(b)
             k == SkippedOver(n, o)
             h == CutLength(n, o, l)
             t == CutLength(m, k, l - h)
             g == CutLength(n + m, o, l)
             ab == a \o b
             front == Cut(a, o, l)
             back == Cut(b, k, l - h)
             whole == front \o back
             both == Cut(ab, o, l)
  <1>1. n \in Nat /\ m \in Nat
    OBVIOUS
  <1>2. /\ h \in Nat /\ k \in Nat /\ l - h \in Nat /\ t \in Nat /\ g = h + t
        /\ h > 0 => o + h <= n
        /\ t > 0 => k + t <= m /\ o + h = n + k
    <2> HIDE DEF n, m
    <2> QED
      BY <1>1 DEF CutLength, SkippedOver, Least
  <1> HIDE DEF h, k, t, g
  <1>3. ab \in Seq(S) /\ Len(ab) = n + m /\ (\A i \in 1..n : ab[i] = a[i]) /\ \A i \in 1..m : ab[n + i] = b[i]
    BY Joined
  <1> HIDE DEF ab
  <1>4. front \in Seq(S) /\ Len(front) = h /\ \A i \in 1..h : front[i] = a[o + i]
    <2>1. CutShows(S, a, o, l)
      BY CutIs
    <2> QED
      BY <2>1, Zenon DEF CutShows, h
  <1> HIDE DEF front
  <1>5. back \in Seq(S) /\ Len(back) = t /\ \A i \in 1..t : back[i] = b[k + i]
    <2>1. l - h \in Nat
      BY <1>2
    <2>2. k \in Nat
      BY <1>2
    <2>3. CutShows(S, b, k, l - h)
      BY <2>1, <2>2, CutIs
    <2> QED
      BY <2>3, Zenon DEF CutShows, t
  <1> HIDE DEF back, n, m
  <1>6. both \in Seq(S) /\ Len(both) = g /\ \A i \in 1..g : both[i] = ab[o + i]
    <2>1. CutLength(Len(ab), o, l) = g
      BY <1>3 DEF g
    <2>2. ab \in Seq(S)
      BY <1>3
    <2>3. CutShows(S, ab, o, l)
      BY <2>2, CutIs
    <2> QED
      BY <2>1, <2>3, Zenon DEF CutShows
  <1>7. whole \in Seq(S) /\ Len(whole) = Len(front) + Len(back)
        /\ (\A i \in 1..Len(front) : whole[i] = front[i]) /\ \A i \in 1..Len(back) : whole[Len(front) + i] = back[i]
    <2>1. front \in Seq(S) /\ back \in Seq(S)
      BY <1>4, <1>5
    <2> QED
      BY <2>1, Joined
  <1> HIDE DEF whole, both
  <1>8. Len(whole) = h + t /\ (\A i \in 1..h : whole[i] = front[i]) /\ \A i \in 1..t : whole[h + i] = back[i]
    BY <1>4, <1>5, <1>7, Zenon
  <1>9. \A i \in 1..(h + t) : both[i] = whole[i]
    <2>1. \A i \in 1..(h + t) : both[i] = ab[o + i]
      BY <1>2, <1>6, Zenon
    <2>2. ASSUME NEW i \in 1..(h + t) PROVE both[i] = whole[i]
      <3>1. CASE i <= h
        <4>1. i \in 1..h /\ o + i \in 1..n
          BY <1>1, <1>2, <3>1
        <4>2. both[i] = ab[o + i] /\ ab[o + i] = a[o + i] /\ front[i] = a[o + i] /\ whole[i] = front[i]
          BY <1>3, <1>4, <1>8, <2>1, <4>1
        <4> QED
          BY <4>2
      <3>2. CASE i > h
        <4> PICK j : j = i - h
          OBVIOUS
        <4>1. j \in 1..t /\ i = h + j
          BY <1>2, <3>2
        <4>2. k + j \in 1..m /\ o + i = n + (k + j)
          BY <1>1, <1>2, <4>1
        <4>3. both[i] = ab[o + i] /\ ab[n + (k + j)] = b[k + j] /\ back[j] = b[k + j] /\ whole[h + j] = back[j]
          BY <1>3, <1>5, <1>8, <2>1, <4>1, <4>2
        <4> QED
          BY <4>1, <4>2, <4>3
      <3> QED
        BY <1>2, <3>1, <3>2
    <2> QED
      BY <2>2
  <1>10. both = whole
    <2>1. Len(both) = Len(whole) /\ Len(both) = h + t
      BY <1>2, <1>6, <1>8
    <2> QED
      BY <1>6, <1>7, <1>9, <2>1, SameList
  <1> QED
    BY <1>4, <1>10 DEF both, whole, ab, front, back, k, n, CutsMeet

\* A tier in its order.
LEMMA InOrderIs ==
  ASSUME NEW tier \in SUBSET Nat, IsFiniteSet(tier)
  PROVE  /\ InOrder(tier) \in Seq(tier) /\ Cardinality(tier) \in Nat /\ Len(InOrder(tier)) = Cardinality(tier)
         /\ \A i, j \in 1..Cardinality(tier) : i < j => InOrder(tier)[i] < InOrder(tier)[j]
         /\ \A m \in tier : \E i \in 1..Cardinality(tier) : InOrder(tier)[i] = m
  <1> DEFINE order == {mn \in tier \X tier : mn[1] < mn[2]}
             n == Cardinality(tier)
  <1>1. \A x, y \in tier : <<x, y>> \in order <=> x < y
    OBVIOUS
  <1>2. InOrder(tier) = Sorted(tier, order)
    BY DEF InOrder
  <1> HIDE DEF order
  <1>3. Orders(order, tier)
    BY <1>1 DEF Orders
  <1> PICK s : s = Sorted(tier, order)
    OBVIOUS
  <1>4. /\ n \in Nat
        /\ s \in [1..n -> tier]
        /\ \A i, j \in 1..n : i < j => <<s[i], s[j]>> \in order
        /\ \A x \in tier : \E i \in 1..n : s[i] = x
    BY <1>3, SortedIs
  <1> HIDE DEF n
  <1>5. s \in Seq(tier) /\ Len(s) = n
    BY <1>4
  <1>6. \A i, j \in 1..n : i < j => s[i] < s[j]
    BY <1>1, <1>4
  <1> QED
    BY <1>2, <1>4, <1>5, <1>6 DEF n

\* What has been found of a page when the list so far is "all".
PageOf(all, offset, limit) == [hits |-> Cut(all, offset, limit), skip |-> SkippedOver(Len(all), offset)]

\* A tier adds to the page what it adds to the list.
LEMMA TierIsCut ==
  ASSUME NEW a \in Seq(Nat), NEW tier \in SUBSET Nat, IsFiniteSet(tier), NEW o \in Nat, NEW l \in Nat \ {0}
  PROVE  SearchTier(PageOf(a, o, l), tier, l) = PageOf(a \o InOrder(tier), o, l)
  <1> PICK b : b = InOrder(tier)
    OBVIOUS
  <1> PICK n, m : n = Len(a) /\ m = Cardinality(tier)
    OBVIOUS
  <1>1. n \in Nat /\ m \in Nat /\ b \in Seq(Nat) /\ Len(b) = m
    <2>1. b \in Seq(tier) /\ m \in Nat /\ Len(b) = m
      BY InOrderIs
    <2>2. b \in Seq(Nat)
      BY <2>1, ListOfMore
    <2> QED
      BY <2>1, <2>2
  <1> PICK k : k = SkippedOver(n, o)
    OBVIOUS
  <1> PICK front : front = Cut(a, o, l)
    OBVIOUS
  <1> PICK h : h = CutLength(n, o, l)
    OBVIOUS
  <1>2. front \in Seq(Nat) /\ Len(front) = h
    <2>1. l \in Nat
      OBVIOUS
    <2>2. CutShows(Nat, a, o, l)
      BY <2>1, CutIs
    <2> QED
      BY <2>2 DEF CutShows
  <1> PICK ab : ab = a \o b
    OBVIOUS
  <1>3. ab \in Seq(Nat) /\ Len(ab) = n + m
    BY <1>1, Joined
  <1>4. Cut(ab, o, l) = front \o Cut(b, k, l - h)
    <2>1. CutsMeet(a, b, o, l)
      <3>1. b \in Seq(Nat) /\ l \in Nat
        BY <1>1
      <3> QED
        BY <3>1, CutJoined
    <2> QED
      BY <1>2, <2>1 DEF CutsMeet
  <1>5. k \in Nat /\ h \in 0..l /\ (h = l => o + l <= n /\ k = 0) /\ (k > 0 => h = 0 /\ o = n + k) /\ (k = 0 => o <= n)
    BY <1>1 DEF SkippedOver, CutLength, Least
  <1> PICK page : page = PageOf(a, o, l)
    OBVIOUS
  <1>6. page = [hits |-> front, skip |-> k]
    BY DEF PageOf
  <1>7. \A j \in Nat, r \in Nat : CutLength(m, j, r) = 0 => front \o Cut(b, j, r) = front
    <2> SUFFICES ASSUME NEW j \in Nat, NEW r \in Nat, CutLength(m, j, r) = 0 PROVE front \o Cut(b, j, r) = front
      OBVIOUS
    <2>1. Cut(b, j, r) \in Seq(Nat) /\ Len(Cut(b, j, r)) = 0
      <3>1. CutLength(Len(b), j, r) = 0
        BY <1>1
      <3>2. b \in Seq(Nat)
        BY <1>1
      <3>3. CutShows(Nat, b, j, r)
        BY <3>2, CutIs
      <3> QED
        BY <3>1, <3>3, Zenon DEF CutShows
    <2>2. Cut(b, j, r) = <<>>
      BY <2>1
    <2> QED
      BY <1>2, <2>2
  <1>8. CASE h = l
    <2>1. SearchTier(page, tier, l) = page
      BY <1>2, <1>6, <1>8 DEF SearchTier
    <2>2. CutLength(m, k, l - h) = 0 /\ l - h \in Nat
      BY <1>1, <1>5, <1>8 DEF CutLength, Least
    <2>3. Cut(ab, o, l) = front
      BY <1>4, <1>5, <1>7, <2>2
    <2>4. SkippedOver(n + m, o) = k
      BY <1>1, <1>5, <1>8 DEF SkippedOver
    <2> QED
      BY <1>3, <1>6, <2>1, <2>3, <2>4 DEF PageOf
  <1>9. CASE h # l /\ k > 0 /\ k >= m
    <2>1. SearchTier(page, tier, l) = [hits |-> front, skip |-> k - m]
      BY <1>2, <1>6, <1>9 DEF SearchTier, Skipped
    <2>2. CutLength(m, k, l - h) = 0 /\ l - h \in Nat
      BY <1>1, <1>5, <1>9 DEF CutLength, Least
    <2>3. Cut(ab, o, l) = front
      BY <1>4, <1>5, <1>7, <2>2
    <2>4. SkippedOver(n + m, o) = k - m
      BY <1>1, <1>5, <1>9 DEF SkippedOver
    <2> QED
      BY <1>3, <2>1, <2>3, <2>4 DEF PageOf
  <1>10. CASE h # l /\ ~(k > 0 /\ k >= m)
    <2> PICK more : more = SubSeq(b, k + 1, Min({k + (l - h), m}))
      OBVIOUS
    <2>1. SearchTier(page, tier, l) = [hits |-> front \o more, skip |-> 0]
      <3>1. page.hits = front /\ page.skip = k /\ Len(page.hits) # l /\ ~Skipped(page.skip, tier)
        BY <1>2, <1>6, <1>10 DEF Skipped
      <3>2. SearchTier(page, tier, l) =
              [hits |-> front \o SubSeq(b, k + 1, Min({k + (l - Len(front)), m})), skip |-> 0]
        BY <3>1, Zenon DEF SearchTier, FromItsStart
      <3> QED
        BY <1>2, <3>2
    <2>2. Min({k + (l - h), m}) = Least(k + (l - h), m)
      <3>1. k + (l - h) \in Nat /\ m \in Nat
        BY <1>1, <1>5
      <3> QED
        BY <3>1, LeastIsMin
    <2>3. more = Cut(b, k, l - h)
      BY <1>1, <2>2 DEF Cut
    <2>4. SkippedOver(n + m, o) = 0
      BY <1>1, <1>5, <1>10 DEF SkippedOver
    <2> QED
      BY <1>3, <1>4, <2>1, <2>3, <2>4 DEF PageOf
  <1> QED
    BY <1>8, <1>9, <1>10

\* Everything that is found, in the order of a search.
TwoTiers == InOrder(Named) \o InOrder(Summarized)
AllTiers == TwoTiers \o InOrder(Elsewhere)

\* What visitors may ask for.
Searched ==
  /\ document \in [Ranked -> Document] /\ filtered \in SUBSET Ranked /\ query \in SUBSET Word \ {{}}
  /\ perPage \in Nat \ {0} /\ pageNumber \in Nat \ {0}

\* The tiers can be counted, and are apart.
LEMMA TiersAre ==
  ASSUME Searched
  PROVE  /\ Found \in SUBSET Nat /\ IsFiniteSet(Found)
         /\ \A tier \in {Named, Summarized, Elsewhere} : tier \in SUBSET Nat /\ IsFiniteSet(tier) /\ tier \subseteq Found
         /\ Named \cap Summarized = {} /\ (Named \cup Summarized) \cap Elsewhere = {}
         /\ \A m \in Named : Place(m) = 1
         /\ \A m \in Summarized : Place(m) = 2
         /\ \A m \in Elsewhere : Place(m) = 3
  <1>1. Found \in SUBSET Ranked /\ \A tier \in {Named, Summarized, Elsewhere} : tier \subseteq Found
    BY DEF Found, Named, Summarized, Elsewhere, Searched
  <1>2. Found \in SUBSET Nat /\ IsFiniteSet(Found)
    BY <1>1, SearchPagesConstants, FS_Subset
  <1>3. \A tier \in {Named, Summarized, Elsewhere} : tier \in SUBSET Nat /\ IsFiniteSet(tier)
    BY <1>1, <1>2, FS_Subset
  <1>4. \A m \in Found : /\ WordsOf(m, {"named"}) = document[m].named
                         /\ WordsOf(m, {"synopsis"}) = document[m].synopsis
                         /\ WordsOf(m, {"named", "synopsis"}) = document[m].named \cup document[m].synopsis
    BY DEF WordsOf
  <1>5. \A m \in Named : query \subseteq document[m].named
    BY <1>1, <1>4 DEF Named, Matches
  <1>6. \A m \in Summarized : query \subseteq document[m].synopsis /\ ~(query \subseteq document[m].named)
    BY <1>1, <1>4 DEF Summarized, Matches
  <1>7. \A m \in Elsewhere : ~(query \subseteq document[m].named \cup document[m].synopsis)
    BY <1>1, <1>4 DEF Elsewhere, Matches
  <1>8. \A m \in Named : Place(m) = 1
    BY <1>5 DEF Place
  <1>9. \A m \in Summarized : Place(m) = 2
    BY <1>6 DEF Place
  <1>10. \A m \in Elsewhere : Place(m) = 3
    <2> SUFFICES ASSUME NEW m \in Elsewhere PROVE Place(m) = 3
      OBVIOUS
    <2>1. ~(query \subseteq document[m].named) /\ ~(query \subseteq document[m].synopsis)
      BY <1>7
    <2> QED
      BY <2>1 DEF Place
  <1>11. Named \cap Summarized = {} /\ (Named \cup Summarized) \cap Elsewhere = {}
    BY <1>5, <1>6, <1>7
  <1> QED
    BY <1>1, <1>2, <1>3, <1>8, <1>9, <1>10, <1>11

\* The whole list.
LEMMA AllTiersIs ==
  ASSUME Searched
  PROVE  /\ InOrder(Named) \in Seq(Nat) /\ InOrder(Summarized) \in Seq(Nat) /\ InOrder(Elsewhere) \in Seq(Nat)
         /\ TwoTiers \in Seq(Nat) /\ AllTiers \in Seq(Nat)
  <1>1. \A tier \in {Named, Summarized, Elsewhere} : InOrder(tier) \in Seq(Nat)
    <2> SUFFICES ASSUME NEW tier \in {Named, Summarized, Elsewhere} PROVE InOrder(tier) \in Seq(Nat)
      OBVIOUS
    <2>1. tier \in SUBSET Nat /\ IsFiniteSet(tier)
      BY TiersAre
    <2>2. InOrder(tier) \in Seq(tier) /\ tier \subseteq Nat
      BY <2>1, InOrderIs
    <2> QED
      BY <2>2, ListOfMore
  <1> PICK a, b, c : a = InOrder(Named) /\ b = InOrder(Summarized) /\ c = InOrder(Elsewhere)
    OBVIOUS
  <1>2. a \in Seq(Nat) /\ b \in Seq(Nat) /\ c \in Seq(Nat)
    BY <1>1
  <1>3. a \o b \in Seq(Nat) /\ (a \o b) \o c \in Seq(Nat)
    BY <1>2
  <1> QED
    BY <1>2, <1>3 DEF TwoTiers, AllTiers

\* A page of the search is cut from the list.
LEMMA SearchIsCut ==
  ASSUME Searched, NEW o \in Nat, NEW l \in Nat \ {0}
  PROVE  Search(l, o) = Cut(AllTiers, o, l)
  <1> PICK none : none = [hits |-> <<>>, skip |-> o]
    OBVIOUS
  <1>1. none = PageOf(<<>>, o, l)
    <2>1. <<>> \in Seq(Nat) /\ Len(<<>>) = 0
      OBVIOUS
    <2>2. CutLength(0, o, l) = 0 /\ SkippedOver(0, o) = o
      BY DEF CutLength, SkippedOver
    <2>3. Cut(<<>>, o, l) \in Seq(Nat) /\ Len(Cut(<<>>, o, l)) = 0
      <3>1. l \in Nat
        OBVIOUS
      <3>2. CutShows(Nat, <<>>, o, l)
        BY <2>1, <3>1, CutIs
      <3> QED
        BY <2>1, <2>2, <3>2 DEF CutShows
    <2>4. Cut(<<>>, o, l) = <<>>
      BY <2>3
    <2> QED
      BY <2>1, <2>2, <2>4 DEF PageOf
  <1>2. SearchTier(none, Named, l) = PageOf(InOrder(Named), o, l)
    <2>1. Named \in SUBSET Nat /\ IsFiniteSet(Named) /\ <<>> \in Seq(Nat)
      BY TiersAre
    <2>2. SearchTier(PageOf(<<>>, o, l), Named, l) = PageOf(<<>> \o InOrder(Named), o, l)
      BY <2>1, TierIsCut
    <2>3. InOrder(Named) \in Seq(Nat)
      BY AllTiersIs
    <2>4. <<>> \o InOrder(Named) = InOrder(Named)
      BY <2>3
    <2> QED
      BY <1>1, <2>2, <2>4
  <1>3. SearchTier(PageOf(InOrder(Named), o, l), Summarized, l) = PageOf(TwoTiers, o, l)
    <2>1. Summarized \in SUBSET Nat /\ IsFiniteSet(Summarized) /\ InOrder(Named) \in Seq(Nat)
      BY TiersAre, AllTiersIs
    <2> QED
      BY <2>1, TierIsCut DEF TwoTiers
  <1>4. SearchTier(PageOf(TwoTiers, o, l), Elsewhere, l) = PageOf(AllTiers, o, l)
    <2>1. Elsewhere \in SUBSET Nat /\ IsFiniteSet(Elsewhere) /\ TwoTiers \in Seq(Nat)
      BY TiersAre, AllTiersIs
    <2> QED
      BY <2>1, TierIsCut DEF AllTiers
  <1>5. Search(l, o) = PageOf(AllTiers, o, l).hits
    BY <1>2, <1>3, <1>4 DEF Search
  <1> QED
    BY <1>5 DEF PageOf

\* What comes before what, in a better place or ranked better.
Precedes(x, y) == Place(x) < Place(y) \/ (Place(x) = Place(y) /\ x < y)
InOneList(list) == \A i, j \in 1..Len(list) : i < j => Precedes(list[i], list[j])
Holds(list, set) == \A m \in set : \E i \in 1..Len(list) : list[i] = m

\* Two lists make one when all of one precedes all of the other.
LEMMA JoinedInOneList ==
  ASSUME NEW a \in Seq(Nat), NEW b \in Seq(Nat), InOneList(a), InOneList(b),
         \A i \in 1..Len(a), j \in 1..Len(b) : Precedes(a[i], b[j])
  PROVE  InOneList(a \o b)
  <1> PICK n, m, ab : n = Len(a) /\ m = Len(b) /\ ab = a \o b
    OBVIOUS
  <1>1. /\ n \in Nat /\ m \in Nat /\ Len(ab) = n + m /\ (\A i \in 1..n : ab[i] = a[i])
        /\ \A i \in 1..m : ab[n + i] = b[i]
    BY Joined
  <1>2. ASSUME NEW i \in 1..(n + m), NEW j \in 1..(n + m), i < j PROVE Precedes(ab[i], ab[j])
    <2>1. CASE j <= n
      <3>1. i \in 1..n /\ j \in 1..n
        BY <1>1, <1>2, <2>1
      <3>2. Precedes(a[i], a[j])
        BY <1>2, <3>1 DEF InOneList
      <3> QED
        BY <1>1, <3>1, <3>2
    <2>2. CASE i <= n /\ j > n
      <3>1. i \in 1..n /\ j - n \in 1..m /\ j = n + (j - n)
        BY <1>1, <1>2, <2>2
      <3>2. Precedes(a[i], b[j - n])
        BY <3>1
      <3> QED
        BY <1>1, <3>1, <3>2
    <2>3. CASE i > n
      <3>1. i - n \in 1..m /\ i = n + (i - n) /\ j - n \in 1..m /\ j = n + (j - n) /\ i - n < j - n
        BY <1>1, <1>2, <2>3
      <3>2. Precedes(b[i - n], b[j - n])
        BY <3>1 DEF InOneList
      <3> QED
        BY <1>1, <3>1, <3>2
    <2> QED
      BY <1>1, <2>1, <2>2, <2>3
  <1> QED
    BY <1>1, <1>2 DEF InOneList

\* What two lists hold, they hold together.
LEMMA JoinedHolds ==
  ASSUME NEW a \in Seq(Nat), NEW b \in Seq(Nat), NEW s, NEW t, Holds(a, s), Holds(b, t)
  PROVE  Holds(a \o b, s \cup t)
  <1> PICK n, m, ab : n = Len(a) /\ m = Len(b) /\ ab = a \o b
    OBVIOUS
  <1>1. /\ n \in Nat /\ m \in Nat /\ Len(ab) = n + m /\ (\A i \in 1..n : ab[i] = a[i])
        /\ \A i \in 1..m : ab[n + i] = b[i]
    BY Joined
  <1>2. ASSUME NEW x \in s PROVE \E i \in 1..(n + m) : ab[i] = x
    <2>1. PICK i \in 1..n : a[i] = x
      BY DEF Holds
    <2>2. i \in 1..(n + m) /\ ab[i] = x
      BY <1>1, <2>1
    <2> QED
      BY <2>2
  <1>3. ASSUME NEW x \in t PROVE \E i \in 1..(n + m) : ab[i] = x
    <2>1. PICK i \in 1..m : b[i] = x
      BY DEF Holds
    <2>2. n + i \in 1..(n + m) /\ ab[n + i] = x
      BY <1>1, <2>1
    <2> QED
      BY <2>2
  <1> QED
    BY <1>1, <1>2, <1>3 DEF Holds

\* One tier is in one list, which holds it.
LEMMA TierInOneList ==
  ASSUME NEW tier \in SUBSET Nat, IsFiniteSet(tier), NEW p \in Nat, \A m \in tier : Place(m) = p
  PROVE  /\ InOneList(InOrder(tier)) /\ Holds(InOrder(tier), tier)
         /\ \A i \in 1..Len(InOrder(tier)) : Place(InOrder(tier)[i]) = p
         /\ Len(InOrder(tier)) = Cardinality(tier)
  <1> PICK a, n : a = InOrder(tier) /\ n = Cardinality(tier)
    OBVIOUS
  <1>1. /\ a \in Seq(tier) /\ n \in Nat /\ Len(a) = n
        /\ (\A i, j \in 1..n : i < j => a[i] < a[j])
        /\ \A m \in tier : \E i \in 1..n : a[i] = m
    BY InOrderIs
  <1>2. \A i \in 1..n : a[i] \in tier
    BY <1>1
  <1>3. \A i \in 1..n : Place(a[i]) = p
    BY <1>2
  <1> QED
    BY <1>1, <1>3 DEF InOneList, Holds, Precedes

\* Sets that are apart are as many together as each.
LEMMA ApartAddUp ==
  ASSUME NEW S, IsFiniteSet(S), NEW T, IsFiniteSet(T), S \cap T = {}
  PROVE  IsFiniteSet(S \cup T) /\ Cardinality(S \cup T) = Cardinality(S) + Cardinality(T)
  <1>1. Cardinality(S \cup T) = Cardinality(S) + Cardinality(T) - Cardinality(S \cap T) /\ IsFiniteSet(S \cup T)
    BY FS_Union
  <1>2. Cardinality(S \cap T) = 0 /\ Cardinality(S) \in Nat /\ Cardinality(T) \in Nat
    BY FS_EmptySet, FS_CardinalityType
  <1> QED
    BY <1>1, <1>2

\* All that is found in a tier.
Offered == Named \cup Summarized \cup Elsewhere

\* All the tiers are in one list, each result once.
LEMMA AllInOneList ==
  ASSUME Searched
  PROVE  InOneList(AllTiers) /\ Holds(AllTiers, Offered) /\ Len(AllTiers) = Cardinality(Offered)
  <1> PICK a, b, c : a = InOrder(Named) /\ b = InOrder(Summarized) /\ c = InOrder(Elsewhere)
    OBVIOUS
  <1> PICK ab : ab = a \o b
    OBVIOUS
  <1> PICK n, m, k : n = Len(a) /\ m = Len(b) /\ k = Len(c)
    OBVIOUS
  <1>1. a \in Seq(Nat) /\ b \in Seq(Nat) /\ c \in Seq(Nat) /\ ab \in Seq(Nat) /\ n \in Nat /\ m \in Nat /\ k \in Nat
    <2>1. a \in Seq(Nat) /\ b \in Seq(Nat) /\ c \in Seq(Nat) /\ ab \in Seq(Nat)
      BY AllTiersIs DEF TwoTiers
    <2> QED
      BY <2>1
  <1>2. InOneList(a) /\ Holds(a, Named) /\ (\A i \in 1..n : Place(a[i]) = 1) /\ n = Cardinality(Named)
    BY TiersAre, TierInOneList
  <1>3. InOneList(b) /\ Holds(b, Summarized) /\ (\A i \in 1..m : Place(b[i]) = 2) /\ m = Cardinality(Summarized)
    BY TiersAre, TierInOneList
  <1>4. InOneList(c) /\ Holds(c, Elsewhere) /\ (\A i \in 1..k : Place(c[i]) = 3) /\ k = Cardinality(Elsewhere)
    <2>1. Elsewhere \in SUBSET Nat /\ IsFiniteSet(Elsewhere) /\ \A x \in Elsewhere : Place(x) = 3
      BY TiersAre
    <2> QED
      BY <2>1, TierInOneList
  <1>5. InOneList(ab)
    <2>1. \A i \in 1..Len(a), j \in 1..Len(b) : Precedes(a[i], b[j])
      BY <1>2, <1>3 DEF Precedes
    <2> QED
      BY <1>1, <1>2, <1>3, <2>1, JoinedInOneList
  <1>6. /\ Len(ab) = n + m /\ (\A i \in 1..n : ab[i] = a[i]) /\ \A i \in 1..m : ab[n + i] = b[i]
    BY <1>1, Joined
  <1>7. \A i \in 1..(n + m) : Place(ab[i]) \in {1, 2}
    <2> SUFFICES ASSUME NEW i \in 1..(n + m) PROVE Place(ab[i]) \in {1, 2}
      OBVIOUS
    <2>1. CASE i <= n
      <3>1. i \in 1..n
        BY <1>1, <2>1
      <3> QED
        BY <1>2, <1>6, <3>1
    <2>2. CASE i > n
      <3>1. i - n \in 1..m /\ i = n + (i - n)
        BY <1>1, <2>2
      <3> QED
        BY <1>3, <1>6, <3>1
    <2> QED
      BY <1>1, <2>1, <2>2
  <1>8. InOneList(ab \o c)
    <2>1. \A i \in 1..Len(ab), j \in 1..Len(c) : Precedes(ab[i], c[j])
      <3> SUFFICES ASSUME NEW i \in 1..Len(ab), NEW j \in 1..Len(c) PROVE Precedes(ab[i], c[j])
        OBVIOUS
      <3>1. Place(ab[i]) \in {1, 2} /\ Place(c[j]) = 3
        BY <1>4, <1>6, <1>7
      <3> QED
        BY <3>1 DEF Precedes
    <2> QED
      BY <1>1, <1>4, <1>5, <2>1, JoinedInOneList
  <1>9. Holds(ab \o c, Offered)
    <2>1. Holds(ab, Named \cup Summarized)
      BY <1>1, <1>2, <1>3, JoinedHolds
    <2>2. Holds(ab \o c, (Named \cup Summarized) \cup Elsewhere)
      BY <1>1, <1>4, <2>1, JoinedHolds
    <2> QED
      BY <2>2 DEF Offered
  <1>10. Len(ab \o c) = (n + m) + k
    BY <1>1, <1>6, Joined
  <1>11. Cardinality(Offered) = (n + m) + k
    <2>1. IsFiniteSet(Named \cup Summarized) /\ Cardinality(Named \cup Summarized) = n + m
      <3>1. IsFiniteSet(Named) /\ IsFiniteSet(Summarized) /\ Named \cap Summarized = {}
        BY TiersAre
      <3> QED
        <4>1. /\ IsFiniteSet(Named \cup Summarized)
              /\ Cardinality(Named \cup Summarized) = Cardinality(Named) + Cardinality(Summarized)
          BY <3>1, ApartAddUp, Zenon
        <4> QED
          BY <1>2, <1>3, <4>1
    <2>2. IsFiniteSet(Elsewhere) /\ (Named \cup Summarized) \cap Elsewhere = {}
      BY TiersAre
    <2>3. Cardinality((Named \cup Summarized) \cup Elsewhere) = (n + m) + k
      BY <1>4, <2>1, <2>2, ApartAddUp
    <2> QED
      BY <2>3 DEF Offered
  <1> QED
    BY <1>8, <1>9, <1>10, <1>11 DEF AllTiers, TwoTiers

\* The inductive invariant: what was shown is the first so many of the list.
PagesInv == Searched /\ shown = Cut(AllTiers, 0, (pageNumber - 1) * perPage)

\* Every page continues the list.
LEMMA PagesStep == PagesInv /\ [NextPage]_pagesVars => PagesInv'
  <1> SUFFICES ASSUME PagesInv, [NextPage]_pagesVars PROVE PagesInv'
    OBVIOUS
  <1>1. CASE NextPage
    <2>1. /\ UNCHANGED <<document, filtered, query, perPage>> /\ pageNumber' = pageNumber + 1
          /\ shown' = shown \o Search(perPage, (pageNumber - 1) * perPage)
      BY <1>1 DEF NextPage
    <2>2. Searched'
      BY <2>1 DEF PagesInv, Searched
    <2>3. AllTiers' = AllTiers
      BY <2>1 DEF AllTiers, TwoTiers, InOrder, Named, Summarized, Elsewhere, Found, Matches, WordsOf
    <2> PICK s, l : s = (pageNumber - 1) * perPage /\ l = perPage
      OBVIOUS
    <2>4. l \in Nat \ {0} /\ pageNumber - 1 \in Nat
      BY DEF PagesInv, Searched
    <2>5. s \in Nat
      BY <2>4
    <2>6. (pageNumber' - 1) * perPage' = s + l
      <3> PICK p : p = pageNumber - 1
        OBVIOUS
      <3>1. p \in Nat /\ pageNumber' - 1 = p + 1 /\ perPage' = l
        BY <2>1, <2>4 DEF PagesInv, Searched
      <3>2. (p + 1) * l = p * l + l
        BY <2>4, <3>1
      <3> QED
        BY <3>1, <3>2
    <2>7. Search(l, s) = Cut(AllTiers, s, l)
      BY <2>4, <2>5, SearchIsCut DEF PagesInv
    <2>8. AllTiers \in Seq(Nat) /\ l \in Nat
      BY <2>4, AllTiersIs DEF PagesInv
    <2>9. Cut(AllTiers, 0, s) \o Cut(AllTiers, s, l) = Cut(AllTiers, 0, s + l)
      BY <2>5, <2>8, NextCut
    <2>10. shown' = Cut(AllTiers, 0, s + l)
      BY <2>1, <2>7, <2>9 DEF PagesInv
    <2> QED
      BY <2>2, <2>3, <2>6, <2>10 DEF PagesInv
  <1>2. CASE UNCHANGED pagesVars
    <2>1. UNCHANGED <<document, filtered, query, perPage, shown, pageNumber>>
      BY <1>2 DEF pagesVars
    <2>2. AllTiers' = AllTiers
      BY <2>1 DEF AllTiers, TwoTiers, InOrder, Named, Summarized, Elsewhere, Found, Matches, WordsOf
    <2> QED
      BY <2>1, <2>2 DEF PagesInv, Searched
  <1> QED
    BY <1>1, <1>2

\* It holds at first.
LEMMA PagesStart == PagesInit => PagesInv
  <1> SUFFICES ASSUME PagesInit PROVE PagesInv
    OBVIOUS
  <1>1. Searched
    BY SearchPagesConstants DEF PagesInit, Searched
  <1>2. AllTiers \in Seq(Nat)
    BY <1>1, AllTiersIs
  <1>3. (pageNumber - 1) * perPage = 0 /\ shown = <<>>
    <2>1. pageNumber - 1 = 0 /\ perPage \in Nat
      BY <1>1 DEF PagesInit, Searched
    <2> QED
      BY <2>1 DEF PagesInit
  <1>4. Cut(AllTiers, 0, 0) = <<>>
    <2> PICK all : all = AllTiers
      OBVIOUS
    <2>1. CutLength(Len(all), 0, 0) = 0
      BY <1>2 DEF CutLength, Least
    <2>2. Cut(all, 0, 0) \in Seq(Nat) /\ Len(Cut(all, 0, 0)) = 0
      <3>1. 0 \in Nat /\ all \in Seq(Nat)
        BY <1>2
      <3>2. CutShows(Nat, all, 0, 0)
        BY <3>1, CutIs
      <3> QED
        BY <2>1, <3>2 DEF CutShows
    <2> QED
      BY <2>2
  <1> QED
    BY <1>1, <1>3, <1>4 DEF PagesInv

\* So many pages, and they are enough.
LEMMA PagesAreEnough ==
  ASSUME NEW t \in Nat, NEW l \in Nat \ {0}, NEW p \in Nat, p >= (t + l - 1) \div l
  PROVE  p * l >= t
  <1> PICK q : q = (t + l - 1) \div l
    OBVIOUS
  <1> PICK r : r = (t + l - 1) % l
    OBVIOUS
  <1>1. t + l - 1 \in Nat
    OBVIOUS
  <1>2. t + l - 1 = l * q + r /\ r \in 0..(l - 1) /\ q \in Nat
    BY <1>1
  <1>3. p * l >= q * l
    BY <1>2
  <1>4. l * q >= t
    BY <1>2
  <1> QED
    BY <1>2, <1>3, <1>4

\* How many pages there are.
LEMMA PagesIsANumber ==
  ASSUME Searched
  PROVE  LET q == (Total + perPage - 1) \div perPage IN
         Total \in Nat /\ q \in Nat /\ Pages \in Nat \ {0} /\ q <= Pages
  <1> PICK q : q = (Total + perPage - 1) \div perPage
    OBVIOUS
  <1>1. Total \in Nat /\ perPage \in Nat \ {0}
    BY TiersAre, FS_CardinalityType DEF Total, Searched
  <1>2. q \in Nat
    <2> PICK t, l : t = Total + perPage - 1 /\ l = perPage
      OBVIOUS
    <2>1. t \in Nat /\ l \in Nat \ {0}
      BY <1>1
    <2>2. t \div l \in Nat
      BY <2>1
    <2> QED
      BY <2>2
  <1>3. {1, q} \in SUBSET Nat /\ IsFiniteSet({1, q})
    <2>1. IsFiniteSet({1}) /\ IsFiniteSet({q}) /\ {1, q} = {1} \cup {q}
      BY FS_Singleton
    <2>2. IsFiniteSet({1} \cup {q})
      BY <2>1, FS_Union
    <2>3. IsFiniteSet({1, q})
      BY <2>1, <2>2, Zenon
    <2> QED
      BY <1>2, <2>3
  <1>4. Pages \in {1, q} /\ 1 <= Pages /\ q <= Pages
    BY <1>3, MaxIs DEF Pages
  <1> QED
    BY <1>1, <1>2, <1>4

\* What was shown is one list, has nothing left out, and is whole in the end.
LEMMA PagesInvIsOneSearch == PagesInv => PagesAreOneSearch
  <1> SUFFICES ASSUME PagesInv PROVE PagesAreOneSearch
    OBVIOUS
  <1> PICK all, s, n, k : /\ all = AllTiers /\ s = (pageNumber - 1) * perPage /\ n = Len(all)
                          /\ k = CutLength(n, 0, s)
    OBVIOUS
  <1>0. Searched
    BY DEF PagesInv
  <1>1. all \in Seq(Nat) /\ n \in Nat /\ pageNumber - 1 \in Nat /\ perPage \in Nat \ {0}
    <2>1. all \in Seq(Nat)
      BY <1>0, AllTiersIs
    <2> QED
      BY <1>0, <2>1 DEF Searched
  <1>2. s \in Nat
    BY <1>1
  <1>3. shown \in Seq(Nat) /\ Len(shown) = k /\ \A i \in 1..k : shown[i] = all[i]
    <2>1. shown = Cut(all, 0, s)
      BY DEF PagesInv
    <2>2. /\ Cut(all, 0, s) \in Seq(Nat) /\ Len(Cut(all, 0, s)) = CutLength(Len(all), 0, s)
          /\ \A i \in 1..CutLength(Len(all), 0, s) : Cut(all, 0, s)[i] = all[i]
      <3>1. all \in Seq(Nat)
        BY <1>1
      <3> QED
        BY <1>2, <3>1, FirstCut, Zenon
    <2> QED
      BY <2>1, <2>2
  <1>4. k \in Nat /\ k <= n /\ k = Least(s, n)
    BY <1>1, <1>2 DEF CutLength, Least
  <1>5. InOneList(all) /\ Holds(all, Offered) /\ n = Cardinality(Offered)
    BY <1>0, AllInOneList
  <1>6. PagesMakeOneList
    <2> SUFFICES ASSUME NEW i \in DOMAIN shown, NEW j \in DOMAIN shown, i < j
                 PROVE  Precedes(shown[i], shown[j])
      BY DEF PagesMakeOneList, Precedes
    <2>1. i \in 1..k /\ j \in 1..k
      BY <1>3
    <2>2. i \in 1..n /\ j \in 1..n
      BY <1>1, <1>4, <2>1
    <2>3. Precedes(all[i], all[j])
      BY <1>5, <2>2 DEF InOneList
    <2> QED
      BY <1>3, <2>1, <2>3
  <1>7. NothingIsSkipped
    <2>1. Min({s, n}) = Least(s, n)
      BY <1>1, <1>2, LeastIsMin
    <2> QED
      BY <1>3, <1>4, <1>5, <2>1 DEF NothingIsSkipped, Offered
  <1>8. TogetherIsFound
    <2> SUFFICES ASSUME pageNumber > Pages, NEW m \in Found,
                        (\E w \in Word : query = {w}) \/ (\E c \in {"named", "synopsis"} : query \subseteq document[m][c])
                 PROVE  m \in ToSet(shown)
      BY DEF TogetherIsFound
    <2>1. Offered \subseteq Found /\ IsFiniteSet(Found)
      <3>1. IsFiniteSet(Found) /\ \A tier \in {Named, Summarized, Elsewhere} : tier \subseteq Found
        BY <1>0, TiersAre
      <3> QED
        BY <3>1 DEF Offered
    <2>2. Total \in Nat /\ n <= Total
      BY <1>5, <2>1, FS_Subset, FS_CardinalityType DEF Total
    <2>3. pageNumber - 1 >= (Total + perPage - 1) \div perPage
      <3>1. /\ (Total + perPage - 1) \div perPage \in Nat /\ Pages \in Nat
            /\ (Total + perPage - 1) \div perPage <= Pages
        BY <1>0, PagesIsANumber
      <3>2. pageNumber \in Nat
        BY <1>0 DEF Searched
      <3> QED
        BY <3>1, <3>2
    <2>4. s >= Total
      BY <1>1, <2>2, <2>3, PagesAreEnough
    <2>5. k = n
      BY <1>1, <1>2, <1>4, <2>2, <2>4 DEF Least
    <2>6. m \in Offered
      <3>1. m \in filtered /\ query \subseteq WordsOf(m, Everywhere)
        BY DEF Found, Matches
      <3>2. /\ WordsOf(m, {"named"}) = document[m].named
            /\ WordsOf(m, {"synopsis"}) = document[m].synopsis
            /\ WordsOf(m, {"named", "synopsis"}) = document[m].named \cup document[m].synopsis
            /\ WordsOf(m, Everywhere) = document[m].named \cup document[m].synopsis \cup document[m].readme
        BY DEF WordsOf, Everywhere
      <3>3. CASE query \subseteq document[m].named
        BY <3>2, <3>3 DEF Named, Matches, Offered
      <3>4. CASE query \subseteq document[m].synopsis /\ ~(query \subseteq document[m].named)
        BY <3>2, <3>4 DEF Summarized, Matches, Offered
      <3>5. CASE ~(query \subseteq document[m].named) /\ ~(query \subseteq document[m].synopsis)
        <4>2. PICK w : query = {w}
          BY <3>5
        <4>3. w \notin document[m].named /\ w \notin document[m].synopsis
          BY <3>5, <4>2
        <4> QED
          BY <3>2, <4>2, <4>3 DEF Elsewhere, Matches, Offered
      <3> QED
        BY <3>3, <3>4, <3>5
    <2>7. PICK i \in 1..n : all[i] = m
      BY <1>5, <2>6 DEF Holds
    <2>8. i \in DOMAIN shown /\ shown[i] = m
      BY <1>3, <2>5, <2>7
    <2> QED
      BY <2>8 DEF ToSet
  <1> QED
    BY <1>6, <1>7, <1>8 DEF PagesAreOneSearch

\* The pages' inductive invariant, up to the one after the last.
PagesTypes == PagesInv /\ pageNumber \in 1..Pages + 1

\* Every step keeps it.
LEMMA PagesTypesStep == PagesTypes /\ [NextPage]_pagesVars => PagesTypes'
  <1> SUFFICES ASSUME PagesTypes, [NextPage]_pagesVars PROVE PagesTypes'
    OBVIOUS
  <1>1. PagesInv' /\ Pages \in Nat /\ pageNumber \in 1..Pages + 1
    BY PagesStep, PagesIsANumber DEF PagesTypes, PagesInv
  <1>2. UNCHANGED <<document, filtered, query, perPage>> /\ (pageNumber' = pageNumber \/ (pageNumber <= Pages /\ pageNumber' = pageNumber + 1))
    BY DEF NextPage, pagesVars
  <1>3. Pages' = Pages
    BY <1>2 DEF Pages, Total, Found, Matches, WordsOf
  <1> QED
    BY <1>1, <1>2, <1>3 DEF PagesTypes

\* It holds at first.
LEMMA PagesTypesInit == PagesInit => PagesTypes
  <1> SUFFICES ASSUME PagesInit PROVE PagesTypes
    OBVIOUS
  <1>1. PagesInv /\ pageNumber = 1
    BY PagesStart DEF PagesInit
  <1>2. Pages \in Nat
    BY <1>1, PagesIsANumber DEF PagesInv
  <1> QED
    BY <1>1, <1>2 DEF PagesTypes

\* It is what the types say: what is shown was found among what is let through.
LEMMA PagesTypesHold == PagesTypes => PagesTypeOK
  <1> SUFFICES ASSUME PagesTypes PROVE PagesTypeOK
    OBVIOUS
  <1> PICK all, s, n, k : /\ all = AllTiers /\ s = (pageNumber - 1) * perPage /\ n = Len(all)
                          /\ k = CutLength(n, 0, s)
    OBVIOUS
  <1>0. Searched /\ shown = Cut(all, 0, s)
    BY DEF PagesTypes, PagesInv
  <1>1. all \in Seq(Nat) /\ n \in Nat /\ s \in Nat
    <2>1. all \in Seq(Nat)
      BY <1>0, AllTiersIs
    <2>2. pageNumber - 1 \in Nat /\ perPage \in Nat
      BY <1>0 DEF Searched
    <2> QED
      BY <2>1, <2>2
  <1>2. Cut(all, 0, s) \in Seq(Nat) /\ Len(Cut(all, 0, s)) = k /\ \A i \in 1..k : Cut(all, 0, s)[i] = all[i]
    BY <1>1, FirstCut
  <1>3. k \in Nat /\ k <= n
    BY <1>1 DEF CutLength, Least
  <1>4. \A i \in 1..n : all[i] \in filtered
    <2>1. \A tier \in {Named, Summarized, Elsewhere} : InOrder(tier) \in Seq(filtered)
      <3> SUFFICES ASSUME NEW tier \in {Named, Summarized, Elsewhere} PROVE InOrder(tier) \in Seq(filtered)
        OBVIOUS
      <3>1. tier \in SUBSET Nat /\ IsFiniteSet(tier) /\ tier \subseteq Found
        BY <1>0, TiersAre
      <3>2. InOrder(tier) \in Seq(tier) /\ tier \subseteq filtered
        BY <3>1, InOrderIs DEF Found
      <3> QED
        BY <3>2, ListOfMore
    <2> PICK a, b, c : a = InOrder(Named) /\ b = InOrder(Summarized) /\ c = InOrder(Elsewhere)
      OBVIOUS
    <2>2. a \in Seq(filtered) /\ b \in Seq(filtered) /\ c \in Seq(filtered)
      BY <2>1
    <2>3. (a \o b) \o c \in Seq(filtered)
      BY <2>2
    <2>4. all \in Seq(filtered)
      BY <2>3 DEF AllTiers, TwoTiers
    <2> QED
      BY <2>4
  <1>5. shown \in Seq(filtered)
    <2> PICK list : list = shown
      OBVIOUS
    <2>1. list \in Seq(Nat) /\ Len(list) = k /\ \A i \in 1..k : list[i] \in filtered
      BY <1>0, <1>2, <1>3, <1>4
    <2> QED
      BY <2>1
  <1> QED
    BY <1>0, <1>5 DEF PagesTypes, PagesTypeOK, Searched

\* The pages are one ranked list, whole but for what no tier takes.
THEOREM PagesStayOneSearch == PagesSpec => []PagesAreOneSearch
  <1> QED
    BY PagesStart, PagesStep, PagesInvIsOneSearch, PTL DEF PagesSpec

-----------------------------------------------------------------------------
(* All of them.                                                            *)

\* What readers, tools and operators get is well formed, whatever each of
\* these parts does meanwhile.
THEOREM ServicesTypes == ServicesSpec => []ServicesTypeOK
  <1>1. AdvisoriesSpec => []AdvisoriesTypeOK
    <2>1. AdvisoryTypes => AdvisoriesTypeOK
      BY DEF AdvisoryTypes
    <2> QED
      BY AdvisoryTypesInit, AdvisoryTypesStep, <2>1, PTL DEF AdvisoriesSpec
  <1>2. ReadsSpec => []ReadsTypeOK
    BY ReadsTypesInit, ReadsTypesStep, ReadsTypesHold, PTL DEF ReadsSpec
  <1>3. KeysSpec => []KeysTypeOK
    BY KeysTypes
  <1>4. LimitSpec => []LimitTypeOK
    <2>1. LimitTypes => LimitTypeOK
      BY DEF LimitTypes
    <2> QED
      BY LimitTypesInit, LimitTypesStep, <2>1, PTL DEF LimitSpec
  <1>5. ProxyCacheSpec => []ProxyCacheTypeOK
    BY CacheTypesInit, CacheTypesStep, CacheTypesHold, PTL DEF ProxyCacheSpec
  <1>6. PagesSpec => []PagesTypeOK
    BY PagesTypesInit, PagesTypesStep, PagesTypesHold, PTL DEF PagesSpec
  <1>7. StorageSpec => []StorageTypeOK
    <2>1. StorageInv => StorageTypeOK
      BY DEF StorageInv
    <2> QED
      BY StorageInitially, StorageStep, <2>1, PTL DEF StorageSpec
  <1>8. MigrationSpec => []MigrationTypeOK
    <2>1. MigrationInv => MigrationTypeOK
      BY DEF MigrationInv
    <2> QED
      BY MigrationsInitially, MigrationStep, <2>1, PTL DEF MigrationSpec
  <1> QED
    BY <1>1, <1>2, <1>3, <1>4, <1>5, <1>6, <1>7, <1>8, PTL DEF ServicesSpec, ServicesTypeOK
=============================================================================

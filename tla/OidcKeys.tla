------------------------------ MODULE OidcKeys ------------------------------
(***************************************************************************)
(* The signing keys of the ID token issuer.  They are fetched over the     *)
(* network and kept: a key found in the kept set is used for KeysTTL, one  *)
(* that is not found makes the set be fetched again, at most once per      *)
(* RefetchEvery, and while the issuer is down the kept set goes on being   *)
(* used.  The mutex is held for the whole lookup, so lookups are one at a  *)
(* time; the clock and the issuer, who rotates keys, do not wait for it.   *)
(***************************************************************************)
EXTENDS Integers

CONSTANTS Kid,           \* names of keys
          KeysTTL,       \* keysTTL
          RefetchEvery,  \* refetchEvery
          MaxTime        \* bound: the clock stops there

ASSUME KeysConstants ==
  /\ KeysTTL \in Nat \ {0}
  /\ RefetchEvery \in 1..KeysTTL
  /\ MaxTime \in Nat /\ KeysTTL <= MaxTime

Longago == 0
Time == Longago..MaxTime
NoLookup == [pc |-> "idle"]
NoAnswer == [is |-> "none"]

VARIABLES time,
          issuerKeys,  \* the key set the issuer publishes
          since,       \* when each key was published
          until,       \* when each key was withdrawn
          keys,        \* Verifier.keys; nil is the empty set, which is never stored
          fetchedAt,   \* Verifier.fetchedAt
          lookup,      \* the call of Verify that holds the mutex, or checks claims
          answer       \* what Verify last answered

issuerVars == <<issuerKeys, since, until>>
keyVars == <<time, issuerVars, keys, fetchedAt, lookup, answer>>

Answer(k, is) == [is |-> is, kid |-> k, asked |-> lookup.asked]

\* Mutant of KnownUnneeded: a set that is kept is never fetched again.
NeverAgain(k) == keys # {}

\* The two early answers of key: a kept key, and a kept set young enough.
KeyFresh(k) == k \in keys /\ time - fetchedAt < KeysTTL
KnownUnneeded(k) == keys # {} /\ time - fetchedAt < RefetchEvery

-----------------------------------------------------------------------------
\* Verify, until it has the key or asks the issuer.  It fails at once for what
\* is no token, and then changes nothing.
Verify(k) ==
  /\ lookup = NoLookup
  /\ \/ KeyFresh(k) /\ lookup' = [pc |-> "claims", kid |-> k, asked |-> time, down |-> FALSE]
     \/ ~KeyFresh(k) /\ ~KnownUnneeded(k) /\ lookup' = [pc |-> "fetch", kid |-> k, asked |-> time]
     \/ ~KeyFresh(k) /\ KnownUnneeded(k) /\ lookup' = [pc |-> "find", kid |-> k, asked |-> time]
  /\ answer' = NoAnswer
  /\ UNCHANGED <<time, issuerVars, keys, fetchedAt>>

\* The issuer answers the two requests of fetchKeys.
IssuerAnswers ==
  /\ lookup.pc = "fetch"
  /\ issuerKeys # {}
  /\ lookup' = [pc |-> "fetched", kid |-> lookup.kid, asked |-> lookup.asked, got |-> issuerKeys]
  /\ UNCHANGED <<time, issuerVars, keys, fetchedAt, answer>>

\* A request fails, or there is no key in the answer: the kept key will do.
FetchFails ==
  /\ lookup.pc = "fetch"
  /\ \/ /\ lookup.kid \in keys
        /\ lookup' = [pc |-> "claims", kid |-> lookup.kid, asked |-> lookup.asked, down |-> TRUE]
        /\ answer' = answer
     \/ /\ lookup.kid \notin keys
        /\ lookup' = NoLookup
        /\ answer' = Answer(lookup.kid, "unavailable")
  /\ UNCHANGED <<time, issuerVars, keys, fetchedAt>>

\* Mutant: the clock is looked at once the keys are there.
StampAfter ==
  /\ lookup.pc = "fetched"
  /\ keys' = lookup.got
  /\ fetchedAt' = time
  /\ lookup' = [pc |-> "find", kid |-> lookup.kid, asked |-> lookup.asked]
  /\ UNCHANGED <<time, issuerVars, answer>>

\* The fetched set counts as of when it was asked for.
KeepKeys ==
  /\ lookup.pc = "fetched"
  /\ keys' = lookup.got
  /\ fetchedAt' = lookup.asked
  /\ lookup' = [pc |-> "find", kid |-> lookup.kid, asked |-> lookup.asked]
  /\ UNCHANGED <<time, issuerVars, answer>>

FindKey ==
  /\ lookup.pc = "find"
  /\ \/ /\ lookup.kid \in keys
        /\ lookup' = [pc |-> "claims", kid |-> lookup.kid, asked |-> lookup.asked, down |-> FALSE]
        /\ answer' = answer
     \/ /\ lookup.kid \notin keys
        /\ lookup' = NoLookup
        /\ answer' = Answer(lookup.kid, "unknown")
  /\ UNCHANGED <<time, issuerVars, keys, fetchedAt>>

\* The rest of Verify: the signature and the claims are good or not.
CheckClaims ==
  /\ lookup.pc = "claims"
  /\ lookup' = NoLookup
  /\ \/ answer' = [is |-> "accepted", kid |-> lookup.kid, asked |-> lookup.asked, down |-> lookup.down]
     \/ answer' = Answer(lookup.kid, "invalid")
  /\ UNCHANGED <<time, issuerVars, keys, fetchedAt>>

-----------------------------------------------------------------------------
\* The issuer publishes a key, or withdraws one.
Rotate(k) ==
  /\ \/ k \notin issuerKeys /\ issuerKeys' = issuerKeys \cup {k} /\ since' = [since EXCEPT ![k] = time] /\ until' = until
     \/ k \in issuerKeys /\ issuerKeys' = issuerKeys \ {k} /\ until' = [until EXCEPT ![k] = time] /\ since' = since
  /\ UNCHANGED <<time, keys, fetchedAt, lookup, answer>>

KeysTick ==
  /\ time < MaxTime
  /\ time' = time + 1
  /\ UNCHANGED <<issuerVars, keys, fetchedAt, lookup, answer>>

\* The clock starts late enough for no key to have been withdrawn recently.
KeysInit ==
  /\ time = KeysTTL
  /\ issuerKeys \in SUBSET Kid
  /\ since = [k \in Kid |-> Longago]
  /\ until = [k \in Kid |-> Longago]
  /\ keys = {}
  /\ fetchedAt = Longago
  /\ lookup = NoLookup
  /\ answer = NoAnswer

KeysNext ==
  \/ \E k \in Kid :
       \/ Verify(k)
       \/ Rotate(k)
  \/ IssuerAnswers \/ FetchFails \/ KeepKeys \/ FindKey \/ CheckClaims
  \/ KeysTick

KeysSpec == KeysInit /\ [][KeysNext]_keyVars

-----------------------------------------------------------------------------
(* Properties.                                                             *)

KeysTypeOK ==
  /\ time \in Time
  /\ issuerKeys \subseteq Kid
  /\ since \in [Kid -> Time]
  /\ until \in [Kid -> Time]
  /\ keys \subseteq Kid
  /\ fetchedAt \in Time
  /\ lookup \in {NoLookup}
       \cup [pc : {"fetch", "find"}, kid : Kid, asked : Time]
       \cup [pc : {"fetched"}, kid : Kid, asked : Time, got : SUBSET Kid]
       \cup [pc : {"claims"}, kid : Kid, asked : Time, down : BOOLEAN]
  /\ answer \in {NoAnswer}
       \cup [is : {"unknown", "unavailable", "invalid"}, kid : Kid, asked : Time]
       \cup [is : {"accepted"}, kid : Kid, asked : Time, down : BOOLEAN]

\* A token that is accepted is signed with a key that the issuer published at
\* some time in the last KeysTTL -- however long the keys took to come -- or
\* that was kept because the issuer could not be asked.
LastPublished(k) == IF k \in issuerKeys THEN time ELSE until[k]
AcceptedKeysAreFresh ==
  answer.is = "accepted" => answer.down \/ LastPublished(answer.kid) + KeysTTL > answer.asked

\* A token is called signed with an unknown key only if its key has not been
\* published for RefetchEvery yet: after that no kept set stands in its way.
RefusedKeysAreNew ==
  answer.is = "unknown" =>
    answer.kid \notin issuerKeys \/ since[answer.kid] + RefetchEvery > answer.asked

\* The keys that are trusted follow the issuer's, both ways.
KeysFollowTheIssuer == AcceptedKeysAreFresh /\ RefusedKeysAreNew

=============================================================================

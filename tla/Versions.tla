------------------------------ MODULE Versions ------------------------------
(***************************************************************************)
(* Module paths and versions as text: which are well formed, how paths are *)
(* escaped in URLs and in the names of files, how versions are ordered,    *)
(* and which of a list is the latest.  A text is typed one character after *)
(* the other, or a list of versions grows by one after the other.          *)
(***************************************************************************)
EXTENDS Integers, Sequences, FiniteSets, FiniteSetsExt, SequencesExt

CONSTANTS Small, Big,  \* letters, lower-case and upper-case
          Capital,     \* which belong together
          Marks,       \* other characters: "!", "/", ".", "-", "@"
          MaxText,     \* bound: the length of a text
          RawVersion,  \* versions that a client may write
          MaxListed    \* bound: how many versions are listed

ASSUME VersionsConstants ==
  /\ Capital \in [Small -> Big]
  /\ \A x, y \in Small : Capital[x] = Capital[y] => x = y
  /\ \A y \in Big : \E x \in Small : Capital[x] = y
  /\ Small \cap Big = {} /\ (Marks \cup {"!", "/", ".", "-"}) \cap (Small \cup Big) = {}
  /\ RawVersion \subseteq [nums : Seq(Seq(Int)), pre : Seq(Seq(Int)), plus : STRING]
  /\ MaxText \in Nat /\ MaxListed \in Nat

VARIABLES text,   \* what is typed
          listed  \* versions of a module, in the order the registry has them

versionsVars == <<text, listed>>

-----------------------------------------------------------------------------
(* Paths.                                                                  *)

PathChar == Small \cup Big \cup {".", "-"}
Lower(x) == CHOOSE s \in Small : Capital[s] = x

\* Where the elements of a path begin, and where they end.
Begins(s) == {i \in DOMAIN s : i = 1 \/ s[i - 1] = "/"}
EndsOfPath(s) == {i \in DOMAIN s : i = Len(s) \/ s[i + 1] = "/"}

CheckPath(s) ==
  /\ s # <<>>
  /\ Range(s) \subseteq PathChar \cup {"/"}
  /\ \A i \in Begins(s) \cup EndsOfPath(s) : s[i] \notin {"/", "."}
  /\ LET first == 1..Min(EndsOfPath(s)) IN s[1] # "-" /\ \E i \in first : s[i] = "."
  /\ s[Len(s)] # "/"

\* Mutant: upper-case letters are made lower-case and not marked.
LowerCased(s) == [i \in DOMAIN s |-> IF s[i] \in Big THEN Lower(s[i]) ELSE s[i]]

Escape(s) == FlattenSeq([i \in DOMAIN s |-> IF s[i] \in Big THEN <<"!", Lower(s[i])>> ELSE <<s[i]>>])

\* Mutant: upper-case letters are taken as they are.
OnlyMarks(s) == \A i \in DOMAIN s : s[i] = "!" => i < Len(s) /\ s[i + 1] \in Small

Unescapable(s) ==
  \A i \in DOMAIN s : s[i] \notin Big /\ (s[i] = "!" => i < Len(s) /\ s[i + 1] \in Small)

Unescape(s) ==
  FlattenSeq([i \in DOMAIN s |->
    CASE s[i] = "!" -> <<>>
      [] i > 1 /\ s[i - 1] = "!" -> <<Capital[s[i]]>>
      [] OTHER -> <<s[i]>>])

-----------------------------------------------------------------------------
(* Versions: numbers, identifiers of a pre-release, and a suffix.  A       *)
(* character of these is a number that is ordered as its byte is: 0 to 9   *)
(* for the digits, less for "-", more for letters.                         *)

IsNum(id) == id # <<>> /\ Range(id) \subseteq 0..9
LeadingZero(id) == Len(id) > 1 /\ id[1] = 0

\* parse: v is canonical.  "pre" is empty, or what follows "-".
Canonical(v) ==
  /\ Len(v.nums) = 3 /\ \A n \in Range(v.nums) : IsNum(n) /\ ~LeadingZero(n)
  /\ \A id \in Range(v.pre) : id # <<>> /\ ~(IsNum(id) /\ LeadingZero(id))
  /\ v.plus \in {"", "incompatible"}

Sign(a, b) == IF a < b THEN -1 ELSE IF a > b THEN 1 ELSE 0

\* By the first items that differ, or the longer one is the greater.
ByFirst(order(_, _), a, b) ==
  LET differ == {i \in 1..Min({Len(a), Len(b)}) : a[i] # b[i]} IN
  IF differ = {} THEN Sign(Len(a), Len(b)) ELSE order(a[Min(differ)], b[Min(differ)])

\* strings.Compare
CompareText(a, b) == ByFirst(Sign, a, b)

\* Mutant: numbers are compared as texts.
CompareDigits(a, b) == CompareText(a, b)

CompareNum(a, b) == IF Len(a) # Len(b) THEN Sign(Len(a), Len(b)) ELSE CompareText(a, b)

CompareId(x, y) ==
  CASE IsNum(x) /\ IsNum(y) -> CompareNum(x, y)
    [] IsNum(x) /\ ~IsNum(y) -> -1
    [] ~IsNum(x) /\ IsNum(y) -> 1
    [] OTHER -> CompareText(x, y)

\* A release outranks any of its pre-releases.
ComparePrerelease(a, b) ==
  CASE a = b -> 0
    [] a # b /\ a = <<>> -> 1
    [] a # b /\ b = <<>> -> -1
    [] OTHER -> ByFirst(CompareId, a, b)

\* Of two versions that are canonical.
Compare(a, b) ==
  LET nums == ByFirst(CompareNum, a.nums, b.nums) IN
  IF nums # 0 THEN nums ELSE ComparePrerelease(a.pre, b.pre)

IsPrerelease(v) == Canonical(v) /\ v.pre # <<>>
NoLatest == [nums |-> <<>>, pre |-> <<>>, plus |-> ""]

\* Mutant: a pre-release counts as well as a release.
AnyHigher(v, latest) == latest = NoLatest \/ Compare(v, latest) > 0

\* Whether v takes the place of the latest so far.
Replaces(v, latest) ==
  \/ latest = NoLatest
  \/ IsPrerelease(latest) /\ ~IsPrerelease(v)
  \/ IsPrerelease(latest) = IsPrerelease(v) /\ Compare(v, latest) > 0

LatestOf(versions) ==
  FoldLeft(LAMBDA latest, v : IF Canonical(v) /\ Replaces(v, latest) THEN v ELSE latest, NoLatest, versions)

\* File.Retracted: v is in one of the ranges of a go.mod.
Retracted(ranges, v) == \E r \in ranges : Compare(r.low, v) <= 0 /\ Compare(v, r.high) <= 0

-----------------------------------------------------------------------------
VersionsInit == text = <<>> /\ listed = <<>>

Types(x) ==
  /\ listed = <<>> /\ Len(text) < MaxText
  /\ text' = Append(text, x)
  /\ UNCHANGED listed

Lists(v) ==
  /\ text = <<>> /\ Len(listed) < MaxListed
  /\ listed' = Append(listed, v)
  /\ UNCHANGED text

VersionsNext ==
  \/ \E x \in Small \cup Big \cup Marks : Types(x)
  \/ \E v \in RawVersion : Lists(v)

VersionsSpec == VersionsInit /\ [][VersionsNext]_versionsVars

-----------------------------------------------------------------------------
VersionsTypeOK ==
  /\ Range(text) \subseteq Small \cup Big \cup Marks
  /\ Range(listed) \subseteq RawVersion

\* A path comes back from its escaped form, which has no upper-case letter,
\* so two modules never share a file where case does not count; and a URL
\* that is accepted is the escaped form of what it is read as, so no module
\* has two.
PathsAreNotConfused ==
  /\ CheckPath(text) => LET url == Escape(text) IN
                        Range(url) \cap Big = {} /\ Unescapable(url) /\ Unescape(url) = text
  /\ Unescapable(text) => Escape(Unescape(text)) = text

\* The precedence of semver.org, by what numbers mean.
Value(n) == FoldLeft(LAMBDA sum, d : 10 * sum + d, 0, n)

\* a and b are the same until a ends, or has less than b in one place.
EndsOrIsLess(a, b, less(_, _)) ==
  \E i \in 1..Len(b) :
    /\ \A j \in 1..(i - 1) : j <= Len(a) /\ a[j] = b[j]
    /\ Len(a) < i \/ less(a[i], b[i])

IdBefore(x, y) ==
  IF IsNum(x) THEN ~IsNum(y) \/ Value(x) < Value(y)
  ELSE ~IsNum(y) /\ EndsOrIsLess(x, y, <)

NumbersBefore(a, b) == EndsOrIsLess(a.nums, b.nums, LAMBDA m, n : Value(m) < Value(n))

PreBefore(a, b) == a # <<>> /\ (b = <<>> \/ EndsOrIsLess(a, b, IdBefore))

Precedes(a, b) ==
  NumbersBefore(a, b) \/ (~NumbersBefore(b, a) /\ PreBefore(a.pre, b.pre))

ReleasesIn(set) == {v \in set : v.pre = <<>>}

\* Versions are in the order of semver, however large their numbers are; the
\* latest of a list is one that no other precedes among the releases, if it
\* has any, in whatever order it was written; and what it retracts is what
\* lies between two versions.
VersionsAreOrdered ==
  LET valid == {v \in Range(listed) : Canonical(v)}
      best == IF ReleasesIn(valid) # {} THEN ReleasesIn(valid) ELSE valid
  IN /\ \A a, b \in valid : /\ (Compare(a, b) < 0) <=> Precedes(a, b)
                           /\ Compare(a, b) = -Compare(b, a)
                           /\ (a # b /\ Compare(a, b) = 0) => a.plus # b.plus
     /\ \A a, b, v \in valid : Retracted({[low |-> a, high |-> b]}, v) <=> ~Precedes(v, a) /\ ~Precedes(b, v)
     /\ IF valid = {} THEN LatestOf(listed) = NoLatest
        ELSE LatestOf(listed) \in best /\ \A v \in best : ~Precedes(LatestOf(listed), v)
=============================================================================

------------------------------- MODULE Typos -------------------------------
(***************************************************************************)
(* The names of modules that are nearly those of others: what the publish  *)
(* checks say of "owner/name" of a new module, compared without case.      *)
(***************************************************************************)
EXTENDS Integers, Sequences, FiniteSets, FiniteSetsExt, SequencesExt

CONSTANTS Char,      \* characters of names
          MaxName,   \* bound: the length of a name
          ShortName, \* names that are shorter are left alone
          LongName   \* names that are as long may have two typos

ASSUME TyposConstants == {MaxName, ShortName, LongName} \subseteq Nat \ {0}

VARIABLES name, target  \* of the new module, and of one that is popular or well known

typosVars == <<name, target>>

\* Mutant: neighbors that are swapped are two typos.
NoSwap(a, b, i, j) == FALSE
Swapped(a, b, i, j) == i > 1 /\ j > 1 /\ a[i] = b[j - 1] /\ a[i - 1] = b[j]

\* The distance of the first i characters of a to the first j of b, when row
\* is known up to there, and so are the two rows before.
Cell(a, b, i, j, prev2, prev, row) ==
  LET cost == IF a[i] = b[j] THEN 0 ELSE 1
      least == Min({prev[j] + 1, row[j - 1] + 1, prev[j - 1] + cost})
  IN IF Swapped(a, b, i, j) THEN Min({least, prev2[j - 2] + 1}) ELSE least

\* The next row of the table.
NextRow(a, b, i, prev2, prev) ==
  FoldLeft(LAMBDA row, j : [row EXCEPT ![j] = Cell(a, b, i, j, prev2, prev, row)],
           [j \in 0..Len(b) |-> i], [j \in 1..Len(b) |-> j])

Distance(a, b) ==
  LET start == [j \in 0..Len(b) |-> j]
      rows == FoldLeft(LAMBDA two, i : <<two[2], NextRow(a, b, i, two[1], two[2])>>,
                       <<start, start>>, [i \in 1..Len(a) |-> i])
  IN rows[2][Len(b)]

\* Mutant: how many typos a name may have goes by how many it has.
NearAny(a, b) == Distance(a, b) <= 2

NearlyEqual(a, b) ==
  LET limit == IF Len(a) >= LongName THEN 2 ELSE 1 IN
  /\ Len(a) >= ShortName /\ Len(b) >= ShortName
  /\ Len(a) - Len(b) \in -limit..limit
  /\ Distance(a, b) <= limit

\* Typosquat, of one target: hosted, or well known.
Finding(a, b, hosted) ==
  CASE a = b /\ ~hosted -> "impersonation"
    [] a # b /\ NearlyEqual(a, b) -> "typosquatting"
    [] OTHER -> "none"

-----------------------------------------------------------------------------
TyposInit == name = <<>> /\ target = <<>>

Longer(x) == Len(x) < MaxName

TyposNext ==
  \/ \E x \in Char : Longer(name) /\ target = <<>> /\ name' = Append(name, x) /\ target' = target
  \/ \E x \in Char : Longer(target) /\ target' = Append(target, x) /\ name' = name

TyposSpec == TyposInit /\ [][TyposNext]_typosVars

-----------------------------------------------------------------------------
TyposTypeOK == {name, target} \subseteq BoundedSeq(Char, MaxName)

\* What one typo makes of a: a character left out, added or another one, or
\* two neighbors swapped.
OneTypo(a) ==
  {RemoveAt(a, i) : i \in DOMAIN a}
    \cup {InsertAt(a, i, x) : i \in 1..(Len(a) + 1), x \in Char}
    \cup {ReplaceAt(a, i, x) : i \in DOMAIN a, x \in Char}
    \cup {[a EXCEPT ![i] = a[i + 1], ![i + 1] = a[i]] : i \in 1..(Len(a) - 1)}

\* A new name that one typo makes of another one, or the other of it, is
\* flagged, unless one of them is short; so is one that is the same as a
\* well-known one; and what is flagged is one typo away, or two when the
\* name is long.
TyposAreFound ==
  LET short == Len(name) < ShortName \/ Len(target) < ShortName
      one == target \in OneTypo(name)
      two == \E n \in OneTypo(name) : target \in OneTypo(n)
      flag == Finding(name, target, TRUE)
  IN /\ one <=> name \in OneTypo(target)
     /\ name # target /\ one /\ ~short => flag = "typosquatting"
     /\ flag = "typosquatting" => ~short /\ (one \/ (Len(name) >= LongName /\ two))
     /\ name = target => flag = "none" /\ Finding(name, target, FALSE) = "impersonation"
=============================================================================

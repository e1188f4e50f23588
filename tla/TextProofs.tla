----------------------------- MODULE TextProofs -----------------------------
(***************************************************************************)
(* Paths, versions, names and go.mod files mean one thing, of any length:  *)
(* an escaped path comes back as it was, versions are ordered as semver    *)
(* says, the table that is made of two names has their distance, and what  *)
(* is read of a go.mod file is what its lines say.                         *)
(***************************************************************************)
EXTENDS Texts, Sums

-----------------------------------------------------------------------------
(* Paths and their escaped form.                                           *)

\* What a character is in a URL.
Escaped(x) == IF x \in Big THEN <<"!", Lower(x)>> ELSE <<x>>
Character == Small \cup Big \cup Marks
UrlCharacter == Character \cup {"!"}

\* An upper-case letter has its lower-case letter.
LEMMA LowerIs ==
  ASSUME NEW x \in Big
  PROVE  Lower(x) \in Small /\ Capital[Lower(x)] = x
  BY VersionsConstants DEF Lower, VersionsConstants

\* And the other way round.
LEMMA CapitalIs ==
  ASSUME NEW x \in Small
  PROVE  Capital[x] \in Big /\ Lower(Capital[x]) = x
  <1>1. Capital[x] \in Big
    BY VersionsConstants DEF VersionsConstants
  <1>2. Lower(Capital[x]) \in Small /\ Capital[Lower(Capital[x])] = Capital[x]
    BY <1>1, LowerIs
  <1> QED
    BY <1>1, <1>2, VersionsConstants DEF VersionsConstants

\* A character is of one kind.
LEMMA Kinds ==
  /\ Small \cap Big = {} /\ {"!", "/", ".", "-"} \cap (Small \cup Big) = {}
  BY VersionsConstants DEF VersionsConstants

\* One character more makes its escaped form more.
LEMMA EscapeMore ==
  ASSUME NEW s \in Seq(UrlCharacter), NEW x \in UrlCharacter
  PROVE  /\ Escape(s) \in Seq(UrlCharacter) /\ Escaped(x) \in Seq(UrlCharacter)
         /\ Escape(Append(s, x)) = Escape(s) \o Escaped(x)
  <1> DEFINE T == {Escaped(y) : y \in UrlCharacter}
             pages == [i \in DOMAIN s |-> Escaped(s[i])]
             r == Append(s, x)
             more == [i \in DOMAIN r |-> Escaped(r[i])]
  <1>1. ASSUME NEW y \in UrlCharacter PROVE Escaped(y) \in Seq(UrlCharacter)
    <2>1. CASE y \in Big
      <3>1. Lower(y) \in UrlCharacter /\ "!" \in UrlCharacter
        BY <2>1, LowerIs DEF UrlCharacter, Character
      <3>2. <<"!", Lower(y)>> \in Seq(UrlCharacter)
        BY <3>1
      <3> QED
        BY <2>1, <3>2 DEF Escaped
    <2>2. CASE y \notin Big
      <3>1. <<y>> \in Seq(UrlCharacter)
        OBVIOUS
      <3> QED
        BY <2>2, <3>1 DEF Escaped
    <2> QED
      BY <2>1, <2>2
  <1>2. \A t \in T : t \in Seq(UrlCharacter)
    BY <1>1
  <1>3. /\ pages \in Seq(T) /\ Escaped(x) \in T /\ Len(pages) = Len(s)
        /\ \A i \in 1..Len(s) : pages[i] = Escaped(s[i])
    OBVIOUS
  <1>4. /\ r \in Seq(UrlCharacter) /\ Len(r) = Len(s) + 1 /\ r[Len(s) + 1] = x
        /\ \A i \in 1..Len(s) : r[i] = s[i]
    OBVIOUS
  <1>5. more \in Seq(T) /\ Len(more) = Len(s) + 1 /\ \A i \in 1..(Len(s) + 1) : more[i] = Escaped(r[i])
    <2> HIDE DEF r
    <2> QED
      BY <1>4
  <1>6. more = Append(pages, Escaped(x))
    <2> HIDE DEF T, pages, more, r
    <2> PICK a : a = Append(pages, Escaped(x))
      OBVIOUS
    <2> PICK n : n = Len(s)
      OBVIOUS
    <2>0. n \in Nat
      OBVIOUS
    <2>1. a \in Seq(T) /\ Len(a) = n + 1 /\ a[n + 1] = Escaped(x) /\ \A i \in 1..n : a[i] = pages[i]
      BY <1>3
    <2>2. \A i \in 1..(n + 1) : more[i] = a[i]
      <3>1. \A i \in 1..(n + 1) : i = n + 1 \/ i \in 1..n
        BY <2>0
      <3> QED
        BY <1>3, <1>4, <1>5, <2>1, <3>1
    <2> QED
      BY <1>5, <2>1, <2>2, SameList
  <1>7. Escape(s) = FlattenSeq(pages) /\ Escape(Append(s, x)) = FlattenSeq(more)
    BY DEF Escape, Escaped
  <1> HIDE DEF T, pages, more, r
  <1>8. FlattenSeq(pages) \in Seq(UrlCharacter) /\ FlattenSeq(Append(pages, Escaped(x))) = FlattenSeq(pages) \o Escaped(x)
    <2>1. pages \in Seq(T) /\ Escaped(x) \in T
      BY <1>3
    <2>2. \A f \in Seq(T), p \in T : /\ FlattenSeq(f) \in Seq(UrlCharacter)
                                      /\ FlattenSeq(Append(f, p)) = FlattenSeq(f) \o p
      BY <1>2, FlattenMore, Zenon
    <2> QED
      BY <2>1, <2>2, Zenon
  <1> QED
    BY <1>1, <1>6, <1>7, <1>8

\* A URL so far, which may end in a mark.
Half(s) == \A i \in DOMAIN s : s[i] \notin Big /\ (s[i] = "!" /\ i < Len(s) => s[i + 1] \in Small)
Ends(s) == Len(s) # 0 /\ s[Len(s)] = "!"

\* What a character of a URL is read as, after a mark or not.
ReadAs(marked, x) == IF x = "!" THEN <<>> ELSE IF marked THEN <<Capital[x]>> ELSE <<x>>

\* A URL is one so far that does not end in a mark.
LEMMA WholeIs ==
  ASSUME NEW s \in Seq(UrlCharacter)
  PROVE  Unescapable(s) <=> Half(s) /\ ~Ends(s)
  <1> PICK n : n = Len(s)
    OBVIOUS
  <1>1. n \in Nat /\ DOMAIN s = 1..n
    OBVIOUS
  <1>2. ASSUME Unescapable(s) PROVE Half(s) /\ ~Ends(s)
    <2>1. \A i \in 1..n : s[i] \notin Big /\ (s[i] = "!" => i < n /\ s[i + 1] \in Small)
      BY <1>1, <1>2 DEF Unescapable
    <2>2. n # 0 => n \in 1..n /\ ~(n < n)
      BY <1>1
    <2> QED
      BY <1>1, <2>1, <2>2 DEF Half, Ends
  <1>3. ASSUME Half(s), ~Ends(s) PROVE Unescapable(s)
    <2>1. \A i \in 1..n : i < n \/ i = n
      BY <1>1
    <2>2. n # 0 => s[n] # "!"
      BY <1>3 DEF Ends
    <2>3. \A i \in 1..n : i = n => n # 0
      BY <1>1
    <2> QED
      BY <1>1, <1>3, <2>1, <2>2, <2>3 DEF Half, Unescapable
  <1> QED
    BY <1>2, <1>3

\* A URL so far and one character more.
LEMMA HalfMore ==
  ASSUME NEW s \in Seq(UrlCharacter), NEW x \in UrlCharacter
  PROVE  /\ Half(Append(s, x)) <=> Half(s) /\ x \notin Big /\ (Ends(s) => x \in Small)
         /\ Ends(Append(s, x)) <=> x = "!"
  <1> PICK n : n = Len(s)
    OBVIOUS
  <1> PICK r : r = Append(s, x)
    OBVIOUS
  <1>1. /\ n \in Nat /\ DOMAIN s = 1..n /\ Len(r) = n + 1 /\ DOMAIN r = 1..(n + 1)
        /\ r[n + 1] = x /\ \A i \in 1..n : r[i] = s[i]
    OBVIOUS
  <1>2. Ends(r) <=> x = "!"
    BY <1>1 DEF Ends
  <1>3. ASSUME Half(r) PROVE Half(s) /\ x \notin Big /\ (Ends(s) => x \in Small)
    <2>1. \A i \in 1..n : i \in 1..(n + 1) /\ i < n + 1 /\ (i < n => i + 1 \in 1..n) /\ (i = n => n \in 1..n)
      BY <1>1
    <2>2. \A i \in 1..n : s[i] \notin Big /\ (s[i] = "!" => r[i + 1] \in Small)
      BY <1>1, <1>3, <2>1 DEF Half
    <2>3. Half(s)
      BY <1>1, <2>1, <2>2 DEF Half
    <2>4. Ends(s) => x \in Small
      <3>1. n # 0 => n \in 1..n
        BY <1>1
      <3> QED
        BY <1>1, <2>2, <3>1 DEF Ends
    <2>5. x \notin Big
      <3>1. n + 1 \in 1..(n + 1)
        BY <1>1
      <3> QED
        BY <1>1, <1>3, <3>1 DEF Half
    <2> QED
      BY <2>3, <2>4, <2>5
  <1>4. ASSUME Half(s), x \notin Big, Ends(s) => x \in Small PROVE Half(r)
    <2>1. ASSUME NEW i \in 1..(n + 1)
          PROVE  r[i] \notin Big /\ (r[i] = "!" /\ i < n + 1 => r[i + 1] \in Small)
      <3>1. CASE i = n + 1
        BY <1>1, <1>4, <3>1
      <3>2. CASE i = n
        <4>1. n # 0 /\ n \in 1..n
          BY <1>1, <2>1, <3>2
        <4>2. r[i] = s[n] /\ r[i + 1] = x /\ s[n] \notin Big
          BY <1>1, <1>4, <3>2, <4>1 DEF Half
        <4> QED
          BY <1>1, <1>4, <4>1, <4>2 DEF Ends
      <3>3. CASE i < n
        <4>1. i \in 1..n /\ i + 1 \in 1..n
          BY <1>1, <2>1, <3>3
        <4>2. r[i] = s[i] /\ r[i + 1] = s[i + 1]
          BY <1>1, <4>1
        <4> QED
          BY <1>1, <1>4, <3>3, <4>1, <4>2 DEF Half
      <3> QED
        BY <1>1, <3>1, <3>2, <3>3
    <2> QED
      BY <1>1, <2>1 DEF Half
  <1> QED
    BY <1>2, <1>3, <1>4

\* One character more of a URL makes what it is read as more.
LEMMA UnescapeMore ==
  ASSUME NEW s \in Seq(UrlCharacter), NEW x \in UrlCharacter, Half(Append(s, x))
  PROVE  /\ Unescape(s) \in Seq(UrlCharacter) /\ ReadAs(Ends(s), x) \in Seq(UrlCharacter)
         /\ Unescape(Append(s, x)) = Unescape(s) \o ReadAs(Ends(s), x)
  <1> DEFINE n == Len(s)
             r == Append(s, x)
             At(t, i) == ReadAs(i > 1 /\ t[i - 1] = "!", t[i])
             T == {<<>>} \cup {<<y>> : y \in UrlCharacter}
             pages == [i \in 1..n |-> At(s, i)]
             more == [i \in 1..(n + 1) |-> At(r, i)]
  <1>1. /\ n \in Nat /\ DOMAIN s = 1..n /\ Len(r) = n + 1 /\ DOMAIN r = 1..(n + 1)
        /\ r[n + 1] = x /\ (\A i \in 1..n : r[i] = s[i]) /\ \A i \in 1..(n + 1) : r[i] \in UrlCharacter
    OBVIOUS
  <1> HIDE DEF n, r
  <1>2. Half(s) /\ Half(r)
    BY HalfMore DEF r
  <1>3. ASSUME NEW i \in 1..(n + 1) PROVE i > 1 /\ r[i - 1] = "!" => r[i] \in Small
    <2>1. i > 1 => i - 1 \in 1..(n + 1) /\ i - 1 < n + 1 /\ (i - 1) + 1 = i
      BY <1>1
    <2> QED
      BY <1>1, <1>2, <2>1 DEF Half
  <1>4. ASSUME NEW i \in 1..n PROVE At(r, i) = At(s, i)
    <2>1. i > 1 => i - 1 \in 1..n
      BY <1>1
    <2>2. r[i] = s[i] /\ (i > 1 => r[i - 1] = s[i - 1])
      BY <1>1, <2>1
    <2> QED
      BY <2>2 DEF ReadAs
  <1>5. ASSUME NEW i \in 1..(n + 1) PROVE At(r, i) \in T
    <2>1. r[i] \in UrlCharacter
      BY <1>1
    <2>2. i > 1 /\ r[i - 1] = "!" => Capital[r[i]] \in UrlCharacter
      BY <1>3, CapitalIs DEF UrlCharacter, Character
    <2> QED
      BY <2>1, <2>2 DEF ReadAs
  <1>6. At(r, n + 1) = ReadAs(Ends(s), x)
    <2>1. CASE n = 0
      <3>1. ~(n + 1 > 1) /\ ~Ends(s)
        BY <2>1 DEF Ends, n
      <3> QED
        BY <1>1, <3>1 DEF ReadAs
    <2>2. CASE n # 0
      <3>1. n + 1 > 1 /\ (n + 1) - 1 = n /\ n \in 1..n
        BY <1>1, <2>2
      <3>2. Ends(s) <=> s[n] = "!"
        BY <2>2 DEF Ends, n
      <3>3. (n + 1 > 1 /\ r[(n + 1) - 1] = "!") <=> Ends(s)
        BY <1>1, <3>1, <3>2
      <3> QED
        BY <1>1, <3>3 DEF ReadAs
    <2> QED
      BY <2>1, <2>2
  <1>7. Unescape(s) = FlattenSeq(pages)
    <2>1. [i \in DOMAIN s |->
             CASE s[i] = "!" -> <<>>
               [] i > 1 /\ s[i - 1] = "!" -> <<Capital[s[i]]>>
               [] OTHER -> <<s[i]>>] = pages
      <3>1. ASSUME NEW i \in 1..n
            PROVE  (CASE s[i] = "!" -> <<>>
                      [] i > 1 /\ s[i - 1] = "!" -> <<Capital[s[i]]>>
                      [] OTHER -> <<s[i]>>) = At(s, i)
        <4>1. i \in 1..(n + 1) /\ (i > 1 => i - 1 \in 1..n)
          BY <1>1
        <4>2. i > 1 /\ s[i - 1] = "!" => s[i] \in Small
          BY <1>1, <1>3, <4>1
        <4>3. i > 1 /\ s[i - 1] = "!" => s[i] # "!"
          BY <4>2, Kinds
        <4> QED
          BY <4>3 DEF ReadAs
      <3> QED
        BY <1>1, <3>1
    <2> HIDE DEF pages
    <2> QED
      BY <2>1 DEF Unescape
  <1>8. Unescape(r) = FlattenSeq(more)
    <2>1. [i \in DOMAIN r |->
             CASE r[i] = "!" -> <<>>
               [] i > 1 /\ r[i - 1] = "!" -> <<Capital[r[i]]>>
               [] OTHER -> <<r[i]>>] = more
      <3>1. ASSUME NEW i \in 1..(n + 1)
            PROVE  (CASE r[i] = "!" -> <<>>
                      [] i > 1 /\ r[i - 1] = "!" -> <<Capital[r[i]]>>
                      [] OTHER -> <<r[i]>>) = At(r, i)
        <4>1. i > 1 /\ r[i - 1] = "!" => r[i] # "!"
          BY <1>3, Kinds
        <4> QED
          BY <4>1 DEF ReadAs
      <3> QED
        BY <1>1, <3>1
    <2> HIDE DEF more
    <2> QED
      BY <2>1 DEF Unescape
  <1>9. pages \in Seq(T) /\ Len(pages) = n /\ At(r, n + 1) \in T
        /\ \A i \in 1..n : pages[i] = At(s, i)
    <2>1. \A i \in 1..n : At(s, i) \in T
      <3>1. \A i \in 1..n : i \in 1..(n + 1)
        BY <1>1
      <3> HIDE DEF T, At
      <3> QED
        BY <1>4, <1>5, <3>1
    <2>2. n + 1 \in 1..(n + 1)
      BY <1>1
    <2> HIDE DEF T, At
    <2> QED
      BY <1>1, <1>5, <2>1, <2>2
  <1>10. more = Append(pages, At(r, n + 1))
    <2>1. more \in Seq(T) /\ Len(more) = n + 1 /\ \A i \in 1..(n + 1) : more[i] = At(r, i)
      <3> HIDE DEF T, At
      <3> QED
        BY <1>1, <1>5
    <2> HIDE DEF T, At, pages, more
    <2> PICK a : a = Append(pages, At(r, n + 1))
      OBVIOUS
    <2>2. a \in Seq(T) /\ Len(a) = n + 1 /\ a[n + 1] = At(r, n + 1) /\ \A i \in 1..n : a[i] = pages[i]
      BY <1>9
    <2>3. \A i \in 1..(n + 1) : more[i] = a[i]
      <3>1. \A i \in 1..(n + 1) : i = n + 1 \/ i \in 1..n
        BY <1>1
      <3> QED
        BY <1>4, <1>9, <2>1, <2>2, <3>1
    <2> QED
      BY <2>1, <2>2, <2>3, SameList
  <1>11. \A t \in T : t \in Seq(UrlCharacter)
    <2>1. \A y \in UrlCharacter : <<y>> \in Seq(UrlCharacter)
      OBVIOUS
    <2>2. <<>> \in Seq(UrlCharacter)
      OBVIOUS
    <2> QED
      BY <2>1, <2>2
  <1>12. \A f \in Seq(T), p \in T : /\ FlattenSeq(f) \in Seq(UrlCharacter)
                                     /\ FlattenSeq(Append(f, p)) = FlattenSeq(f) \o p
    <2> HIDE DEF T
    <2> QED
      BY <1>11, FlattenMore, Zenon
  <1> HIDE DEF T, At, pages, more
  <1>13. ReadAs(Ends(s), x) \in Seq(UrlCharacter)
    BY <1>6, <1>9, <1>11
  <1>14. FlattenSeq(pages) \in Seq(UrlCharacter) /\ FlattenSeq(more) = FlattenSeq(pages) \o At(r, n + 1)
    BY <1>9, <1>10, <1>12, Zenon
  <1> QED
    BY <1>6, <1>7, <1>8, <1>13, <1>14, Zenon DEF r

\* A path comes back from its escaped form.
EscapesTo(s, u) ==
  u \in Seq(UrlCharacter) /\ Half(u) /\ ~Ends(u) /\ Unescape(u) = s

\* Of any text without a mark.
LEMMA EscapeReads ==
  ASSUME NEW s \in Seq(UrlCharacter), \A i \in DOMAIN s : s[i] # "!"
  PROVE  EscapesTo(s, Escape(s))
  <1> DEFINE Plain(t) == \A i \in 1..Len(t) : t[i] # "!"
             Bad == {n \in Nat : \E t \in Seq(UrlCharacter) : Len(t) = n /\ Plain(t) /\ ~EscapesTo(t, Escape(t))}
  <1>1. ASSUME Bad # {} PROVE FALSE
    <2>1. PICK n \in Bad : \A k \in Bad : n <= k
      BY <1>1, LeastNat
    <2>2. PICK t \in Seq(UrlCharacter) : Len(t) = n /\ Plain(t) /\ ~EscapesTo(t, Escape(t))
      <3> HIDE DEF Plain
      <3> QED
        BY <2>1
    <2>3. CASE n = 0
      <3>1. t = <<>>
        BY <2>2, <2>3
      <3>2. Escape(<<>>) = <<>> /\ Unescape(<<>>) = <<>>
        BY FlattenNone DEF Escape, Unescape
      <3>3. EscapesTo(<<>>, <<>>)
        BY <3>2 DEF EscapesTo, Half, Ends
      <3> QED
        BY <2>2, <3>1, <3>2, <3>3
    <2>4. CASE n # 0
      <3>1. PICK r \in Seq(UrlCharacter), x \in UrlCharacter : t = Append(r, x) /\ Len(t) = Len(r) + 1
        BY <2>2, <2>4, LastAppended
      <3>2. Plain(r) /\ x # "!" /\ Len(r) \in Nat /\ Len(r) = n - 1
        <4>1. /\ Len(r) \in Nat /\ t[Len(r) + 1] = x /\ Len(r) + 1 \in 1..Len(t)
              /\ \A i \in 1..Len(r) : t[i] = r[i] /\ i \in 1..Len(t)
          BY <3>1
        <4>2. t[Len(r) + 1] # "!"
          BY <2>2, <4>1
        <4>3. \A i \in 1..Len(r) : r[i] # "!"
          BY <2>2, <4>1
        <4>4. Len(r) = n - 1
          BY <2>2, <3>1, <4>1
        <4> QED
          BY <4>1, <4>2, <4>3, <4>4
      <3>3. EscapesTo(r, Escape(r))
        <4>1. Len(r) \notin Bad
          BY <2>1, <3>2
        <4> HIDE DEF Plain
        <4> QED
          BY <3>2, <4>1
      <3> PICK u : u = Escape(r)
        OBVIOUS
      <3>4. u \in Seq(UrlCharacter) /\ Half(u) /\ ~Ends(u) /\ Unescape(u) = r
        BY <3>3 DEF EscapesTo
      <3>5. Escape(t) = u \o Escaped(x)
        BY <3>1, EscapeMore
      <3>6. CASE x \in Big
        <4> PICK low : low = Lower(x)
          OBVIOUS
        <4>1. low \in Small /\ Capital[low] = x /\ low # "!" /\ low \notin Big
          BY <3>6, LowerIs, Kinds
        <4>2. "!" \in UrlCharacter /\ "!" \notin Big /\ low \in UrlCharacter
          BY <4>1, Kinds DEF UrlCharacter, Character
        <4> DEFINE v == Append(u, "!")
                   w == Append(v, low)
        <4>3. v \in Seq(UrlCharacter) /\ Half(v) /\ Ends(v)
          BY <3>4, <4>2, HalfMore
        <4>4. w \in Seq(UrlCharacter) /\ Half(w) /\ ~Ends(w)
          <5> HIDE DEF v
          <5> QED
            BY <4>1, <4>2, <4>3, HalfMore
        <4>5. Unescape(v) = r
          <5>1. Unescape(v) = Unescape(u) \o ReadAs(Ends(u), "!")
            BY <3>4, <4>2, <4>3, UnescapeMore
          <5>2. ReadAs(Ends(u), "!") = <<>>
            BY DEF ReadAs
          <5> QED
            BY <3>4, <5>1, <5>2, SMTT(30)
        <4>6. Unescape(w) = t
          <5>1. Unescape(w) = Unescape(v) \o ReadAs(Ends(v), low)
            <6> HIDE DEF v
            <6> QED
              BY <4>2, <4>3, <4>4, UnescapeMore
          <5>2. ReadAs(Ends(v), low) = <<x>>
            BY <4>1, <4>3 DEF ReadAs
          <5>3. r \o <<x>> = Append(r, x)
            OBVIOUS
          <5> QED
            BY <3>1, <4>5, <5>1, <5>2, <5>3
        <4>7. Escape(t) = w
          <5>1. Escaped(x) = <<"!", low>>
            BY <3>6 DEF Escaped
          <5>2. u \o <<"!", low>> = w
            BY <3>4, <4>2
          <5> QED
            BY <3>5, <5>1, <5>2
        <4> QED
          BY <2>2, <4>4, <4>6, <4>7 DEF EscapesTo
      <3>7. CASE x \notin Big
        <4> DEFINE w == Append(u, x)
        <4>1. w \in Seq(UrlCharacter) /\ Half(w) /\ ~Ends(w)
          BY <3>2, <3>4, <3>7, HalfMore
        <4>2. Unescape(w) = t
          <5>1. Unescape(w) = Unescape(u) \o ReadAs(Ends(u), x)
            BY <3>4, <4>1, UnescapeMore
          <5>2. ReadAs(Ends(u), x) = <<x>>
            BY <3>2, <3>4 DEF ReadAs
          <5>3. r \o <<x>> = Append(r, x)
            OBVIOUS
          <5> QED
            BY <3>1, <3>4, <5>1, <5>2, <5>3
        <4>3. Escape(t) = w
          <5>1. Escaped(x) = <<x>>
            BY <3>7 DEF Escaped
          <5>2. u \o <<x>> = w
            BY <3>4
          <5> QED
            BY <3>5, <5>1, <5>2
        <4> QED
          BY <2>2, <4>1, <4>2, <4>3 DEF EscapesTo
      <3> QED
        BY <3>6, <3>7
    <2> QED
      BY <2>3, <2>4
  <1>2. Plain(s)
    OBVIOUS
  <1>3. Len(s) \in Nat /\ Len(s) \notin Bad
    BY <1>1
  <1> HIDE DEF Plain
  <1> QED
    BY <1>2, <1>3

\* What is left of a URL so far.
Rest(s) == IF Ends(s) THEN <<"!">> ELSE <<>>
ComesFrom(s, t) == t \in Seq(UrlCharacter) /\ s = Escape(t) \o Rest(s)

\* A URL so far is the escaped form of what it is read as, and a mark.
LEMMA ReadEscapes ==
  ASSUME NEW s \in Seq(UrlCharacter), Half(s)
  PROVE  ComesFrom(s, Unescape(s))
  <1> DEFINE Bad == {n \in Nat : \E t \in Seq(UrlCharacter) : Len(t) = n /\ Half(t) /\ ~ComesFrom(t, Unescape(t))}
  <1>1. ASSUME Bad # {} PROVE FALSE
    <2>1. PICK n \in Bad : \A k \in Bad : n <= k
      BY <1>1, LeastNat
    <2>2. PICK t \in Seq(UrlCharacter) : Len(t) = n /\ Half(t) /\ ~ComesFrom(t, Unescape(t))
      BY <2>1
    <2>3. CASE n = 0
      <3>1. t = <<>>
        BY <2>2, <2>3
      <3>2. Escape(<<>>) = <<>> /\ Unescape(<<>>) = <<>>
        BY FlattenNone DEF Escape, Unescape
      <3>3. Rest(<<>>) = <<>> /\ <<>> \o <<>> = <<>> /\ <<>> \in Seq(UrlCharacter)
        BY DEF Rest, Ends
      <3> QED
        BY <2>2, <3>1, <3>2, <3>3 DEF ComesFrom
    <2>4. CASE n # 0
      <3>1. PICK r \in Seq(UrlCharacter), x \in UrlCharacter : t = Append(r, x) /\ Len(t) = Len(r) + 1
        BY <2>2, <2>4, LastAppended
      <3>2. Half(r) /\ x \notin Big /\ (Ends(r) => x \in Small) /\ (Ends(t) <=> x = "!")
        BY <2>2, <3>1, HalfMore
      <3>3. ComesFrom(r, Unescape(r))
        <4>1. Len(r) \in Nat /\ Len(r) \notin Bad
          BY <2>1, <2>2, <3>1
        <4> QED
          BY <3>2, <4>1
      <3> PICK u : u = Unescape(r)
        OBVIOUS
      <3> PICK e : e = Escape(u)
        OBVIOUS
      <3>4. u \in Seq(UrlCharacter) /\ r = e \o Rest(r) /\ e \in Seq(UrlCharacter)
        BY <3>2, <3>3, EscapeMore DEF ComesFrom
      <3>5. Unescape(t) = u \o ReadAs(Ends(r), x)
        BY <2>2, <3>1, UnescapeMore
      <3>6. CASE Ends(r)
        <4> PICK y : y = Capital[x]
          OBVIOUS
        <4>1. y \in Big /\ Lower(y) = x /\ y \in UrlCharacter /\ x # "!"
          BY <3>2, <3>6, CapitalIs, Kinds DEF UrlCharacter, Character
        <4>2. Unescape(t) = Append(u, y)
          <5>1. ReadAs(Ends(r), x) = <<y>>
            BY <3>6, <4>1 DEF ReadAs
          <5> QED
            BY <3>4, <3>5, <5>1
        <4>3. Escape(Append(u, y)) = e \o <<"!", x>>
          <5>1. Escaped(y) = <<"!", x>>
            BY <4>1 DEF Escaped
          <5>2. Escape(Append(u, y)) = Escape(u) \o Escaped(y)
            BY <3>4, <4>1, EscapeMore
          <5> QED
            BY <5>1, <5>2
        <4>4. Rest(r) = <<"!">> /\ Rest(t) = <<>>
          BY <3>2, <3>6, <4>1 DEF Rest
        <4>5. (e \o <<"!", x>>) \o <<>> = Append(e \o <<"!">>, x)
          <5>1. "!" \in UrlCharacter
            BY DEF UrlCharacter
          <5> QED
            BY <3>4, <5>1
        <4>6. Append(u, y) \in Seq(UrlCharacter)
          BY <3>4, <4>1
        <4> QED
          BY <2>2, <3>1, <3>4, <4>2, <4>3, <4>4, <4>5, <4>6 DEF ComesFrom
      <3>7. CASE ~Ends(r) /\ x = "!"
        <4>1. Unescape(t) = u
          <5>1. ReadAs(Ends(r), x) = <<>>
            BY <3>7 DEF ReadAs
          <5> QED
            BY <3>4, <3>5, <5>1
        <4>2. Rest(r) = <<>> /\ Rest(t) = <<"!">>
          BY <3>2, <3>7 DEF Rest
        <4>3. Append(e \o <<>>, "!") = e \o <<"!">>
          BY <3>4
        <4> QED
          BY <2>2, <3>1, <3>4, <3>7, <4>1, <4>2, <4>3 DEF ComesFrom
      <3>8. CASE ~Ends(r) /\ x # "!"
        <4>1. Unescape(t) = Append(u, x)
          <5>1. ReadAs(Ends(r), x) = <<x>>
            BY <3>8 DEF ReadAs
          <5> QED
            BY <3>4, <3>5, <5>1
        <4>2. Rest(r) = <<>> /\ Rest(t) = <<>>
          BY <3>2, <3>8 DEF Rest
        <4>3. Escape(Append(u, x)) = e \o <<x>>
          <5>1. Escaped(x) = <<x>>
            BY <3>2 DEF Escaped
          <5>2. Escape(Append(u, x)) = Escape(u) \o Escaped(x)
            BY <3>1, <3>4, EscapeMore
          <5> QED
            BY <5>1, <5>2
        <4>4. (e \o <<x>>) \o <<>> = Append(e \o <<>>, x) /\ Append(u, x) \in Seq(UrlCharacter)
          BY <3>4
        <4> QED
          BY <2>2, <3>1, <3>4, <4>1, <4>2, <4>3, <4>4 DEF ComesFrom
      <3> QED
        BY <3>6, <3>7, <3>8
    <2> QED
      BY <2>3, <2>4
  <1>2. Len(s) \in Nat /\ Len(s) \notin Bad
    BY <1>1
  <1> QED
    BY <1>2

\* A text is one of characters.
TextIsTyped == text \in Seq(Character)

\* A text of such characters means one path, in either form.
LEMMA TextsAreNotConfused == TextIsTyped => PathsAreNotConfused
  <1> SUFFICES ASSUME TextIsTyped PROVE PathsAreNotConfused
    OBVIOUS
  <1>0. text \in Seq(Character) /\ text \in Seq(UrlCharacter)
    <2>1. Character \subseteq UrlCharacter
      BY DEF UrlCharacter
    <2> QED
      BY <2>1, ListOfMore DEF TextIsTyped
  <1>1. ASSUME CheckPath(text)
        PROVE  Range(Escape(text)) \cap Big = {} /\ Unescapable(Escape(text)) /\ Unescape(Escape(text)) = text
    <2>1. \A i \in DOMAIN text : text[i] # "!"
      <3>1. \A i \in DOMAIN text : text[i] \in PathChar \cup {"/"}
        BY <1>1 DEF CheckPath, Range
      <3>2. "!" \notin PathChar \cup {"/"}
        BY Kinds DEF PathChar
      <3> QED
        BY <3>1, <3>2
    <2> PICK u : u = Escape(text)
      OBVIOUS
    <2>2. u \in Seq(UrlCharacter) /\ Half(u) /\ ~Ends(u) /\ Unescape(u) = text
      BY <1>0, <2>1, EscapeReads DEF EscapesTo
    <2>3. Range(u) \cap Big = {}
      BY <2>2 DEF Half, Range
    <2> QED
      BY <2>2, <2>3, WholeIs
  <1>2. ASSUME Unescapable(text) PROVE Escape(Unescape(text)) = text
    <2>1. Half(text) /\ ~Ends(text)
      BY <1>0, <1>2, WholeIs
    <2> PICK t : t = Unescape(text)
      OBVIOUS
    <2>2. t \in Seq(UrlCharacter) /\ text = Escape(t) \o Rest(text)
      BY <1>0, <2>1, ReadEscapes DEF ComesFrom
    <2>3. Escape(t) \in Seq(UrlCharacter)
      <3>1. UrlCharacter # {}
        BY DEF UrlCharacter
      <3> QED
        BY <2>2, <3>1, EscapeMore
    <2> QED
      BY <2>1, <2>2, <2>3 DEF Rest
  <1> QED
    BY <1>1, <1>2 DEF PathsAreNotConfused

\* A path comes back from its escaped form, and a URL from what it is read
\* as, whatever the letters are and however long the text is.
THEOREM PathsComeBack == VersionsSpec => []PathsAreNotConfused
  <1>1. VersionsInit => TextIsTyped
    BY DEF VersionsInit, TextIsTyped
  <1>2. TextIsTyped /\ [VersionsNext]_versionsVars => TextIsTyped'
    BY DEF TextIsTyped, VersionsNext, Types, Lists, versionsVars, Character
  <1> QED
    BY <1>1, <1>2, TextsAreNotConfused, PTL DEF VersionsSpec

-----------------------------------------------------------------------------
(* Comparisons that are orders.                                            *)

\* r says -1, 0 or 1 of two of a set, as Go's comparisons do, and orders it.
IsOrder(r, S) ==
  /\ \A x, y \in S : r[<<x, y>>] \in {-1, 0, 1}
  /\ \A x, y \in S : r[<<x, y>>] = 0 <=> x = y
  /\ \A x, y \in S : r[<<y, x>>] = -r[<<x, y>>]
  /\ \A x, y, z \in S : r[<<x, y>>] = -1 /\ r[<<y, z>>] = -1 => r[<<x, z>>] = -1

\* Two lists differ first at d, or one is the beginning of the other.
FirstAt(a, b, d) ==
  /\ d \in 1..Len(a) /\ d \in 1..Len(b) /\ a[d] # b[d]
  /\ \A i \in 1..(d - 1) : a[i] = b[i]
Alike(a, b) == \A i \in 1..Len(a) : i <= Len(b) => a[i] = b[i]

\* Where two lists differ.
Differ(a, b) == {i \in 1..Min({Len(a), Len(b)}) : a[i] # b[i]}

\* The smallest of numbers.
LEMMA MinOf ==
  ASSUME NEW T \in SUBSET Nat, T # {}
  PROVE  Min(T) \in T /\ \A m \in T : Min(T) <= m
  <1>1. PICK n \in T : \A m \in T : n <= m
    BY LeastNat
  <1> QED
    BY <1>1 DEF Min

\* Lists are alike where there are both, or there is a first difference.
LEMMA FirstDifference ==
  ASSUME NEW S, NEW a \in Seq(S), NEW b \in Seq(S)
  PROVE  \/ Differ(a, b) = {} /\ Alike(a, b)
         \/ Differ(a, b) # {} /\ FirstAt(a, b, Min(Differ(a, b)))
  <1> PICK m : m = Len(a)
    OBVIOUS
  <1> PICK n : n = Len(b)
    OBVIOUS
  <1>1. m \in Nat /\ n \in Nat
    OBVIOUS
  <1>2. Min({m, n}) = Least(m, n)
    BY <1>1, LeastIsMin
  <1>3. Differ(a, b) = {i \in 1..Least(m, n) : a[i] # b[i]}
    BY <1>2 DEF Differ
  <1>4. \A i \in 1..m : i <= n <=> i \in 1..Least(m, n)
    BY <1>1 DEF Least
  <1>5. Least(m, n) \in Nat /\ Least(m, n) <= m /\ Least(m, n) <= n
    BY <1>1 DEF Least
  <1>6. CASE Differ(a, b) = {}
    BY <1>3, <1>4, <1>6 DEF Alike
  <1>7. CASE Differ(a, b) # {}
    <2> PICK d : d = Min(Differ(a, b))
      OBVIOUS
    <2>1. d \in Differ(a, b) /\ \A i \in Differ(a, b) : d <= i
      <3>1. Differ(a, b) \in SUBSET Nat
        BY <1>3, <1>5
      <3> QED
        BY <1>7, <3>1, MinOf
    <2>2. d \in 1..Least(m, n) /\ a[d] # b[d]
      BY <1>3, <2>1
    <2>3. ASSUME NEW i \in 1..(d - 1) PROVE a[i] = b[i]
      <3>1. i \in 1..Least(m, n) /\ ~(d <= i)
        BY <1>5, <2>2
      <3> QED
        BY <1>3, <2>1, <3>1
    <2>4. d \in 1..m /\ d \in 1..n
      BY <1>1, <1>5, <2>2
    <2> QED
      BY <1>7, <2>2, <2>3, <2>4 DEF FirstAt
  <1> QED
    BY <1>6, <1>7

\* There is only one first difference, and it is the same the other way.
LEMMA OneDifference ==
  ASSUME NEW S, NEW a \in Seq(S), NEW b \in Seq(S), NEW d, NEW e, FirstAt(a, b, d)
  PROVE  /\ FirstAt(b, a, e) => d = e
         /\ FirstAt(a, b, e) => d = e
         /\ ~Alike(a, b) /\ ~Alike(b, a) /\ a # b
  <1>1. d \in Nat /\ d >= 1 /\ d <= Len(a) /\ d <= Len(b) /\ Len(a) \in Nat /\ Len(b) \in Nat
    BY DEF FirstAt
  <1>2. ASSUME FirstAt(b, a, e) \/ FirstAt(a, b, e) PROVE d = e
    <2>1. e \in Nat /\ e >= 1 /\ a[e] # b[e] /\ \A i \in 1..(e - 1) : a[i] = b[i]
      BY <1>2, SMTT(30) DEF FirstAt
    <2>2. a[d] # b[d] /\ \A i \in 1..(d - 1) : a[i] = b[i]
      BY DEF FirstAt
    <2>3. ~(e < d)
      <3>1. e < d => e \in 1..(d - 1)
        BY <1>1, <2>1
      <3> QED
        BY <2>1, <2>2, <3>1
    <2>4. ~(d < e)
      <3>1. d < e => d \in 1..(e - 1)
        BY <1>1, <2>1
      <3> QED
        BY <2>1, <2>2, <3>1
    <2> QED
      BY <1>1, <2>1, <2>3, <2>4
  <1>3. ~Alike(a, b) /\ ~Alike(b, a) /\ a # b
    BY <1>1 DEF FirstAt, Alike
  <1> QED
    BY <1>2, <1>3

\* What a comparison of lists by their first difference says.
LexIs(r, a, b, c) ==
  \/ Alike(a, b) /\ c = Sign(Len(a), Len(b))
  \/ \E d : FirstAt(a, b, d) /\ c = r[<<a[d], b[d]>>]
Lex(r, a, b) ==
  IF Differ(a, b) = {} THEN Sign(Len(a), Len(b))
  ELSE r[<<a[Min(Differ(a, b))], b[Min(Differ(a, b))]>>]

\* And this is what the code's loop over two lists comes to.
LEMMA LexSays ==
  ASSUME NEW S, NEW r, NEW a \in Seq(S), NEW b \in Seq(S)
  PROVE  LexIs(r, a, b, Lex(r, a, b))
  BY FirstDifference DEF LexIs, Lex

\* Lengths are compared as numbers are.
LEMMA SignIs ==
  ASSUME NEW x \in Int, NEW y \in Int
  PROVE  /\ Sign(x, y) \in {-1, 0, 1} /\ (Sign(x, y) = 0 <=> x = y)
         /\ Sign(y, x) = -Sign(x, y) /\ (Sign(x, y) = -1 <=> x < y)
  BY DEF Sign

\* a is the beginning of b, or the first that differs is less.
BeforeBy(r, a, b) ==
  \E i \in 1..Len(b) :
    /\ \A j \in 1..(i - 1) : j <= Len(a) /\ a[j] = b[j]
    /\ Len(a) < i \/ r[<<a[i], b[i]>>] = -1

\* One list before another one: what it means.
LEMMA LexMeans ==
  ASSUME NEW S, NEW r, IsOrder(r, S), NEW a \in Seq(S), NEW b \in Seq(S)
  PROVE  Lex(r, a, b) = -1 <=> BeforeBy(r, a, b)
  <1> PICK m : m = Len(a)
    OBVIOUS
  <1> PICK n : n = Len(b)
    OBVIOUS
  <1>1. m \in Nat /\ n \in Nat /\ (\A i \in 1..m : a[i] \in S) /\ \A i \in 1..n : b[i] \in S
    OBVIOUS
  <1>2. LexIs(r, a, b, Lex(r, a, b))
    BY LexSays
  <1>3. CASE Alike(a, b) /\ Lex(r, a, b) = Sign(m, n)
    <2>1. ASSUME m < n
          PROVE  \E i \in 1..n : (\A j \in 1..(i - 1) : j <= m /\ a[j] = b[j]) /\ (m < i \/ r[<<a[i], b[i]>>] = -1)
      <3>1. m + 1 \in 1..n /\ m < m + 1 /\ \A j \in 1..((m + 1) - 1) : j <= m /\ j \in 1..m /\ j <= n
        BY <1>1, <2>1
      <3>2. \A j \in 1..((m + 1) - 1) : a[j] = b[j]
        BY <1>3, <3>1 DEF Alike
      <3> QED
        BY <3>1, <3>2
    <2>2. ASSUME NEW i \in 1..n, \A j \in 1..(i - 1) : j <= m /\ a[j] = b[j], m < i \/ r[<<a[i], b[i]>>] = -1
          PROVE  m < n
      <3>1. CASE m < i
        BY <1>1, <3>1
      <3>2. CASE ~(m < i)
        <4>1. i \in 1..m /\ i <= n
          BY <1>1, <3>2
        <4>2. a[i] = b[i] /\ b[i] \in S
          BY <1>1, <1>3, <4>1 DEF Alike
        <4>3. r[<<a[i], b[i]>>] = 0
          BY <4>2 DEF IsOrder
        <4> QED
          BY <2>2, <3>2, <4>3
      <3> QED
        BY <3>1, <3>2
    <2>3. Lex(r, a, b) = -1 <=> m < n
      BY <1>1, <1>3, SignIs
    <2> QED
      BY <2>1, <2>2, <2>3 DEF BeforeBy
  <1>4. ASSUME NEW d, FirstAt(a, b, d), Lex(r, a, b) = r[<<a[d], b[d]>>]
        PROVE  r[<<a[d], b[d]>>] = -1 <=>
                 \E i \in 1..n : (\A j \in 1..(i - 1) : j <= m /\ a[j] = b[j]) /\ (m < i \/ r[<<a[i], b[i]>>] = -1)
    <2>1. d \in 1..m /\ d \in 1..n /\ a[d] # b[d] /\ \A i \in 1..(d - 1) : a[i] = b[i]
      BY <1>4 DEF FirstAt
    <2>2. ASSUME r[<<a[d], b[d]>>] = -1
          PROVE  \E i \in 1..n : (\A j \in 1..(i - 1) : j <= m /\ a[j] = b[j]) /\ (m < i \/ r[<<a[i], b[i]>>] = -1)
      <3>1. \A j \in 1..(d - 1) : j <= m
        BY <1>1, <2>1
      <3> QED
        BY <2>1, <2>2, <3>1
    <2>3. ASSUME NEW i \in 1..n, \A j \in 1..(i - 1) : j <= m /\ a[j] = b[j], m < i \/ r[<<a[i], b[i]>>] = -1
          PROVE  r[<<a[d], b[d]>>] = -1
      <3>1. ~(d < i)
        <4>1. d < i => d \in 1..(i - 1)
          BY <1>1, <2>1
        <4> QED
          BY <2>1, <2>3, <4>1
      <3>2. ~(i < d)
        <4>1. i < d => i \in 1..(d - 1) /\ i \in 1..m /\ ~(m < i)
          BY <1>1, <2>1
        <4>2. i < d => a[i] = b[i] /\ b[i] \in S
          BY <1>1, <2>1, <4>1
        <4>3. i < d => r[<<a[i], b[i]>>] = 0
          BY <4>2 DEF IsOrder
        <4> QED
          BY <2>3, <4>1, <4>3
      <3>3. i = d /\ ~(m < i)
        BY <1>1, <2>1, <3>1, <3>2
      <3> QED
        BY <2>3, <3>3
    <2> QED
      BY <2>2, <2>3
  <1>5. \/ Alike(a, b) /\ Lex(r, a, b) = Sign(m, n)
        \/ \E d : FirstAt(a, b, d) /\ Lex(r, a, b) = r[<<a[d], b[d]>>]
    BY <1>2 DEF LexIs
  <1> DEFINE Exists == \E i \in 1..n : (\A j \in 1..(i - 1) : j <= m /\ a[j] = b[j]) /\ (m < i \/ r[<<a[i], b[i]>>] = -1)
  <1>6. Exists <=> BeforeBy(r, a, b)
    BY DEF BeforeBy
  <1>7. ASSUME NEW d, FirstAt(a, b, d), Lex(r, a, b) = r[<<a[d], b[d]>>]
        PROVE  Lex(r, a, b) = -1 <=> Exists
    <2>1. r[<<a[d], b[d]>>] = -1 <=> Exists
      BY <1>4, <1>7
    <2> HIDE DEF Exists
    <2> QED
      BY <1>7, <2>1
  <1> HIDE DEF Exists
  <1> QED
    BY <1>3, <1>5, <1>6, <1>7

\* Lists are the same when they are alike and as long as each other.
LEMMA AlikeSame ==
  ASSUME NEW S, NEW a \in Seq(S), NEW b \in Seq(S), Alike(a, b), Len(a) = Len(b)
  PROVE  a = b
  <1>1. \A i \in 1..Len(a) : a[i] = b[i]
    BY DEF Alike
  <1> QED
    BY <1>1, SameList

\* What is compared by the first difference is compared by an order.
LexOf(r, S) == [ab \in Seq(S) \X Seq(S) |-> Lex(r, ab[1], ab[2])]

\* Lists whose elements are ordered are ordered by their first difference.
LEMMA LexIsOrder ==
  ASSUME NEW S, NEW r, IsOrder(r, S)
  PROVE  IsOrder(LexOf(r, S), Seq(S))
  <1>1. ASSUME NEW a \in Seq(S), NEW b \in Seq(S)
        PROVE  /\ Lex(r, a, b) \in {-1, 0, 1}
               /\ Lex(r, a, b) = 0 <=> a = b
               /\ Lex(r, b, a) = -Lex(r, a, b)
    <2>0. Len(a) \in Int /\ Len(b) \in Int /\ Len(a) \in Nat /\ Len(b) \in Nat
      OBVIOUS
    <2>1. LexIs(r, a, b, Lex(r, a, b)) /\ LexIs(r, b, a, Lex(r, b, a))
      BY LexSays
    <2>2. CASE Alike(a, b) /\ Lex(r, a, b) = Sign(Len(a), Len(b))
      <3>1. Alike(b, a)
        BY <2>0, <2>2 DEF Alike
      <3>2. ~ \E d : FirstAt(b, a, d)
        BY <3>1, OneDifference
      <3>3. Lex(r, b, a) = Sign(Len(b), Len(a))
        BY <2>1, <3>2 DEF LexIs
      <3>4. Len(a) = Len(b) <=> a = b
        BY <2>2, AlikeSame
      <3> QED
        BY <2>0, <2>2, <3>3, <3>4, SignIs
    <2>3. ASSUME NEW d, FirstAt(a, b, d), Lex(r, a, b) = r[<<a[d], b[d]>>]
          PROVE  /\ Lex(r, a, b) \in {-1, 0, 1} /\ Lex(r, a, b) # 0 /\ a # b
                 /\ Lex(r, b, a) = -Lex(r, a, b)
      <3>1. ~Alike(b, a) /\ a # b
        BY <2>3, OneDifference
      <3>2. PICK e : FirstAt(b, a, e) /\ Lex(r, b, a) = r[<<b[e], a[e]>>]
        BY <2>1, <3>1 DEF LexIs
      <3>3. e = d
        BY <2>3, <3>2, OneDifference
      <3>4. a[d] \in S /\ b[d] \in S /\ a[d] # b[d]
        BY <2>3 DEF FirstAt
      <3> PICK x, y : x = a[d] /\ y = b[d]
        OBVIOUS
      <3>5. r[<<x, y>>] \in {-1, 0, 1} /\ r[<<x, y>>] # 0 /\ r[<<y, x>>] = -r[<<x, y>>]
        BY <3>4 DEF IsOrder
      <3> QED
        BY <2>3, <3>1, <3>2, <3>3, <3>5
    <2> QED
      BY <2>1, <2>2, <2>3 DEF LexIs
  <1>2. ASSUME NEW a \in Seq(S), NEW b \in Seq(S), NEW c \in Seq(S), BeforeBy(r, a, b), BeforeBy(r, b, c)
        PROVE  BeforeBy(r, a, c)
    <2> PICK l, m, n : l = Len(a) /\ m = Len(b) /\ n = Len(c)
      OBVIOUS
    <2>1. /\ l \in Nat /\ m \in Nat /\ n \in Nat
          /\ (\A i \in 1..l : a[i] \in S) /\ (\A i \in 1..m : b[i] \in S) /\ \A i \in 1..n : c[i] \in S
      OBVIOUS
    <2>2. PICK i \in 1..m : (\A k \in 1..(i - 1) : k <= l /\ a[k] = b[k]) /\ (l < i \/ r[<<a[i], b[i]>>] = -1)
      BY <1>2 DEF BeforeBy
    <2>3. PICK j \in 1..n : (\A k \in 1..(j - 1) : k <= m /\ b[k] = c[k]) /\ (m < j \/ r[<<b[j], c[j]>>] = -1)
      BY <1>2 DEF BeforeBy
    <2>4. CASE i < j
      <3>1. i \in 1..(j - 1) /\ i \in 1..n /\ \A k \in 1..(i - 1) : k \in 1..(j - 1)
        BY <2>1, <2>4
      <3>2. \A k \in 1..(i - 1) : k <= l /\ a[k] = c[k]
        BY <2>2, <2>3, <3>1
      <3>3. l < i \/ r[<<a[i], c[i]>>] = -1
        BY <2>2, <2>3, <3>1
      <3> QED
        BY <3>1, <3>2, <3>3 DEF BeforeBy
    <2>5. CASE j < i
      <3>1. j \in 1..(i - 1) /\ ~(m < j) /\ \A k \in 1..(j - 1) : k \in 1..(i - 1)
        BY <2>1, <2>5
      <3>2. \A k \in 1..(j - 1) : k <= l /\ a[k] = c[k]
        BY <2>2, <2>3, <3>1
      <3>3. r[<<a[j], c[j]>>] = -1
        BY <2>2, <2>3, <3>1
      <3> QED
        BY <3>2, <3>3 DEF BeforeBy
    <2>6. CASE i = j
      <3>1. \A k \in 1..(i - 1) : k <= l /\ a[k] = c[k]
        BY <2>2, <2>3, <2>6
      <3>2. l < i \/ r[<<a[i], c[i]>>] = -1
        <4>1. ~(m < i) /\ (l < i \/ i \in 1..l) /\ i \in 1..n
          BY <2>1, <2>6
        <4>2. r[<<b[i], c[i]>>] = -1
          BY <2>3, <2>6, <4>1
        <4>3. CASE l < i
          BY <4>3
        <4>4. CASE i \in 1..l /\ ~(l < i)
          <5>1. a[i] \in S /\ b[i] \in S /\ c[i] \in S /\ r[<<a[i], b[i]>>] = -1
            BY <2>1, <2>2, <4>1, <4>4
          <5> QED
            BY <4>2, <5>1 DEF IsOrder
        <4> QED
          BY <4>1, <4>3, <4>4
      <3> QED
        BY <2>3, <2>6, <3>1, <3>2 DEF BeforeBy
    <2> QED
      BY <2>1, <2>4, <2>5, <2>6
  <1>3. \A a, b \in Seq(S) : LexOf(r, S)[<<a, b>>] = Lex(r, a, b)
    BY DEF LexOf
  <1>4. \A a, b \in Seq(S) : Lex(r, a, b) = -1 <=> BeforeBy(r, a, b)
    BY LexMeans
  <1>5. \A a, b, c \in Seq(S) : Lex(r, a, b) = -1 /\ Lex(r, b, c) = -1 => Lex(r, a, c) = -1
    BY <1>2, <1>4
  <1> QED
    BY <1>1, <1>3, <1>5 DEF IsOrder

-----------------------------------------------------------------------------
(* The comparisons of versions.                                            *)

\* Characters, texts, numbers, identifiers of a pre-release.
OnChars == [xy \in Int \X Int |-> Sign(xy[1], xy[2])]
Text == Seq(Int)
OnTexts == LexOf(OnChars, Int)
OnNums == [xy \in Text \X Text |-> CompareNum(xy[1], xy[2])]
OnIds == [xy \in Text \X Text |-> CompareId(xy[1], xy[2])]
Texts == Seq(Text)
OnPre == [xy \in Texts \X Texts |-> ComparePrerelease(xy[1], xy[2])]

\* What is the other way round is the opposite.
Opposite(x, y) == \/ x = 0 /\ y = 0
                  \/ x = 1 /\ y = -1
                  \/ x = -1 /\ y = 1

\* The opposite of what a comparison says is its negative.
LEMMA OppositeIs ==
  ASSUME NEW x, NEW y, Opposite(x, y)
  PROVE  x \in {-1, 0, 1} /\ y = -x
  <1>1. x \in Int /\ y \in Int
    BY DEF Opposite
  <1>2. y = -x
    BY <1>1 DEF Opposite
  <1>3. x \in {-1, 0, 1}
    BY DEF Opposite
  <1> QED
    BY <1>2, <1>3

\* Characters are ordered as numbers are.
LEMMA CharsInOrder == IsOrder(OnChars, Int)
  <1>1. \A x, y \in Int : OnChars[<<x, y>>] = Sign(x, y)
    BY DEF OnChars
  <1> QED
    BY <1>1, SignIs DEF IsOrder

\* strings.Compare goes by the first character that differs.
LEMMA TextsInOrder ==
  /\ IsOrder(OnTexts, Text)
  /\ \A a, b \in Text : CompareText(a, b) = OnTexts[<<a, b>>]
  <1>1. IsOrder(OnTexts, Text)
    BY CharsInOrder, LexIsOrder DEF OnTexts, Text
  <1>2. ASSUME NEW a \in Text, NEW b \in Text PROVE CompareText(a, b) = OnTexts[<<a, b>>]
    <2>1. OnTexts[<<a, b>>] = Lex(OnChars, a, b)
      BY DEF OnTexts, LexOf, Text
    <2>2. CASE Differ(a, b) = {}
      BY <2>1, <2>2 DEF CompareText, ByFirst, Differ, Lex
    <2>3. CASE Differ(a, b) # {}
      <3> PICK d : d = Min(Differ(a, b))
        OBVIOUS
      <3>1. FirstAt(a, b, d)
        BY <2>3, FirstDifference DEF Text
      <3>2. a[d] \in Int /\ b[d] \in Int
        BY <3>1 DEF FirstAt, Text
      <3>3. OnChars[<<a[d], b[d]>>] = Sign(a[d], b[d])
        BY <3>2 DEF OnChars
      <3>4. CompareText(a, b) = Sign(a[d], b[d])
        BY <2>3 DEF CompareText, ByFirst, Differ
      <3> QED
        BY <2>1, <2>3, <3>3, <3>4 DEF Lex
    <2> QED
      BY <2>2, <2>3
  <1> QED
    BY <1>1, <1>2

\* Numbers go by their length, and then by their digits.
LEMMA NumsInOrder ==
  /\ IsOrder(OnNums, Text)
  /\ \A a, b \in Text : CompareNum(a, b) = OnNums[<<a, b>>]
  <1> PICK t : t = OnTexts
    OBVIOUS
  <1>1. \A a, b \in Text : OnNums[<<a, b>>] = CompareNum(a, b)
    BY DEF OnNums
  <1>2. /\ \A a \in Text : Len(a) \in Nat
        /\ \A a, b \in Text : CompareNum(a, b) = IF Len(a) # Len(b) THEN Sign(Len(a), Len(b)) ELSE t[<<a, b>>]
    <2>1. \A a \in Text : Len(a) \in Nat
      BY DEF Text
    <2> QED
      BY <2>1, TextsInOrder DEF CompareNum
  <1>3. /\ \A x, y \in Text : t[<<x, y>>] \in {-1, 0, 1} /\ t[<<y, x>>] = -t[<<x, y>>]
        /\ \A x, y \in Text : t[<<x, y>>] = 0 <=> x = y
        /\ \A x, y, z \in Text : t[<<x, y>>] = -1 /\ t[<<y, z>>] = -1 => t[<<x, z>>] = -1
    BY TextsInOrder DEF IsOrder
  <1>4. ASSUME NEW a \in Text, NEW b \in Text
        PROVE  /\ CompareNum(a, b) \in {-1, 0, 1} /\ CompareNum(b, a) = -CompareNum(a, b)
               /\ CompareNum(a, b) = 0 <=> a = b
               /\ CompareNum(a, b) = -1 <=> Len(a) < Len(b) \/ (Len(a) = Len(b) /\ t[<<a, b>>] = -1)
    <2>1. Len(a) \in Int /\ Len(b) \in Int
      BY <1>2
    <2>2. CASE Len(a) # Len(b)
      <3>1. CompareNum(a, b) = Sign(Len(a), Len(b)) /\ CompareNum(b, a) = Sign(Len(b), Len(a)) /\ a # b
        BY <1>2, <2>2
      <3> QED
        BY <2>1, <2>2, <3>1, SignIs
    <2>3. CASE Len(a) = Len(b)
      <3>1. CompareNum(a, b) = t[<<a, b>>] /\ CompareNum(b, a) = t[<<b, a>>]
        BY <1>2, <2>3
      <3> QED
        BY <1>3, <2>1, <2>3, <3>1
    <2> QED
      BY <2>2, <2>3
  <1>5. ASSUME NEW a \in Text, NEW b \in Text, NEW c \in Text, CompareNum(a, b) = -1, CompareNum(b, c) = -1
        PROVE  CompareNum(a, c) = -1
    <2>1. /\ Len(a) < Len(b) \/ (Len(a) = Len(b) /\ t[<<a, b>>] = -1)
          /\ Len(b) < Len(c) \/ (Len(b) = Len(c) /\ t[<<b, c>>] = -1)
      BY <1>4, <1>5
    <2>2. Len(a) \in Int /\ Len(b) \in Int /\ Len(c) \in Int
      BY <1>2
    <2>3. Len(a) < Len(c) \/ (Len(a) = Len(c) /\ t[<<a, c>>] = -1)
      BY <1>3, <2>1, <2>2
    <2> QED
      BY <1>4, <2>3
  <1> QED
    BY <1>1, <1>4, <1>5 DEF IsOrder

\* Identifiers that are numbers come before the others.
LEMMA IdsInOrder ==
  /\ IsOrder(OnIds, Text)
  /\ \A a, b \in Text : CompareId(a, b) = OnIds[<<a, b>>]
  <1>0. 1 # -1 /\ 0 # -1 /\ 1 # 0
    OBVIOUS
  <1> PICK t, m : t = OnTexts /\ m = OnNums
    OBVIOUS
  <1>1. \A a, b \in Text : OnIds[<<a, b>>] = CompareId(a, b)
    BY DEF OnIds
  <1>2. ASSUME NEW a \in Text, NEW b \in Text
        PROVE  CompareId(a, b) = IF IsNum(a) THEN IF IsNum(b) THEN m[<<a, b>>] ELSE -1
                                 ELSE IF IsNum(b) THEN 1 ELSE t[<<a, b>>]
    <2>1. CompareNum(a, b) = m[<<a, b>>] /\ CompareText(a, b) = t[<<a, b>>]
      BY TextsInOrder, NumsInOrder
    <2> QED
      BY <2>1 DEF CompareId
  <1>3. /\ \A x, y \in Text : t[<<x, y>>] \in {-1, 0, 1} /\ t[<<y, x>>] = -t[<<x, y>>]
        /\ \A x, y \in Text : t[<<x, y>>] = 0 <=> x = y
        /\ \A x, y, z \in Text : t[<<x, y>>] = -1 /\ t[<<y, z>>] = -1 => t[<<x, z>>] = -1
    BY TextsInOrder DEF IsOrder
  <1>4. /\ \A x, y \in Text : m[<<x, y>>] \in {-1, 0, 1} /\ m[<<y, x>>] = -m[<<x, y>>]
        /\ \A x, y \in Text : m[<<x, y>>] = 0 <=> x = y
        /\ \A x, y, z \in Text : m[<<x, y>>] = -1 /\ m[<<y, z>>] = -1 => m[<<x, z>>] = -1
    BY NumsInOrder DEF IsOrder
  <1>5. ASSUME NEW a \in Text, NEW b \in Text
        PROVE  /\ CompareId(a, b) \in {-1, 0, 1} /\ CompareId(b, a) = -CompareId(a, b)
               /\ CompareId(a, b) = 0 <=> a = b
    <2>1. /\ t[<<a, b>>] \in {-1, 0, 1} /\ t[<<b, a>>] = -t[<<a, b>>] /\ (t[<<a, b>>] = 0 <=> a = b)
          /\ m[<<a, b>>] \in {-1, 0, 1} /\ m[<<b, a>>] = -m[<<a, b>>] /\ (m[<<a, b>>] = 0 <=> a = b)
      BY <1>3, <1>4
    <2>2. CASE IsNum(a) /\ IsNum(b)
      <3>1. CompareId(a, b) = m[<<a, b>>] /\ CompareId(b, a) = m[<<b, a>>]
        BY <1>2, <2>2
      <3> QED
        BY <2>1, <3>1
    <2>3. CASE ~IsNum(a) /\ ~IsNum(b)
      <3>1. CompareId(a, b) = t[<<a, b>>] /\ CompareId(b, a) = t[<<b, a>>]
        BY <1>2, <2>3
      <3> QED
        BY <2>1, <3>1
    <2>4. CASE IsNum(a) /\ ~IsNum(b)
      <3>1. CompareId(a, b) = -1 /\ CompareId(b, a) = 1 /\ a # b
        BY <1>2, <2>4
      <3>2. CompareId(a, b) \in {-1, 0, 1} /\ CompareId(b, a) = -CompareId(a, b)
        BY <3>1, OppositeIs DEF Opposite
      <3> QED
        BY <1>0, <3>1, <3>2
    <2>5. CASE ~IsNum(a) /\ IsNum(b)
      <3>1. CompareId(a, b) = 1 /\ CompareId(b, a) = -1 /\ a # b
        BY <1>2, <2>5
      <3>2. CompareId(b, a) = -CompareId(a, b)
        BY <3>1, OppositeIs DEF Opposite
      <3> QED
        BY <1>0, <3>1, <3>2
    <2> QED
      BY <2>2, <2>3, <2>4, <2>5
  <1>6. ASSUME NEW a \in Text, NEW b \in Text, NEW c \in Text, CompareId(a, b) = -1, CompareId(b, c) = -1
        PROVE  CompareId(a, c) = -1
    <2>1. CASE IsNum(a)
      <3>1. CASE IsNum(c)
        <4>1. IsNum(b)
          BY <1>0, <1>2, <1>6, <3>1, Zenon
        <4>2. m[<<a, b>>] = -1 /\ m[<<b, c>>] = -1
          BY <1>2, <1>6, <2>1, <3>1, <4>1
        <4>3. m[<<a, c>>] = -1
          BY <1>4, <4>2
        <4> QED
          BY <1>2, <2>1, <3>1, <4>3
      <3>2. CASE ~IsNum(c)
        BY <1>2, <2>1, <3>2
      <3> QED
        BY <3>1, <3>2
    <2>2. CASE ~IsNum(a)
      <3>1. ~IsNum(b)
        BY <1>0, <1>2, <1>6, <2>2, Zenon
      <3>2. ~IsNum(c)
        BY <1>0, <1>2, <1>6, <3>1, Zenon
      <3>3. t[<<a, b>>] = -1 /\ t[<<b, c>>] = -1
        BY <1>2, <1>6, <2>2, <3>1, <3>2
      <3>4. t[<<a, c>>] = -1
        BY <1>3, <3>3
      <3> QED
        BY <1>2, <2>2, <3>2, <3>4
    <2> QED
      BY <2>1, <2>2
  <1>7. /\ \A a, b \in Text : OnIds[<<a, b>>] \in {-1, 0, 1}
        /\ \A a, b \in Text : OnIds[<<a, b>>] = 0 <=> a = b
        /\ \A a, b \in Text : OnIds[<<b, a>>] = -OnIds[<<a, b>>]
    BY <1>1, <1>5
  <1>8. \A a, b, c \in Text : OnIds[<<a, b>>] = -1 /\ OnIds[<<b, c>>] = -1 => OnIds[<<a, c>>] = -1
    BY <1>1, <1>6
  <1> QED
    BY <1>1, <1>7, <1>8 DEF IsOrder

\* What a comparison of pre-releases says.
PreSays(a, b) ==
  /\ a # b /\ a = <<>> => ComparePrerelease(a, b) = 1
  /\ a # b /\ b = <<>> => ComparePrerelease(a, b) = -1
  /\ a # <<>> /\ b # <<>> => ComparePrerelease(a, b) = Lex(OnIds, a, b)

\* A release comes after its pre-releases.
LEMMA PreInOrder ==
  /\ IsOrder(OnPre, Texts)
  /\ \A a, b \in Texts : ComparePrerelease(a, b) = OnPre[<<a, b>>]
  /\ \A a, b \in Texts : PreSays(a, b)
  <1>0. 1 # -1 /\ 0 # -1 /\ 1 # 0
    OBVIOUS
  <1> PICK t : t = LexOf(OnIds, Text)
    OBVIOUS
  <1>1. \A a, b \in Texts : OnPre[<<a, b>>] = ComparePrerelease(a, b)
    BY DEF OnPre
  <1>2. IsOrder(t, Texts)
    BY IdsInOrder, LexIsOrder DEF Texts
  <1>3. \A a, b \in Texts : t[<<a, b>>] = Lex(OnIds, a, b)
    BY DEF LexOf, Texts
  <1>4. ASSUME NEW a \in Texts, NEW b \in Texts
        PROVE  ByFirst(CompareId, a, b) = t[<<a, b>>]
    <2>1. CASE Differ(a, b) = {}
      BY <1>3, <2>1 DEF ByFirst, Differ, Lex
    <2>2. CASE Differ(a, b) # {}
      <3> PICK d : d = Min(Differ(a, b))
        OBVIOUS
      <3>1. FirstAt(a, b, d)
        BY <2>2, FirstDifference DEF Texts
      <3>2. a[d] \in Text /\ b[d] \in Text
        BY <3>1 DEF FirstAt, Texts
      <3>3. CompareId(a[d], b[d]) = OnIds[<<a[d], b[d]>>]
        BY <3>2, IdsInOrder
      <3>4. ByFirst(CompareId, a, b) = CompareId(a[d], b[d])
        BY <2>2 DEF ByFirst, Differ
      <3> QED
        BY <1>3, <2>2, <3>3, <3>4 DEF Lex
    <2> QED
      BY <2>1, <2>2
  <1>5. /\ \A x, y \in Texts : t[<<x, y>>] \in {-1, 0, 1} /\ t[<<y, x>>] = -t[<<x, y>>]
        /\ \A x, y \in Texts : t[<<x, y>>] = 0 <=> x = y
        /\ \A x, y, z \in Texts : t[<<x, y>>] = -1 /\ t[<<y, z>>] = -1 => t[<<x, z>>] = -1
    BY <1>2 DEF IsOrder
  <1>6. ASSUME NEW a \in Texts, NEW b \in Texts
        PROVE  ComparePrerelease(a, b) = IF a = b THEN 0 ELSE IF a = <<>> THEN 1 ELSE IF b = <<>> THEN -1 ELSE t[<<a, b>>]
    BY <1>4 DEF ComparePrerelease
  <1>7. ASSUME NEW a \in Texts, NEW b \in Texts
        PROVE  /\ ComparePrerelease(a, b) \in {-1, 0, 1}
               /\ ComparePrerelease(b, a) = -ComparePrerelease(a, b)
               /\ ComparePrerelease(a, b) = 0 <=> a = b
    <2>1. t[<<a, b>>] \in {-1, 0, 1} /\ t[<<b, a>>] = -t[<<a, b>>] /\ (t[<<a, b>>] = 0 <=> a = b)
      BY <1>5
    <2>2. CASE a = b
      <3>1. ComparePrerelease(a, b) = 0 /\ ComparePrerelease(b, a) = 0
        BY <1>6, <2>2
      <3>2. ComparePrerelease(b, a) = -ComparePrerelease(a, b)
        BY <3>1, OppositeIs DEF Opposite
      <3> QED
        BY <2>2, <3>1, <3>2
    <2>3. CASE a # b /\ a = <<>>
      <3>1. ComparePrerelease(a, b) = 1 /\ ComparePrerelease(b, a) = -1
        BY <1>6, <2>3
      <3> QED
        BY <2>3, <3>1
    <2>4. CASE a # b /\ b = <<>>
      <3>1. ComparePrerelease(a, b) = -1 /\ ComparePrerelease(b, a) = 1
        BY <1>6, <2>4
      <3> QED
        BY <2>4, <3>1
    <2>5. CASE a # b /\ a # <<>> /\ b # <<>>
      <3>1. ComparePrerelease(a, b) = t[<<a, b>>] /\ ComparePrerelease(b, a) = t[<<b, a>>]
        BY <1>6, <2>5
      <3> QED
        BY <2>1, <2>5, <3>1
    <2> QED
      BY <2>2, <2>3, <2>4, <2>5
  <1>8. ASSUME NEW a \in Texts, NEW b \in Texts, NEW c \in Texts,
               ComparePrerelease(a, b) = -1, ComparePrerelease(b, c) = -1
        PROVE  ComparePrerelease(a, c) = -1
    <2>1. a # b /\ b # c /\ a # <<>> /\ b # <<>>
      <3>1. a # b /\ b # c
        BY <1>7, <1>8
      <3>2. a # <<>>
        BY <1>0, <1>6, <1>8, <3>1, Zenon
      <3>3. b # <<>>
        BY <1>0, <1>6, <1>8, <3>1, Zenon
      <3> QED
        BY <3>1, <3>2, <3>3
    <2>2. t[<<a, b>>] = -1
      BY <1>6, <1>8, <2>1
    <2>3. CASE c = <<>>
      BY <1>6, <2>1, <2>3
    <2>4. CASE c # <<>>
      <3>1. t[<<b, c>>] = -1
        BY <1>6, <1>8, <2>1, <2>4
      <3>2. t[<<a, c>>] = -1 /\ a # c
        BY <1>5, <2>2, <3>1
      <3> QED
        BY <1>6, <2>1, <2>4, <3>2
    <2> QED
      BY <2>3, <2>4
  <1>9. ASSUME NEW a \in Texts, NEW b \in Texts PROVE PreSays(a, b)
    <2>1. a # b /\ a = <<>> => ComparePrerelease(a, b) = 1
      BY <1>6
    <2>2. a # b /\ b = <<>> => ComparePrerelease(a, b) = -1
      BY <1>6
    <2>3. a # <<>> /\ b # <<>> => ComparePrerelease(a, b) = Lex(OnIds, a, b)
      <3>1. CASE a = b
        <4>1. t[<<a, b>>] = 0
          BY <1>5, <3>1
        <4> QED
          BY <1>3, <1>6, <3>1, <4>1
      <3>2. CASE a # b
        BY <1>3, <1>6, <3>2
      <3> QED
        BY <3>1, <3>2
    <2> QED
      BY <2>1, <2>2, <2>3 DEF PreSays
  <1>10. /\ \A a, b \in Texts : OnPre[<<a, b>>] \in {-1, 0, 1}
         /\ \A a, b \in Texts : OnPre[<<a, b>>] = 0 <=> a = b
         /\ \A a, b \in Texts : OnPre[<<b, a>>] = -OnPre[<<a, b>>]
    BY <1>1, <1>7
  <1>11. \A a, b, c \in Texts : OnPre[<<a, b>>] = -1 /\ OnPre[<<b, c>>] = -1 => OnPre[<<a, c>>] = -1
    BY <1>1, <1>8
  <1>12. IsOrder(OnPre, Texts)
    BY <1>10, <1>11 DEF IsOrder
  <1>13. \A a, b \in Texts : ComparePrerelease(a, b) = OnPre[<<a, b>>]
    BY <1>1
  <1> QED
    BY <1>9, <1>12, <1>13

-----------------------------------------------------------------------------
(* What numbers mean.                                                      *)

\* One digit more, and the iteration that computes a value.
TenTimes == [ad \in Int \X Int |-> 10 * ad[1] + ad[2]]
ValueStep(n, it, s) == IF s = {} THEN 0 ELSE 10 * it[s \ {Max(s)}] + n[Max(s)]
ValueIter(n) == CHOOSE it : it = [s \in SUBSET DOMAIN n |-> ValueStep(n, it, s)]

\* The value of a number is the last of that iteration.
LEMMA ValueIsIter ==
  ASSUME NEW n
  PROVE  Value(n) = ValueIter(n)[DOMAIN n]
  BY DEF Value, FoldLeft, MapThenFoldSet, ValueIter, ValueStep

\* A number is read digit by digit.
ReadsDigits(g, n) ==
  /\ g \in [0..Len(n) -> Int] /\ g[0] = 0 /\ Value(n) = g[Len(n)]
  /\ \A k \in 1..Len(n) : g[k] = 10 * g[k - 1] + n[k]

\* Every number has a value, one digit after the other.
LEMMA ValueIs ==
  ASSUME NEW n \in Text
  PROVE  \E g : ReadsDigits(g, n)
  <1> PICK h : h = TenTimes
    OBVIOUS
  <1> PICK D : D = SUBSET DOMAIN n
    OBVIOUS
  <1>1. h \in [Int \X Int -> Int] /\ \A x, y \in Int : h[<<x, y>>] = 10 * x + y
    BY DEF TenTimes
  <1>2. n \in Seq(Int) /\ Len(n) \in Nat /\ DOMAIN n = 1..Len(n) /\ \A i \in 1..Len(n) : n[i] \in Int
    BY DEF Text
  <1>3. PICK g : g \in [D -> Int] /\ FoldedBy(h, 0, n, g)
    <2>1. 0 \in Int
      OBVIOUS
    <2> QED
      BY <1>1, <1>2, <2>1, FoldExists
  <1>4. \A s \in D : s # {} => Max(s) \in 1..Len(n) /\ s \ {Max(s)} \in D
    BY <1>2, LastPlace
  <1>5. \A s \in D : g[s] = ValueStep(n, g, s)
    <2> TAKE s \in D
    <2>1. g[s] = FoldStep(h, 0, n, g, s)
      BY <1>3 DEF FoldedBy
    <2>2. CASE s = {}
      BY <2>1, <2>2 DEF FoldStep, ValueStep
    <2>3. CASE s # {}
      <3>1. g[s \ {Max(s)}] \in Int /\ n[Max(s)] \in Int
        BY <1>2, <1>3, <1>4, <2>3
      <3> QED
        BY <1>1, <2>1, <2>3, <3>1 DEF FoldStep, ValueStep
    <2> QED
      BY <2>2, <2>3
  <1>6. g = [s \in D |-> ValueStep(n, g, s)]
    BY <1>3, <1>5
  <1> PICK it : it = ValueIter(n)
    OBVIOUS
  <1>7. it = [s \in D |-> ValueStep(n, it, s)]
    BY <1>6 DEF ValueIter
  <1>8. FoldsIn(it, Int, h, 0, n)
    <2>1. ASSUME NEW s \in D, s # {}, it[s \ {Max(s)}] \in Int
          PROVE  it[s] = h[<<it[s \ {Max(s)}], n[Max(s)]>>]
      <3>1. it[s] = 10 * it[s \ {Max(s)}] + n[Max(s)]
        BY <1>7, <2>1 DEF ValueStep
      <3>2. n[Max(s)] \in Int
        BY <1>2, <1>4, <2>1
      <3> QED
        BY <1>1, <2>1, <3>1, <3>2
    <2>2. ASSUME NEW s \in D, s = {} PROVE it[s] = 0
      BY <1>7, <2>2 DEF ValueStep
    <2> QED
      BY <2>1, <2>2 DEF FoldsIn
  <1>9. PICK f \in [0..Len(n) -> Int] : Folding(f, h, 0, n) /\ f[Len(n)] = it[DOMAIN n]
    <2>1. 0 \in Int
      OBVIOUS
    <2>2. h \in [Int \X Int -> Int]
      BY <1>1
    <2>3. n \in Seq(Int)
      BY <1>2
    <2>4. FoldsTo(Int, h, 0, n, it[DOMAIN n])
      BY <1>8, <2>1, <2>2, <2>3, FoldIs
    <2> QED
      BY <2>4 DEF FoldsTo
  <1>10. Value(n) = f[Len(n)]
    BY <1>9, ValueIsIter
  <1>11. ASSUME NEW k \in 1..Len(n) PROVE f[k] = 10 * f[k - 1] + n[k]
    <2>1. k - 1 \in 0..Len(n) /\ n[k] \in Int
      BY <1>2
    <2>2. f[k] = h[<<f[k - 1], n[k]>>] /\ f[k - 1] \in Int
      BY <1>9, <2>1 DEF Folding
    <2> QED
      BY <1>1, <2>1, <2>2
  <1> QED
    BY <1>9, <1>10, <1>11 DEF ReadsDigits, Folding

\* A digit more makes no difference to what is less.
LEMMA NextDigit ==
  ASSUME NEW x \in Int, NEW y \in Int, x < y, NEW u \in 0..9, NEW v \in 0..9
  PROVE  10 * x + u < 10 * y + v
  <1>1. x + 1 <= y /\ u \in Int /\ v \in Int /\ u <= 9 /\ v >= 0
    OBVIOUS
  <1> QED
    BY <1>1

Digits(n) == \A i \in 1..Len(n) : n[i] \in 0..9

\* Of two numbers that have no zero in front the longer one is more.
LEMMA LongerIsMore ==
  ASSUME NEW a \in Text, NEW b \in Text, Digits(a), Digits(b), Len(a) < Len(b), b[1] # 0
  PROVE  Value(a) < Value(b)
  <1> PICK m, n : m = Len(a) /\ n = Len(b)
    OBVIOUS
  <1>1. m \in Nat /\ n \in Nat /\ m < n
    BY DEF Text
  <1>2. (\A i \in 1..m : a[i] \in 0..9) /\ \A i \in 1..n : b[i] \in 0..9
    BY DEF Digits
  <1>3. PICK f : ReadsDigits(f, a)
    BY ValueIs
  <1>4. PICK g : ReadsDigits(g, b)
    BY ValueIs
  <1>5. /\ f \in [0..m -> Int] /\ f[0] = 0 /\ Value(a) = f[m]
        /\ \A k \in 1..m : f[k] = 10 * f[k - 1] + a[k]
    BY <1>3 DEF ReadsDigits
  <1>6. /\ g \in [0..n -> Int] /\ g[0] = 0 /\ Value(b) = g[n]
        /\ \A k \in 1..n : g[k] = 10 * g[k - 1] + b[k]
    BY <1>4 DEF ReadsDigits
  <1>7. \A k \in 1..n : g[k] > 0
    <2> DEFINE Bad == {k \in 1..n : ~(g[k] > 0)}
    <2>1. ASSUME Bad # {} PROVE FALSE
      <3>1. Bad \in SUBSET Nat
        OBVIOUS
      <3>2. PICK k \in Bad : \A j \in Bad : k <= j
        BY <2>1, <3>1, LeastNat
      <3>3. CASE k = 1
        <4>1. g[1] = 10 * g[0] + b[1] /\ b[1] \in 0..9 /\ b[1] # 0 /\ g[0] = 0
          BY <1>1, <1>2, <1>6, <3>2, <3>3
        <4>2. g[1] = b[1]
          BY <4>1
        <4> QED
          BY <3>2, <3>3, <4>1, <4>2
      <3>4. CASE k # 1
        <4>1. k - 1 \in 1..n /\ k - 1 \notin Bad /\ k \in 1..n /\ k - 1 \in 0..n
          BY <3>2, <3>4
        <4>2. g[k - 1] > 0 /\ g[k - 1] \in Int /\ b[k] \in 0..9 /\ g[k] = 10 * g[k - 1] + b[k]
          BY <1>2, <1>6, <4>1
        <4>3. g[k] > 0
          BY <4>2, SMTT(30)
        <4> QED
          BY <3>2, <4>3
      <3> QED
        BY <3>3, <3>4
    <2> QED
      BY <2>1
  <1> PICK p : p = n - m
    OBVIOUS
  <1>8. p \in Nat /\ p >= 1 /\ \A k \in 0..m : p + k \in 1..n
    BY <1>1
  <1>9. \A k \in 0..m : f[k] < g[p + k]
    <2> DEFINE Bad == {k \in 0..m : ~(f[k] < g[p + k])}
    <2>1. ASSUME Bad # {} PROVE FALSE
      <3>1. Bad \in SUBSET Nat
        OBVIOUS
      <3>2. PICK k \in Bad : \A j \in Bad : k <= j
        BY <2>1, <3>1, LeastNat
      <3>3. CASE k = 0
        <4>1. p + 0 \in 1..n /\ p + 0 \in 0..n
          BY <1>8
        <4>2. g[p + 0] > 0 /\ f[0] = 0 /\ g[p + 0] \in Int
          BY <1>5, <1>6, <1>7, <4>1
        <4>3. f[0] < g[p + 0]
          BY <4>2
        <4> QED
          BY <3>2, <3>3, <4>3
      <3>4. CASE k # 0
        <4>1. k - 1 \in 0..m /\ k - 1 \notin Bad /\ k \in 1..m /\ p + k \in 1..n
              /\ (p + k) - 1 = p + (k - 1) /\ p + (k - 1) \in 0..n
          BY <1>8, <3>2, <3>4
        <4>2. f[k - 1] < g[p + (k - 1)] /\ f[k - 1] \in Int /\ g[p + (k - 1)] \in Int
          BY <1>5, <1>6, <4>1
        <4>3. a[k] \in 0..9 /\ b[p + k] \in 0..9 /\ f[k] = 10 * f[k - 1] + a[k]
              /\ g[p + k] = 10 * g[p + (k - 1)] + b[p + k]
          BY <1>2, <1>5, <1>6, <4>1
        <4> PICK x, y, u, v : x = f[k - 1] /\ y = g[p + (k - 1)] /\ u = a[k] /\ v = b[p + k]
          OBVIOUS
        <4>5. x \in Int /\ y \in Int /\ x < y /\ u \in 0..9 /\ v \in 0..9
          BY <4>2, <4>3
        <4>6. 10 * x + u < 10 * y + v
          BY <4>5, NextDigit
        <4>4. f[k] < g[p + k]
          BY <4>3, <4>6
        <4> QED
          BY <3>2, <4>4
      <3> QED
        BY <3>3, <3>4
    <2> QED
      BY <2>1
  <1>10. m \in 0..m /\ p + m = n
    BY <1>1
  <1> QED
    BY <1>5, <1>6, <1>9, <1>10

\* Of two that are as long the one with less in the first place that differs
\* is less.
LEMMA FirstIsLess ==
  ASSUME NEW a \in Text, NEW b \in Text, Digits(a), Digits(b), Len(a) = Len(b),
         NEW d, FirstAt(a, b, d), a[d] < b[d]
  PROVE  Value(a) < Value(b)
  <1> PICK n : n = Len(a) /\ n = Len(b)
    OBVIOUS
  <1>1. n \in Nat /\ d \in 1..n /\ \A i \in 1..(d - 1) : a[i] = b[i]
    BY DEF Text, FirstAt
  <1>2. (\A i \in 1..n : a[i] \in 0..9) /\ \A i \in 1..n : b[i] \in 0..9
    BY DEF Digits
  <1>3. PICK f : ReadsDigits(f, a)
    BY ValueIs
  <1>4. PICK g : ReadsDigits(g, b)
    BY ValueIs
  <1>5. /\ f \in [0..n -> Int] /\ f[0] = 0 /\ Value(a) = f[n]
        /\ \A k \in 1..n : f[k] = 10 * f[k - 1] + a[k]
    BY <1>3 DEF ReadsDigits
  <1>6. /\ g \in [0..n -> Int] /\ g[0] = 0 /\ Value(b) = g[n]
        /\ \A k \in 1..n : g[k] = 10 * g[k - 1] + b[k]
    BY <1>4 DEF ReadsDigits
  <1> DEFINE Right(k) == IF k < d THEN f[k] = g[k] ELSE f[k] < g[k]
             Bad == {k \in 0..n : ~Right(k)}
  <1>7. ASSUME Bad # {} PROVE FALSE
    <2>1. Bad \in SUBSET Nat
      OBVIOUS
    <2>2. PICK k \in Bad : \A j \in Bad : k <= j
      <3> HIDE DEF Right
      <3> QED
        BY <1>7, <2>1, LeastNat
    <2>3. k # 0
      BY <1>1, <1>5, <1>6, <2>2
    <2>4. k - 1 \in 0..n /\ k - 1 \notin Bad /\ k \in 1..n
      <3> HIDE DEF Right
      <3> QED
        BY <2>2, <2>3
    <2>5. Right(k - 1)
      <3> HIDE DEF Right
      <3> QED
        BY <2>4
    <2>6. /\ f[k - 1] \in Int /\ g[k - 1] \in Int /\ a[k] \in 0..9 /\ b[k] \in 0..9
          /\ f[k] = 10 * f[k - 1] + a[k] /\ g[k] = 10 * g[k - 1] + b[k]
      BY <1>2, <1>5, <1>6, <2>4
    <2>7. CASE k < d
      <3>1. k \in 1..(d - 1) /\ k - 1 < d
        BY <1>1, <2>4, <2>7
      <3>2. f[k] = g[k]
        BY <1>1, <2>5, <2>6, <3>1
      <3> QED
        BY <2>2, <2>7, <3>2
    <2>8. CASE k = d
      <3>1. k - 1 < d /\ a[k] < b[k]
        BY <1>1, <2>8
      <3> PICK x : x = f[k - 1]
        OBVIOUS
      <3>2. x \in Int /\ f[k] = 10 * x + a[k] /\ g[k] = 10 * x + b[k] /\ a[k] \in Int /\ b[k] \in Int
        BY <2>5, <2>6, <3>1, SMTT(30)
      <3>3. f[k] < g[k]
        BY <3>1, <3>2
      <3> QED
        BY <1>1, <2>2, <2>8, <3>3
    <2>9. CASE k > d
      <3>1. ~(k - 1 < d) /\ ~(k < d)
        BY <1>1, <2>4, <2>9
      <3>2. f[k] < g[k]
        BY <2>5, <2>6, <3>1, NextDigit
      <3> QED
        BY <2>2, <3>1, <3>2
    <2> QED
      BY <1>1, <2>4, <2>7, <2>8, <2>9
  <1>8. n \in 0..n /\ ~(n < d)
    BY <1>1
  <1>9. Right(n)
    <2> HIDE DEF Right
    <2> QED
      BY <1>7, <1>8
  <1> QED
    BY <1>5, <1>6, <1>8, <1>9

\* A number as it is written: digits, and no zero in front.
Written(n) == n \in Text /\ IsNum(n) /\ ~LeadingZero(n)

\* What is compared is what numbers are worth.
LEMMA LessIsLess ==
  ASSUME NEW a, NEW b, Written(a), Written(b), CompareNum(a, b) = -1
  PROVE  Value(a) < Value(b)
  <1>1. a \in Text /\ b \in Text /\ Len(a) \in Nat /\ Len(b) \in Nat /\ Len(a) # 0 /\ Len(b) # 0
    BY DEF Written, IsNum, Text
  <1>2. Digits(a) /\ Digits(b)
    <2>1. ASSUME NEW n \in Text, IsNum(n) PROVE Digits(n)
      <3>1. DOMAIN n = 1..Len(n)
        BY DEF Text
      <3>2. \A i \in DOMAIN n : n[i] \in 0..9
        BY <2>1 DEF IsNum, Range
      <3> QED
        BY <3>1, <3>2 DEF Digits
    <2> QED
      BY <1>1, <2>1 DEF Written
  <1>3. CASE Len(a) # Len(b)
    <2>1. Sign(Len(a), Len(b)) = -1
      BY <1>3 DEF CompareNum
    <2>2. Len(a) < Len(b)
      BY <1>1, <2>1, SignIs
    <2>3. b[1] # 0
      BY <1>1, <2>2 DEF Written, LeadingZero
    <2> QED
      BY <1>1, <1>2, <2>2, <2>3, LongerIsMore
  <1>4. CASE Len(a) = Len(b)
    <2>1. CompareText(a, b) = -1 /\ OnTexts[<<a, b>>] = -1
      BY <1>1, <1>4, TextsInOrder DEF CompareNum
    <2>2. Lex(OnChars, a, b) = -1
      BY <1>1, <2>1 DEF OnTexts, LexOf, Text
    <2>3. Sign(Len(a), Len(b)) # -1
      BY <1>1, <1>4, SignIs
    <2>a. LexIs(OnChars, a, b, -1)
      <3>1. a \in Seq(Int) /\ b \in Seq(Int)
        BY <1>1 DEF Text
      <3>2. LexIs(OnChars, a, b, Lex(OnChars, a, b))
        BY <3>1, LexSays
      <3> QED
        BY <2>2, <3>2
    <2>4. PICK d : FirstAt(a, b, d) /\ OnChars[<<a[d], b[d]>>] = -1
      BY <2>3, <2>a DEF LexIs
    <2>5. a[d] \in Int /\ b[d] \in Int
      BY <1>1, <2>4 DEF FirstAt, Text
    <2>6. Sign(a[d], b[d]) = -1
      BY <2>4, <2>5 DEF OnChars
    <2>7. a[d] < b[d]
      BY <2>5, <2>6, SignIs
    <2> QED
      BY <1>1, <1>2, <1>4, <2>4, <2>7, FirstIsLess
  <1> QED
    BY <1>3, <1>4

\* Of two numbers as semver writes them, the smaller one is the one of less value.
LEMMA NumsMean ==
  ASSUME NEW a, NEW b, Written(a), Written(b)
  PROVE  OnNums[<<a, b>>] = -1 <=> Value(a) < Value(b)
  <1>1. a \in Text /\ b \in Text
    BY DEF Written
  <1>2. /\ OnNums[<<a, b>>] \in {-1, 0, 1} /\ OnNums[<<b, a>>] = -OnNums[<<a, b>>]
        /\ (OnNums[<<a, b>>] = 0 <=> a = b)
        /\ CompareNum(a, b) = OnNums[<<a, b>>] /\ CompareNum(b, a) = OnNums[<<b, a>>]
    BY <1>1, NumsInOrder DEF IsOrder
  <1>3. Value(a) \in Int /\ Value(b) \in Int
    <2>1. \A n \in Text : Value(n) \in Int
      <3> TAKE n \in Text
      <3>1. PICK g : ReadsDigits(g, n)
        BY ValueIs
      <3>2. Len(n) \in 0..Len(n)
        BY DEF Text
      <3> QED
        BY <3>1, <3>2 DEF ReadsDigits
    <2> QED
      BY <1>1, <2>1
  <1>4. CASE OnNums[<<a, b>>] = -1
    BY <1>2, <1>4, LessIsLess
  <1>5. CASE OnNums[<<a, b>>] = 0
    BY <1>2, <1>3, <1>5
  <1>6. CASE OnNums[<<a, b>>] = 1
    <2>1. CompareNum(b, a) = -1
      BY <1>2, <1>6
    <2>2. Value(b) < Value(a)
      BY <2>1, LessIsLess
    <2> QED
      BY <1>3, <1>6, <2>2
  <1> QED
    BY <1>2, <1>4, <1>5, <1>6

\* An identifier as it is written.
WrittenId(x) == x \in Text /\ x # <<>> /\ (IsNum(x) => Written(x))

\* Characters before others.
LEMMA CharsMean ==
  ASSUME NEW x \in Text, NEW y \in Text
  PROVE  OnTexts[<<x, y>>] = -1 <=> EndsOrIsLess(x, y, <)
  <1>1. x \in Seq(Int) /\ y \in Seq(Int)
    BY DEF Text
  <1>2. OnTexts[<<x, y>>] = Lex(OnChars, x, y)
    BY <1>1 DEF OnTexts, LexOf
  <1>3. Lex(OnChars, x, y) = -1 <=> BeforeBy(OnChars, x, y)
    BY <1>1, CharsInOrder, LexMeans
  <1>4. ASSUME NEW i \in 1..Len(y), \A j \in 1..(i - 1) : j <= Len(x) /\ x[j] = y[j]
        PROVE  (Len(x) < i \/ OnChars[<<x[i], y[i]>>] = -1) <=> (Len(x) < i \/ x[i] < y[i])
    <2>1. CASE Len(x) < i
      BY <2>1
    <2>2. CASE ~(Len(x) < i)
      <3>1. x[i] \in Int /\ y[i] \in Int
        BY <1>1, <2>2
      <3>2. OnChars[<<x[i], y[i]>>] = Sign(x[i], y[i])
        BY <3>1 DEF OnChars
      <3>3. Sign(x[i], y[i]) = -1 <=> x[i] < y[i]
        BY <3>1, SignIs
      <3> QED
        BY <2>2, <3>2, <3>3
    <2> QED
      BY <2>1, <2>2
  <1>5. BeforeBy(OnChars, x, y) <=> EndsOrIsLess(x, y, <)
    BY <1>4 DEF BeforeBy, EndsOrIsLess
  <1> QED
    BY <1>2, <1>3, <1>5

\* Identifiers before others.
LEMMA IdsMean ==
  ASSUME NEW x, NEW y, WrittenId(x), WrittenId(y)
  PROVE  OnIds[<<x, y>>] = -1 <=> IdBefore(x, y)
  <1>1. x \in Text /\ y \in Text
    BY DEF WrittenId
  <1>2. OnIds[<<x, y>>] = CompareId(x, y)
    BY <1>1, IdsInOrder
  <1>3. CASE IsNum(x) /\ IsNum(y)
    <2>1. Written(x) /\ Written(y)
      BY <1>3 DEF WrittenId
    <2>2. CompareId(x, y) = OnNums[<<x, y>>]
      BY <1>1, <1>3, NumsInOrder DEF CompareId
    <2>3. IdBefore(x, y) <=> Value(x) < Value(y)
      BY <1>3 DEF IdBefore
    <2> QED
      BY <1>2, <2>1, <2>2, <2>3, NumsMean
  <1>4. CASE IsNum(x) /\ ~IsNum(y)
    <2>1. CompareId(x, y) = -1
      BY <1>4 DEF CompareId
    <2>2. IdBefore(x, y)
      BY <1>4 DEF IdBefore
    <2> QED
      BY <1>2, <2>1, <2>2
  <1>5. CASE ~IsNum(x) /\ IsNum(y)
    <2>1. CompareId(x, y) = 1 /\ 1 # -1
      BY <1>5 DEF CompareId
    <2>2. ~IdBefore(x, y)
      BY <1>5 DEF IdBefore
    <2> QED
      BY <1>2, <2>1, <2>2
  <1>6. CASE ~IsNum(x) /\ ~IsNum(y)
    <2>1. CompareId(x, y) = OnTexts[<<x, y>>]
      BY <1>1, <1>6, TextsInOrder DEF CompareId
    <2>2. IdBefore(x, y) <=> EndsOrIsLess(x, y, <)
      BY <1>6 DEF IdBefore
    <2> QED
      BY <1>1, <1>2, <2>1, <2>2, CharsMean
  <1> QED
    BY <1>3, <1>4, <1>5, <1>6

\* A version that may be published, and any.
IsVersion(v) == v.nums \in Texts /\ v.pre \in Texts
IsCanonical(v) == IsVersion(v) /\ Canonical(v)

\* A version that may be published is of numbers and identifiers as semver writes them.
LEMMA CanonicalIs ==
  ASSUME NEW v, IsCanonical(v)
  PROVE  /\ \A i \in 1..Len(v.nums) : Written(v.nums[i])
         /\ \A i \in 1..Len(v.pre) : WrittenId(v.pre[i])
  <1>1. v.nums \in Seq(Text) /\ v.pre \in Seq(Text)
    BY DEF IsCanonical, IsVersion, Texts
  <1>2. ASSUME NEW i \in 1..Len(v.nums) PROVE Written(v.nums[i])
    <2>1. v.nums[i] \in Range(v.nums) /\ v.nums[i] \in Text
      BY <1>1 DEF Range
    <2> QED
      BY <2>1 DEF IsCanonical, Canonical, Written
  <1>3. ASSUME NEW i \in 1..Len(v.pre) PROVE WrittenId(v.pre[i])
    <2>1. v.pre[i] \in Range(v.pre) /\ v.pre[i] \in Text
      BY <1>1 DEF Range
    <2> QED
      BY <2>1 DEF IsCanonical, Canonical, Written, WrittenId
  <1> QED
    BY <1>2, <1>3

\* The numbers of versions before those of others.
LEMMA NumbersMean ==
  ASSUME NEW a, NEW b, IsCanonical(a), IsCanonical(b)
  PROVE  Lex(OnNums, a.nums, b.nums) = -1 <=> NumbersBefore(a, b)
  <1> PICK x, y : x = a.nums /\ y = b.nums
    OBVIOUS
  <1>1. x \in Seq(Text) /\ y \in Seq(Text)
    BY DEF IsCanonical, IsVersion, Texts
  <1>2. (\A i \in 1..Len(x) : Written(x[i])) /\ \A i \in 1..Len(y) : Written(y[i])
    BY CanonicalIs
  <1>3. Lex(OnNums, x, y) = -1 <=> BeforeBy(OnNums, x, y)
    BY <1>1, NumsInOrder, LexMeans
  <1>4. ASSUME NEW i \in 1..Len(y), \A j \in 1..(i - 1) : j <= Len(x) /\ x[j] = y[j]
        PROVE  (Len(x) < i \/ OnNums[<<x[i], y[i]>>] = -1) <=> (Len(x) < i \/ Value(x[i]) < Value(y[i]))
    <2>1. CASE Len(x) < i
      BY <2>1
    <2>2. CASE ~(Len(x) < i)
      <3>1. Written(x[i]) /\ Written(y[i])
        BY <1>1, <1>2, <2>2
      <3> QED
        BY <2>2, <3>1, NumsMean
    <2> QED
      BY <2>1, <2>2
  <1>5. BeforeBy(OnNums, x, y) <=> NumbersBefore(a, b)
    BY <1>4 DEF BeforeBy, NumbersBefore, EndsOrIsLess
  <1> QED
    BY <1>3, <1>5

\* Pre-releases before others.
LEMMA PresMean ==
  ASSUME NEW a, NEW b, IsCanonical(a), IsCanonical(b)
  PROVE  ComparePrerelease(a.pre, b.pre) = -1 <=> PreBefore(a.pre, b.pre)
  <1> PICK x, y : x = a.pre /\ y = b.pre
    OBVIOUS
  <1>1. x \in Seq(Text) /\ y \in Seq(Text) /\ x \in Texts /\ y \in Texts
    BY DEF IsCanonical, IsVersion, Texts
  <1>2. (\A i \in 1..Len(x) : WrittenId(x[i])) /\ \A i \in 1..Len(y) : WrittenId(y[i])
    BY CanonicalIs
  <1>3. Lex(OnIds, x, y) = -1 <=> BeforeBy(OnIds, x, y)
    BY <1>1, IdsInOrder, LexMeans
  <1>4. ASSUME NEW i \in 1..Len(y), \A j \in 1..(i - 1) : j <= Len(x) /\ x[j] = y[j]
        PROVE  (Len(x) < i \/ OnIds[<<x[i], y[i]>>] = -1) <=> (Len(x) < i \/ IdBefore(x[i], y[i]))
    <2>1. CASE Len(x) < i
      BY <2>1
    <2>2. CASE ~(Len(x) < i)
      <3>1. WrittenId(x[i]) /\ WrittenId(y[i])
        BY <1>1, <1>2, <2>2
      <3> QED
        BY <2>2, <3>1, IdsMean
    <2> QED
      BY <2>1, <2>2
  <1>5. BeforeBy(OnIds, x, y) <=> EndsOrIsLess(x, y, IdBefore)
    BY <1>4 DEF BeforeBy, EndsOrIsLess
  <1>6. PreSays(x, y) /\ (ComparePrerelease(x, y) = 0 <=> x = y)
    <2>1. IsOrder(OnPre, Texts) /\ PreSays(x, y) /\ ComparePrerelease(x, y) = OnPre[<<x, y>>]
      BY <1>1, PreInOrder
    <2> QED
      BY <1>1, <2>1 DEF IsOrder
  <1>7. CASE x = <<>>
    <2>1. ComparePrerelease(x, y) \in {0, 1}
      BY <1>6, <1>7 DEF PreSays
    <2>2. ComparePrerelease(x, y) # -1
      BY <2>1
    <2> QED
      BY <1>7, <2>2 DEF PreBefore
  <1>8. CASE x # <<>> /\ y = <<>>
    BY <1>6, <1>8 DEF PreSays, PreBefore
  <1>9. CASE x # <<>> /\ y # <<>>
    <2>1. ComparePrerelease(x, y) = Lex(OnIds, x, y)
      BY <1>6, <1>9 DEF PreSays
    <2>2. PreBefore(x, y) <=> EndsOrIsLess(x, y, IdBefore)
      BY <1>9 DEF PreBefore
    <2> QED
      BY <1>3, <1>5, <2>1, <2>2
  <1> QED
    BY <1>7, <1>8, <1>9

\* Versions are compared by their numbers, and by their pre-releases.
LEMMA CompareIs ==
  ASSUME NEW a, NEW b, IsVersion(a), IsVersion(b)
  PROVE  LET n == Lex(OnNums, a.nums, b.nums)
             p == ComparePrerelease(a.pre, b.pre)
         IN  /\ Compare(a, b) = IF n # 0 THEN n ELSE p
             /\ n \in {-1, 0, 1} /\ Lex(OnNums, b.nums, a.nums) = -n /\ (n = 0 <=> a.nums = b.nums)
             /\ p \in {-1, 0, 1} /\ ComparePrerelease(b.pre, a.pre) = -p /\ (p = 0 <=> a.pre = b.pre)
  <1> PICK x, y : x = a.nums /\ y = b.nums
    OBVIOUS
  <1> PICK t : t = LexOf(OnNums, Text)
    OBVIOUS
  <1>1. x \in Texts /\ y \in Texts /\ a.pre \in Texts /\ b.pre \in Texts
    BY DEF IsVersion
  <1>2. IsOrder(t, Texts)
    BY NumsInOrder, LexIsOrder DEF Texts
  <1>3. t[<<x, y>>] = Lex(OnNums, x, y) /\ t[<<y, x>>] = Lex(OnNums, y, x)
    BY <1>1 DEF LexOf, Texts
  <1>4. /\ t[<<x, y>>] \in {-1, 0, 1} /\ t[<<y, x>>] = -t[<<x, y>>] /\ (t[<<x, y>>] = 0 <=> x = y)
    BY <1>1, <1>2 DEF IsOrder
  <1>5. ByFirst(CompareNum, x, y) = Lex(OnNums, x, y)
    <2>1. CASE Differ(x, y) = {}
      BY <2>1 DEF ByFirst, Differ, Lex
    <2>2. CASE Differ(x, y) # {}
      <3> PICK d : d = Min(Differ(x, y))
        OBVIOUS
      <3>1. FirstAt(x, y, d)
        BY <1>1, <2>2, FirstDifference DEF Texts
      <3>2. x[d] \in Text /\ y[d] \in Text
        BY <1>1, <3>1 DEF FirstAt, Texts
      <3>3. CompareNum(x[d], y[d]) = OnNums[<<x[d], y[d]>>]
        BY <3>2, NumsInOrder
      <3>4. ByFirst(CompareNum, x, y) = CompareNum(x[d], y[d])
        BY <2>2 DEF ByFirst, Differ
      <3> QED
        BY <2>2, <3>3, <3>4 DEF Lex
    <2> QED
      BY <2>1, <2>2
  <1> PICK p, q : p = ComparePrerelease(a.pre, b.pre) /\ q = ComparePrerelease(b.pre, a.pre)
    OBVIOUS
  <1>6. p \in {-1, 0, 1} /\ q = -p /\ (p = 0 <=> a.pre = b.pre)
    <2>1. IsOrder(OnPre, Texts) /\ p = OnPre[<<a.pre, b.pre>>] /\ q = OnPre[<<b.pre, a.pre>>]
      BY <1>1, PreInOrder
    <2> QED
      BY <1>1, <2>1 DEF IsOrder
  <1>7. Compare(a, b) = IF Lex(OnNums, x, y) # 0 THEN Lex(OnNums, x, y) ELSE p
    BY <1>5 DEF Compare
  <1> QED
    BY <1>3, <1>4, <1>6, <1>7

\* What a comparison of versions says.
ComparesWell(a, b) ==
  /\ Compare(a, b) \in {-1, 0, 1}
  /\ Compare(a, b) = -Compare(b, a)
  /\ Compare(a, b) = 0 <=> a.nums = b.nums /\ a.pre = b.pre
  /\ Compare(a, b) < 0 <=> Compare(a, b) = -1

\* Comparing two versions is right whatever they are.
LEMMA VersionsCompare ==
  ASSUME NEW a, NEW b, IsVersion(a), IsVersion(b)
  PROVE  ComparesWell(a, b)
  <1> PICK m, n, p, q : /\ n = Lex(OnNums, a.nums, b.nums) /\ m = Lex(OnNums, b.nums, a.nums)
                        /\ p = ComparePrerelease(a.pre, b.pre) /\ q = ComparePrerelease(b.pre, a.pre)
    OBVIOUS
  <1>1. /\ Compare(a, b) = IF n # 0 THEN n ELSE p
        /\ n \in {-1, 0, 1} /\ m = -n /\ (n = 0 <=> a.nums = b.nums)
        /\ p \in {-1, 0, 1} /\ q = -p /\ (p = 0 <=> a.pre = b.pre)
    BY CompareIs
  <1>2. Compare(b, a) = IF m # 0 THEN m ELSE q
    BY CompareIs
  <1> PICK c, d : c = Compare(a, b) /\ d = Compare(b, a)
    OBVIOUS
  <1>3. c \in {-1, 0, 1} /\ c = -d
    BY <1>1, <1>2
  <1>4. c = 0 <=> a.nums = b.nums /\ a.pre = b.pre
    BY <1>1
  <1>5. c < 0 <=> c = -1
    BY <1>3
  <1> QED
    BY <1>3, <1>4, <1>5 DEF ComparesWell

\* And it is an order.
LEMMA VersionsInOrder ==
  ASSUME NEW a, NEW b, NEW c, IsVersion(a), IsVersion(b), IsVersion(c),
         Compare(a, b) = -1, Compare(b, c) = -1
  PROVE  Compare(a, c) = -1
  <1> PICK t : t = LexOf(OnNums, Text)
    OBVIOUS
  <1> PICK x, y, z : x = a.nums /\ y = b.nums /\ z = c.nums
    OBVIOUS
  <1> PICK u, v, w : u = a.pre /\ v = b.pre /\ w = c.pre
    OBVIOUS
  <1>1. x \in Texts /\ y \in Texts /\ z \in Texts /\ u \in Texts /\ v \in Texts /\ w \in Texts
    BY DEF IsVersion
  <1>2. IsOrder(t, Texts)
    BY NumsInOrder, LexIsOrder DEF Texts
  <1>3. IsOrder(OnPre, Texts)
    BY PreInOrder
  <1>4. /\ t[<<x, y>>] = Lex(OnNums, x, y) /\ t[<<y, z>>] = Lex(OnNums, y, z) /\ t[<<x, z>>] = Lex(OnNums, x, z)
        /\ OnPre[<<u, v>>] = ComparePrerelease(u, v) /\ OnPre[<<v, w>>] = ComparePrerelease(v, w)
        /\ OnPre[<<u, w>>] = ComparePrerelease(u, w)
    BY <1>1, PreInOrder DEF LexOf, Texts
  <1>5. /\ Compare(a, b) = IF t[<<x, y>>] # 0 THEN t[<<x, y>>] ELSE OnPre[<<u, v>>]
        /\ Compare(b, c) = IF t[<<y, z>>] # 0 THEN t[<<y, z>>] ELSE OnPre[<<v, w>>]
        /\ Compare(a, c) = IF t[<<x, z>>] # 0 THEN t[<<x, z>>] ELSE OnPre[<<u, w>>]
        /\ (t[<<x, y>>] = 0 <=> x = y) /\ (t[<<y, z>>] = 0 <=> y = z) /\ (t[<<x, z>>] = 0 <=> x = z)
    BY <1>4, CompareIs
  <1>6. CASE x # y /\ y # z
    <2>1. t[<<x, y>>] = -1 /\ t[<<y, z>>] = -1
      BY <1>5, <1>6
    <2>2. t[<<x, z>>] = -1
      BY <1>1, <1>2, <2>1 DEF IsOrder
    <2> QED
      BY <1>5, <2>2
  <1>7. CASE x = y /\ y # z
    BY <1>5, <1>7
  <1>8. CASE x # y /\ y = z
    BY <1>5, <1>8
  <1>9. CASE x = y /\ y = z
    <2>1. OnPre[<<u, v>>] = -1 /\ OnPre[<<v, w>>] = -1
      BY <1>5, <1>9
    <2>2. OnPre[<<u, w>>] = -1
      BY <1>1, <1>3, <2>1 DEF IsOrder
    <2> QED
      BY <1>5, <1>9, <2>2
  <1> QED
    BY <1>6, <1>7, <1>8, <1>9

\* Versions are in the order of semver.
LEMMA CompareMeans ==
  ASSUME NEW a, NEW b, IsCanonical(a), IsCanonical(b)
  PROVE  Compare(a, b) = -1 <=> Precedes(a, b)
  <1> PICK m, n, p : /\ n = Lex(OnNums, a.nums, b.nums) /\ m = Lex(OnNums, b.nums, a.nums)
                     /\ p = ComparePrerelease(a.pre, b.pre)
    OBVIOUS
  <1>1. IsVersion(a) /\ IsVersion(b)
    BY DEF IsCanonical
  <1>2. Compare(a, b) = (IF n # 0 THEN n ELSE p) /\ n \in {-1, 0, 1} /\ m = -n
    BY <1>1, CompareIs
  <1>3. (n = -1 <=> NumbersBefore(a, b)) /\ (m = -1 <=> NumbersBefore(b, a)) /\ (p = -1 <=> PreBefore(a.pre, b.pre))
    BY NumbersMean, PresMean
  <1>4. CASE n = -1
    BY <1>2, <1>3, <1>4 DEF Precedes
  <1>5. CASE n = 0
    <2>1. n # -1 /\ m # -1 /\ Compare(a, b) = p
      BY <1>2, <1>5
    <2> QED
      BY <1>3, <2>1 DEF Precedes
  <1>6. CASE n = 1
    <2>1. n # -1 /\ m = -1 /\ Compare(a, b) # -1
      BY <1>2, <1>6
    <2> QED
      BY <1>3, <2>1 DEF Precedes
  <1> QED
    BY <1>2, <1>4, <1>5, <1>6

-----------------------------------------------------------------------------
(* The latest of a list.                                                   *)

\* One version more, and the iteration that finds the latest.
Choice == RawVersion \cup {NoLatest}
Later(latest, v) == IF Canonical(v) /\ Replaces(v, latest) THEN v ELSE latest
LaterOf == [lv \in Choice \X RawVersion |-> Later(lv[1], lv[2])]
LatestStep(list, it, s) == IF s = {} THEN NoLatest ELSE Later(it[s \ {Max(s)}], list[Max(s)])
LatestIter(list) == CHOOSE it : it = [s \in SUBSET DOMAIN list |-> LatestStep(list, it, s)]

\* The latest of a list is the last of that iteration.
LEMMA LatestIsIter ==
  ASSUME NEW list
  PROVE  LatestOf(list) = LatestIter(list)[DOMAIN list]
  BY DEF LatestOf, FoldLeft, MapThenFoldSet, LatestIter, LatestStep, Later

\* A list is read version by version.
ReadsVersions(g, list) ==
  /\ g \in [0..Len(list) -> Choice] /\ g[0] = NoLatest /\ LatestOf(list) = g[Len(list)]
  /\ \A k \in 1..Len(list) : g[k] = Later(g[k - 1], list[k])

\* Every list has a latest version or none, one version after the other.
LEMMA LatestIs ==
  ASSUME NEW list \in Seq(RawVersion)
  PROVE  \E g : ReadsVersions(g, list)
  <1> PICK h : h = LaterOf
    OBVIOUS
  <1> PICK D : D = SUBSET DOMAIN list
    OBVIOUS
  <1>1. h \in [Choice \X RawVersion -> Choice] /\ \A x \in Choice, y \in RawVersion : h[<<x, y>>] = Later(x, y)
    BY DEF LaterOf, Later, Choice
  <1>2. Len(list) \in Nat /\ DOMAIN list = 1..Len(list) /\ \A i \in 1..Len(list) : list[i] \in RawVersion
    OBVIOUS
  <1>a. h \in [Choice \X RawVersion -> Choice] /\ NoLatest \in Choice
    BY <1>1 DEF Choice
  <1>3. PICK g : g \in [D -> Choice] /\ FoldedBy(h, NoLatest, list, g)
    BY <1>a, FoldExists
  <1>4. \A s \in D : s # {} => Max(s) \in 1..Len(list) /\ s \ {Max(s)} \in D
    BY <1>2, LastPlace
  <1>5. \A s \in D : g[s] = LatestStep(list, g, s)
    <2> TAKE s \in D
    <2>1. g[s] = FoldStep(h, NoLatest, list, g, s)
      BY <1>3 DEF FoldedBy
    <2>2. CASE s = {}
      BY <2>1, <2>2 DEF FoldStep, LatestStep
    <2>3. CASE s # {}
      <3>1. g[s \ {Max(s)}] \in Choice /\ list[Max(s)] \in RawVersion
        BY <1>2, <1>3, <1>4, <2>3
      <3> QED
        BY <1>1, <2>1, <2>3, <3>1 DEF FoldStep, LatestStep
    <2> QED
      BY <2>2, <2>3
  <1>6. g = [s \in D |-> LatestStep(list, g, s)]
    BY <1>3, <1>5
  <1> PICK it : it = LatestIter(list)
    OBVIOUS
  <1>7. it = [s \in D |-> LatestStep(list, it, s)]
    BY <1>6 DEF LatestIter
  <1>8. FoldsIn(it, Choice, h, NoLatest, list)
    <2>1. ASSUME NEW s \in D, s # {}, it[s \ {Max(s)}] \in Choice
          PROVE  it[s] = h[<<it[s \ {Max(s)}], list[Max(s)]>>]
      <3>1. it[s] = Later(it[s \ {Max(s)}], list[Max(s)])
        BY <1>7, <2>1 DEF LatestStep
      <3>2. list[Max(s)] \in RawVersion
        BY <1>2, <1>4, <2>1
      <3> QED
        BY <1>1, <2>1, <3>1, <3>2
    <2>2. ASSUME NEW s \in D, s = {} PROVE it[s] = NoLatest
      BY <1>7, <2>2 DEF LatestStep
    <2> QED
      BY <2>1, <2>2 DEF FoldsIn
  <1>9. FoldsTo(Choice, h, NoLatest, list, it[DOMAIN list])
    BY <1>a, <1>8, FoldIs
  <1>10. PICK f \in [0..Len(list) -> Choice] : Folding(f, h, NoLatest, list) /\ f[Len(list)] = it[DOMAIN list]
    BY <1>9 DEF FoldsTo
  <1>11. LatestOf(list) = f[Len(list)]
    BY <1>10, LatestIsIter
  <1>12. ASSUME NEW k \in 1..Len(list) PROVE f[k] = Later(f[k - 1], list[k])
    <2>1. k - 1 \in 0..Len(list) /\ list[k] \in RawVersion
      BY <1>2
    <2>2. f[k] = h[<<f[k - 1], list[k]>>] /\ f[k - 1] \in Choice
      BY <1>10, <2>1 DEF Folding
    <2> QED
      BY <1>1, <2>1, <2>2
  <1> QED
    BY <1>10, <1>11, <1>12 DEF ReadsVersions, Folding

\* The versions of the first so many that count, and which of them.
Counted(list, k) == {list[i] : i \in {j \in 1..k : Canonical(list[j])}}
Best(set) == IF ReleasesIn(set) # {} THEN ReleasesIn(set) ELSE set

\* The latest is what nothing that counts is later than.
IsLatest(latest, set) ==
  IF set = {} THEN latest = NoLatest
  ELSE latest \in Best(set) /\ \A v \in Best(set) : Compare(latest, v) # -1

\* Versions there may be are versions; none is not.
LEMMA RawVersions ==
  /\ \A v \in RawVersion : IsVersion(v)
  /\ ~Canonical(NoLatest)
  <1>1. \A v \in RawVersion : IsVersion(v)
    BY VersionsConstants DEF VersionsConstants, IsVersion, Texts, Text
  <1>2. ~Canonical(NoLatest)
    BY DEF Canonical, NoLatest
  <1> QED
    BY <1>1, <1>2

\* One version more.
LEMMA LaterIsLatest ==
  ASSUME NEW set \in SUBSET RawVersion, \A v \in set : Canonical(v), NEW latest, IsLatest(latest, set),
         NEW v \in RawVersion
  PROVE  IsLatest(Later(latest, v), IF Canonical(v) THEN set \cup {v} ELSE set)
  <1> PICK new : new = Later(latest, v)
    OBVIOUS
  <1>1. CASE ~Canonical(v)
    BY <1>1 DEF Later
  <1>2. CASE Canonical(v) /\ set = {}
    <2>1. latest = NoLatest /\ new = v
      BY <1>2 DEF IsLatest, Later, Replaces
    <2>2. Best({v}) = {v}
      BY DEF Best, ReleasesIn
    <2>3. IsVersion(v)
      BY RawVersions
    <2>4. Compare(v, v) # -1
      BY <2>3, VersionsCompare DEF ComparesWell
    <2> QED
      BY <1>2, <2>1, <2>2, <2>4 DEF IsLatest
  <1>3. CASE Canonical(v) /\ set # {}
    <2>1. latest \in Best(set) /\ \A u \in Best(set) : Compare(latest, u) # -1
      BY <1>3 DEF IsLatest
    <2>2. latest \in set /\ Canonical(latest) /\ latest # NoLatest
      BY <2>1, RawVersions DEF Best, ReleasesIn
    <2>3. (\A u \in set : IsVersion(u)) /\ IsVersion(v) /\ IsVersion(latest)
      BY <2>2, RawVersions
    <2>4. latest.pre = <<>> <=> ReleasesIn(set) # {}
      BY <2>1, <2>2 DEF Best, ReleasesIn
    <2>5. IsPrerelease(latest) <=> latest.pre # <<>>
      BY <2>2 DEF IsPrerelease
    <2>6. IsPrerelease(v) <=> v.pre # <<>>
      BY <1>3 DEF IsPrerelease
    <2>7. Replaces(v, latest) <=> \/ latest.pre # <<>> /\ v.pre = <<>>
                                  \/ (latest.pre = <<>> <=> v.pre = <<>>) /\ Compare(v, latest) > 0
      <3>1. (IsPrerelease(latest) = IsPrerelease(v)) <=> (latest.pre = <<>> <=> v.pre = <<>>)
        <4>1. IsPrerelease(latest) \in BOOLEAN /\ IsPrerelease(v) \in BOOLEAN
          BY <1>3, <2>2 DEF IsPrerelease
        <4> QED
          BY <2>5, <2>6, <4>1
      <3> QED
        <4>1. (IsPrerelease(latest) /\ ~IsPrerelease(v)) <=> (latest.pre # <<>> /\ v.pre = <<>>)
          BY <2>5, <2>6, Zenon
        <4>2. ~(latest = NoLatest)
          BY <2>2
        <4> QED
          BY <3>1, <4>1, <4>2, Zenon DEF Replaces
    <2> DEFINE all == set \cup {v}
    <2>8. Compare(latest, v) \in {-1, 0, 1} /\ Compare(latest, v) = -Compare(v, latest) /\ Compare(v, latest) \in {-1, 0, 1}
      BY <2>3, VersionsCompare DEF ComparesWell
    <2>9. Compare(v, latest) > 0 <=> Compare(latest, v) = -1
      BY <2>8
    <2>10. CASE latest.pre # <<>> /\ v.pre = <<>>
      <3>1. Best(all) = {v}
        BY <2>4, <2>10 DEF Best, ReleasesIn
      <3>2. new = v
        <4>1. Replaces(v, latest)
          BY <2>7, <2>10, Zenon
        <4> QED
          BY <1>3, <4>1, Zenon DEF Later
      <3>3. Compare(v, v) # -1
        BY <2>3, VersionsCompare DEF ComparesWell
      <3> QED
        BY <1>3, <3>1, <3>2, <3>3 DEF IsLatest
    <2>11. CASE latest.pre = <<>> /\ v.pre # <<>>
      <3>1. Best(all) = Best(set)
        BY <2>4, <2>11 DEF Best, ReleasesIn
      <3>2. new = latest
        BY <2>7, <2>11 DEF Later
      <3> QED
        BY <1>3, <2>1, <3>1, <3>2 DEF IsLatest
    <2>12. CASE latest.pre = <<>> <=> v.pre = <<>>
      <3>1. Best(all) = Best(set) \cup {v}
        <4>1. CASE v.pre = <<>>
          BY <2>4, <2>12, <4>1 DEF Best, ReleasesIn
        <4>2. CASE v.pre # <<>>
          BY <2>4, <2>12, <4>2 DEF Best, ReleasesIn
        <4> QED
          BY <4>1, <4>2
      <3>2. CASE Compare(latest, v) = -1
        <4>1. new = v
          BY <1>3, <2>7, <2>9, <2>12, <3>2 DEF Later
        <4>2. ASSUME NEW u \in Best(set), Compare(v, u) = -1 PROVE FALSE
          <5>1. IsVersion(u)
            BY <2>3, <4>2 DEF Best, ReleasesIn
          <5>2. Compare(latest, u) = -1
            BY <2>3, <3>2, <4>2, <5>1, VersionsInOrder
          <5> QED
            BY <2>1, <4>2, <5>2
        <4>3. Compare(v, v) # -1
          BY <2>3, VersionsCompare DEF ComparesWell
        <4> QED
          BY <1>3, <3>1, <4>1, <4>2, <4>3 DEF IsLatest
      <3>3. CASE Compare(latest, v) # -1
        <4>1. new = latest
          BY <2>7, <2>9, <2>12, <3>3 DEF Later
        <4> QED
          BY <1>3, <2>1, <3>1, <3>3, <4>1 DEF IsLatest
      <3> QED
        BY <3>2, <3>3
    <2> QED
      BY <2>10, <2>11, <2>12
  <1> QED
    BY <1>1, <1>2, <1>3

\* The latest of a list is the latest of those that count.
LEMMA LatestIsLatest ==
  ASSUME NEW list \in Seq(RawVersion)
  PROVE  IsLatest(LatestOf(list), {v \in Range(list) : Canonical(v)})
  <1> PICK n : n = Len(list)
    OBVIOUS
  <1>1. n \in Nat /\ DOMAIN list = 1..n /\ \A i \in 1..n : list[i] \in RawVersion
    OBVIOUS
  <1>2. PICK g : ReadsVersions(g, list)
    BY LatestIs
  <1>3. /\ g[0] = NoLatest /\ LatestOf(list) = g[n]
        /\ \A k \in 1..n : g[k] = Later(g[k - 1], list[k])
    BY <1>2 DEF ReadsVersions
  <1> DEFINE Bad == {k \in 0..n : ~IsLatest(g[k], Counted(list, k))}
  <1>4. ASSUME Bad # {} PROVE FALSE
    <2>1. Bad \in SUBSET Nat
      OBVIOUS
    <2>2. PICK k \in Bad : \A j \in Bad : k <= j
      BY <1>4, <2>1, LeastNat
    <2>3. CASE k = 0
      <3>1. Counted(list, 0) = {}
        BY DEF Counted
      <3> QED
        BY <1>3, <2>2, <2>3, <3>1 DEF IsLatest
    <2>4. CASE k # 0
      <3>1. k - 1 \in 0..n /\ k - 1 \notin Bad /\ k \in 1..n /\ k \in Nat /\ \A i : i \in 1..k <=> i \in 1..(k - 1) \/ i = k
        BY <2>2, <2>4
      <3>2. IsLatest(g[k - 1], Counted(list, k - 1))
        BY <3>1
      <3>3. Counted(list, k) = IF Canonical(list[k]) THEN Counted(list, k - 1) \cup {list[k]} ELSE Counted(list, k - 1)
        BY <3>1 DEF Counted
      <3>4. Counted(list, k - 1) \in SUBSET RawVersion /\ (\A v \in Counted(list, k - 1) : Canonical(v)) /\ list[k] \in RawVersion
        BY <1>1, <3>1 DEF Counted
      <3>5. IsLatest(Later(g[k - 1], list[k]), IF Canonical(list[k]) THEN Counted(list, k - 1) \cup {list[k]} ELSE Counted(list, k - 1))
        BY <3>2, <3>4, LaterIsLatest
      <3>6. IsLatest(g[k], Counted(list, k))
        BY <1>3, <3>1, <3>3, <3>5
      <3> QED
        BY <2>2, <3>6
    <2> QED
      BY <2>3, <2>4
  <1>5. IsLatest(g[n], Counted(list, n))
    <2>1. n \in 0..n
      BY <1>1
    <2> QED
      BY <1>4, <2>1
  <1>6. Counted(list, n) = {v \in Range(list) : Canonical(v)}
    BY <1>1 DEF Counted, Range
  <1> QED
    BY <1>3, <1>5, <1>6

ListIsPublished == listed \in Seq(RawVersion)

\* Versions are in order, and the latest is the latest, of any list.
LEMMA ListsAreOrdered == ListIsPublished => VersionsAreOrdered
  <1> SUFFICES ASSUME ListIsPublished PROVE VersionsAreOrdered
    OBVIOUS
  <1> DEFINE valid == {v \in Range(listed) : Canonical(v)}
             best == IF ReleasesIn(valid) # {} THEN ReleasesIn(valid) ELSE valid
  <1>1. \A v \in valid : v \in RawVersion /\ IsVersion(v) /\ IsCanonical(v)
    BY RawVersions DEF ListIsPublished, Range, IsCanonical
  <1>2. ASSUME NEW a \in valid, NEW b \in valid
        PROVE  /\ (Compare(a, b) < 0) <=> Precedes(a, b)
               /\ Compare(a, b) = -Compare(b, a)
               /\ (a # b /\ Compare(a, b) = 0) => a.plus # b.plus
    <2>1. IsCanonical(a) /\ IsCanonical(b) /\ a \in RawVersion /\ b \in RawVersion
      BY <1>1
    <2>2. ComparesWell(a, b)
      BY <1>1, VersionsCompare
    <2>3. Compare(a, b) = -1 <=> Precedes(a, b)
      BY <2>1, CompareMeans
    <2>4. a.nums = b.nums /\ a.pre = b.pre /\ a.plus = b.plus => a = b
      BY <2>1, VersionsConstants, SMTT(30) DEF VersionsConstants
    <2> QED
      BY <2>2, <2>3, <2>4 DEF ComparesWell
  <1>3. ASSUME NEW a \in valid, NEW b \in valid, NEW v \in valid
        PROVE  Retracted({[low |-> a, high |-> b]}, v) <=> ~Precedes(v, a) /\ ~Precedes(b, v)
    <2>1. Retracted({[low |-> a, high |-> b]}, v) <=> Compare(a, v) <= 0 /\ Compare(v, b) <= 0
      BY DEF Retracted
    <2>2. IsCanonical(a) /\ IsCanonical(b) /\ IsCanonical(v) /\ IsVersion(a) /\ IsVersion(b) /\ IsVersion(v)
      BY <1>1
    <2>3. (Compare(v, a) = -1 <=> Precedes(v, a)) /\ (Compare(b, v) = -1 <=> Precedes(b, v))
      BY <2>2, CompareMeans
    <2>4. ComparesWell(a, v) /\ ComparesWell(v, b) /\ ComparesWell(v, a) /\ ComparesWell(b, v)
      BY <2>2, VersionsCompare
    <2>5. (Compare(a, v) <= 0 <=> Compare(v, a) # -1) /\ (Compare(v, b) <= 0 <=> Compare(b, v) # -1)
      BY <2>4 DEF ComparesWell
    <2> QED
      BY <2>1, <2>3, <2>5
  <1>4. IF valid = {} THEN LatestOf(listed) = NoLatest
        ELSE LatestOf(listed) \in best /\ \A v \in best : ~Precedes(LatestOf(listed), v)
    <2>1. IsLatest(LatestOf(listed), valid)
      BY LatestIsLatest DEF ListIsPublished
    <2>2. CASE valid = {}
      BY <2>1, <2>2 DEF IsLatest
    <2>3. CASE valid # {}
      <3>1. LatestOf(listed) \in best /\ \A v \in best : Compare(LatestOf(listed), v) # -1
        BY <2>1, <2>3 DEF IsLatest, Best
      <3>2. \A v \in best : v \in valid
        BY DEF ReleasesIn
      <3>3. \A v \in best : Compare(LatestOf(listed), v) = -1 <=> Precedes(LatestOf(listed), v)
        BY <1>1, <3>1, <3>2, CompareMeans
      <3> QED
        BY <2>3, <3>1, <3>3
    <2> QED
      BY <2>2, <2>3
  <1> QED
    BY <1>2, <1>3, <1>4 DEF VersionsAreOrdered

\* Versions are in the order of semver, and the latest of a list is right,
\* however long it is and however large their numbers are.
THEOREM VersionsKeepOrder == VersionsSpec => []VersionsAreOrdered
  <1>1. VersionsInit => ListIsPublished
    BY DEF VersionsInit, ListIsPublished
  <1>2. ListIsPublished /\ [VersionsNext]_versionsVars => ListIsPublished'
    BY DEF ListIsPublished, VersionsNext, Types, Lists, versionsVars
  <1> QED
    BY <1>1, <1>2, ListsAreOrdered, PTL DEF VersionsSpec

-----------------------------------------------------------------------------
(* Typos.                                                                  *)

\* What one typo makes of a name is a name.
LEMMA TypoIsName ==
  ASSUME NEW x \in Seq(Char), NEW y \in OneTypo(x)
  PROVE  y \in Seq(Char)
  <1>1. CASE \E i \in DOMAIN x : y = RemoveAt(x, i)
    BY <1>1 DEF RemoveAt
  <1>2. CASE \E i \in 1..(Len(x) + 1), c \in Char : y = InsertAt(x, i, c)
    BY <1>2 DEF InsertAt
  <1>3. CASE \E i \in DOMAIN x, c \in Char : y = ReplaceAt(x, i, c)
    BY <1>3 DEF ReplaceAt
  <1>4. CASE \E i \in 1..(Len(x) - 1) : y = [x EXCEPT ![i] = x[i + 1], ![i + 1] = x[i]]
    BY <1>4
  <1> QED
    BY <1>1, <1>2, <1>3, <1>4 DEF OneTypo

\* The four typos, by what they leave where.
Dropped(x, y, i) == Len(x) = Len(y) + 1 /\ \A k \in 1..Len(y) : y[k] = IF k < i THEN x[k] ELSE x[k + 1]
Changed(x, y, i) == Len(x) = Len(y) /\ \A k \in 1..Len(y) : k # i => y[k] = x[k]
Exchanged(x, y, i) ==
  Len(x) = Len(y) /\ \A k \in 1..Len(y) : y[k] = IF k = i THEN x[i + 1] ELSE IF k = i + 1 THEN x[i] ELSE x[k]

\* What a typo makes of a name is one of these four.
LEMMA TypoIs ==
  ASSUME NEW x \in Seq(Char), NEW y \in Seq(Char)
  PROVE  y \in OneTypo(x) <=> \/ \E i \in 1..Len(x) : Dropped(x, y, i)
                              \/ \E i \in 1..Len(y) : Dropped(y, x, i)
                              \/ \E i \in 1..Len(x) : Changed(x, y, i)
                              \/ \E i \in 1..(Len(x) - 1) : Exchanged(x, y, i)
  <1>1. ASSUME NEW i \in 1..Len(x) PROVE y = RemoveAt(x, i) <=> Dropped(x, y, i)
    <2> DEFINE z == RemoveAt(x, i)
    <2>1. z \in Seq(Char) /\ Dropped(x, z, i)
      <3> DEFINE p == SubSeq(x, 1, i - 1)
                 q == SubSeq(x, i + 1, Len(x))
      <3>1. /\ p \in Seq(Char) /\ Len(p) = i - 1 /\ \A k \in 1..Len(p) : p[k] = x[k]
            /\ q \in Seq(Char) /\ Len(q) = Len(x) - i /\ \A k \in 1..Len(q) : q[k] = x[i + k]
        OBVIOUS
      <3>2. z = p \o q
        BY DEF RemoveAt
      <3> HIDE DEF p, q, z
      <3>3. z \in Seq(Char) /\ Len(z) = Len(x) - 1
        BY <3>1, <3>2
      <3>4. ASSUME NEW k \in 1..Len(z) PROVE z[k] = IF k < i THEN x[k] ELSE x[k + 1]
        <4>1. CASE k < i
          BY <3>1, <3>2, <3>3, <4>1
        <4>2. CASE ~(k < i)
          <5>1. k - (i - 1) \in 1..Len(q) /\ i + (k - (i - 1)) = k + 1
            BY <3>1, <3>3, <4>2
          <5>2. z[k] = q[k - (i - 1)]
            BY <3>1, <3>2, <3>3, <4>2
          <5> QED
            BY <3>1, <4>2, <5>1, <5>2
        <4> QED
          BY <4>1, <4>2
      <3> QED
        BY <3>3, <3>4 DEF Dropped
    <2>2. ASSUME Dropped(x, y, i) PROVE y = z
      <3> HIDE DEF z
      <3>1. Len(y) = Len(z) /\ \A k \in 1..Len(y) : y[k] = z[k]
        BY <2>1, <2>2 DEF Dropped
      <3> QED
        BY <2>1, <3>1
    <2> QED
      BY <2>1, <2>2
  <1>2. ASSUME NEW i \in 1..(Len(x) + 1), NEW c \in Char PROVE y = InsertAt(x, i, c) <=> Dropped(y, x, i) /\ y[i] = c
    <2> DEFINE z == InsertAt(x, i, c)
    <2>1. z \in Seq(Char) /\ Dropped(z, x, i) /\ z[i] = c
      <3> DEFINE p == SubSeq(x, 1, i - 1)
                 q == SubSeq(x, i, Len(x))
                 r == Append(p, c)
      <3>1. /\ p \in Seq(Char) /\ Len(p) = i - 1 /\ \A k \in 1..Len(p) : p[k] = x[k]
            /\ q \in Seq(Char) /\ Len(q) = Len(x) - i + 1 /\ \A k \in 1..Len(q) : q[k] = x[i + k - 1]
            /\ Len(x) \in Nat /\ i \in Nat /\ i >= 1 /\ i <= Len(x) + 1
        OBVIOUS
      <3>2. z = (p \o <<c>>) \o q
        BY DEF InsertAt
      <3>3. p \o <<c>> = r
        BY <3>1
      <3> HIDE DEF p, q, r, z
      <3>4. /\ r \in Seq(Char) /\ Len(r) = i /\ r[i] = c
            /\ \A k \in 1..(i - 1) : r[k] = x[k]
        BY <3>1 DEF r
      <3>5. z = r \o q
        BY <3>2, <3>3
      <3>6. /\ z \in Seq(Char) /\ Len(z) = Len(x) + 1
            /\ \A k \in 1..i : z[k] = r[k]
            /\ \A k \in 1..Len(q) : z[i + k] = q[k]
        BY <3>1, <3>4, <3>5
      <3>7. ASSUME NEW k \in 1..Len(x) PROVE x[k] = IF k < i THEN z[k] ELSE z[k + 1]
        <4>1. CASE k < i
          <5>1. k \in 1..(i - 1) /\ k \in 1..i
            BY <3>1, <4>1
          <5> QED
            BY <3>4, <3>6, <4>1, <5>1
        <4>2. CASE ~(k < i)
          <5> PICK l : l = k - i + 1
            OBVIOUS
          <5>1. l \in 1..Len(q) /\ i + l = k + 1 /\ i + l - 1 = k
            BY <3>1, <4>2
          <5>2. z[k + 1] = q[l]
            BY <3>6, <5>1
          <5>3. q[l] = x[k]
            BY <3>1, <5>1
          <5> QED
            BY <4>2, <5>2, <5>3
        <4> QED
          BY <4>1, <4>2
      <3>8. i \in 1..i
        BY <3>1
      <3> QED
        BY <3>4, <3>6, <3>7, <3>8 DEF Dropped
    <2>2. ASSUME Dropped(y, x, i), y[i] = c PROVE y = z
      <3> HIDE DEF z
      <3>1. Len(y) = Len(z) /\ Len(y) = Len(x) + 1 /\ Len(x) \in Nat
        BY <2>1, <2>2 DEF Dropped
      <3>2. ASSUME NEW k \in 1..Len(y) PROVE y[k] = z[k]
        <4>1. CASE k < i
          <5>1. k \in 1..Len(x)
            BY <3>1, <4>1
          <5> QED
            BY <2>1, <2>2, <4>1, <5>1 DEF Dropped
        <4>2. CASE k = i
          BY <2>1, <2>2, <4>2
        <4>3. CASE k > i
          <5>1. k - 1 \in 1..Len(x) /\ ~(k - 1 < i) /\ k - 1 + 1 = k
            BY <3>1, <4>3
          <5> QED
            BY <2>1, <2>2, <4>3, <5>1 DEF Dropped
        <4> QED
          BY <4>1, <4>2, <4>3
      <3>3. z \in Seq(Char)
        BY <2>1
      <3> QED
        BY <3>1, <3>2, <3>3, SameList
    <2> QED
      BY <2>1, <2>2
  <1>3. ASSUME NEW i \in 1..Len(x), NEW c \in Char PROVE y = ReplaceAt(x, i, c) <=> Changed(x, y, i) /\ y[i] = c
    <2> DEFINE z == ReplaceAt(x, i, c)
    <2>1. z \in Seq(Char) /\ Changed(x, z, i) /\ z[i] = c
      BY DEF ReplaceAt, Changed
    <2>2. ASSUME Changed(x, y, i), y[i] = c PROVE y = z
      <3> HIDE DEF z
      <3>1. Len(y) = Len(z) /\ \A k \in 1..Len(y) : y[k] = z[k]
        BY <2>1, <2>2 DEF Changed
      <3> QED
        BY <2>1, <3>1
    <2> QED
      BY <2>1, <2>2
  <1>4. ASSUME NEW i \in 1..(Len(x) - 1) PROVE y = [x EXCEPT ![i] = x[i + 1], ![i + 1] = x[i]] <=> Exchanged(x, y, i)
    <2> DEFINE z == [x EXCEPT ![i] = x[i + 1], ![i + 1] = x[i]]
    <2>1. z \in Seq(Char) /\ Exchanged(x, z, i)
      BY DEF Exchanged
    <2>2. ASSUME Exchanged(x, y, i) PROVE y = z
      <3> HIDE DEF z
      <3>1. Len(y) = Len(z) /\ \A k \in 1..Len(y) : y[k] = z[k]
        BY <2>1, <2>2 DEF Exchanged
      <3> QED
        BY <2>1, <3>1
    <2> QED
      BY <2>1, <2>2
  <1>5. (\E i \in 1..(Len(x) + 1), c \in Char : y = InsertAt(x, i, c)) <=> \E i \in 1..Len(y) : Dropped(y, x, i)
    <2>1. ASSUME NEW i \in 1..Len(y), Dropped(y, x, i) PROVE i \in 1..(Len(x) + 1) /\ y[i] \in Char
      BY <2>1 DEF Dropped
    <2>2. ASSUME NEW i \in 1..(Len(x) + 1), Dropped(y, x, i) PROVE i \in 1..Len(y)
      BY <2>2 DEF Dropped
    <2> QED
      BY <1>2, <2>1, <2>2
  <1>6. (\E i \in DOMAIN x, c \in Char : y = ReplaceAt(x, i, c)) <=> \E i \in 1..Len(x) : Changed(x, y, i)
    <2>1. ASSUME NEW i \in 1..Len(x), Changed(x, y, i) PROVE y[i] \in Char
      BY <2>1 DEF Changed
    <2>2. ASSUME NEW i \in 1..Len(x), Changed(x, y, i) PROVE y = ReplaceAt(x, i, y[i])
      BY <1>3, <2>1, <2>2
    <2>3. DOMAIN x = 1..Len(x)
      OBVIOUS
    <2>4. ASSUME NEW i \in DOMAIN x, NEW c \in Char, y = ReplaceAt(x, i, c) PROVE Changed(x, y, i)
      BY <1>3, <2>3, <2>4
    <2> QED
      BY <2>1, <2>2, <2>3, <2>4, Zenon
  <1> QED
    BY <1>1, <1>4, <1>5, <1>6 DEF OneTypo

\* The typos at the end of a name.
LEMMA LastTypo ==
  ASSUME NEW x \in Seq(Char), NEW c \in Char, NEW d \in Char
  PROVE  /\ x \in OneTypo(Append(x, c))
         /\ Append(x, c) \in OneTypo(x)
         /\ Append(x, d) \in OneTypo(Append(x, c))
         /\ Append(Append(x, d), c) \in OneTypo(Append(Append(x, c), d))
  <1> DEFINE i == Len(x) + 1
  <1>1. Append(x, c) \in Seq(Char) /\ Dropped(Append(x, c), x, i) /\ i \in 1..Len(Append(x, c))
    BY DEF Dropped
  <1>2. Append(x, d) \in Seq(Char) /\ Changed(Append(x, c), Append(x, d), i)
    BY DEF Changed
  <1>3. LET y == Append(Append(x, c), d)
            z == Append(Append(x, d), c)
        IN y \in Seq(Char) /\ z \in Seq(Char) /\ i \in 1..(Len(y) - 1) /\ Exchanged(y, z, i)
    BY DEF Exchanged
  <1> HIDE DEF i
  <1> QED
    BY <1>1, <1>2, <1>3, TypoIs

\* A typo stays one when the same character follows.
LEMMA TypoFollowed ==
  ASSUME NEW x \in Seq(Char), NEW y \in OneTypo(x), NEW c \in Char
  PROVE  Append(y, c) \in OneTypo(Append(x, c))
  <1> DEFINE u == Append(x, c)
             v == Append(y, c)
  <1>1. y \in Seq(Char)
    BY TypoIsName
  <1>2. u \in Seq(Char) /\ v \in Seq(Char) /\ Len(u) = Len(x) + 1 /\ Len(v) = Len(y) + 1 /\ Len(x) \in Nat /\ Len(y) \in Nat
    BY <1>1
  <1>3. /\ \A k \in 1..Len(x) : u[k] = x[k]
        /\ u[Len(x) + 1] = c
        /\ \A k \in 1..Len(y) : v[k] = y[k]
        /\ v[Len(y) + 1] = c
    BY <1>1
  <1> HIDE DEF u, v
  <1>4. ASSUME NEW i \in 1..Len(x), Dropped(x, y, i) PROVE v \in OneTypo(u)
    <2>1. i \in 1..Len(u) /\ Dropped(u, v, i)
      BY <1>2, <1>3, <1>4, SMTT(30) DEF Dropped
    <2> QED
      BY <1>2, <2>1, TypoIs
  <1>5. ASSUME NEW i \in 1..Len(y), Dropped(y, x, i) PROVE v \in OneTypo(u)
    <2>1. Len(y) = Len(x) + 1 /\ \A k \in 1..Len(x) : x[k] = IF k < i THEN y[k] ELSE y[k + 1]
      BY <1>5 DEF Dropped
    <2>2. ASSUME NEW k \in 1..Len(u) PROVE u[k] = IF k < i THEN v[k] ELSE v[k + 1]
      <3>1. CASE k = Len(x) + 1
        BY <1>2, <1>3, <2>1, <3>1
      <3>2. CASE k # Len(x) + 1
        <4>1. k \in 1..Len(x) /\ k \in 1..Len(y) /\ k + 1 \in 1..Len(y)
          BY <1>2, <2>1, <3>2
        <4> QED
          BY <1>3, <2>1, <4>1
      <3> QED
        BY <3>1, <3>2
    <2>3. i \in 1..Len(v) /\ Dropped(v, u, i)
      BY <1>2, <2>1, <2>2 DEF Dropped
    <2> QED
      BY <1>2, <2>3, TypoIs
  <1>6. ASSUME NEW i \in 1..Len(x), Changed(x, y, i) PROVE v \in OneTypo(u)
    <2>1. i \in 1..Len(u) /\ Changed(u, v, i)
      BY <1>2, <1>3, <1>6, SMTT(30) DEF Changed
    <2> QED
      BY <1>2, <2>1, TypoIs
  <1>7. ASSUME NEW i \in 1..(Len(x) - 1), Exchanged(x, y, i) PROVE v \in OneTypo(u)
    <2>1. i \in 1..(Len(u) - 1) /\ Exchanged(u, v, i)
      BY <1>2, <1>3, <1>7, SMTT(30) DEF Exchanged
    <2> QED
      BY <1>2, <2>1, TypoIs
  <1>8. v \in OneTypo(u)
    BY <1>1, <1>4, <1>5, <1>6, <1>7, TypoIs
  <1> QED
    BY <1>8 DEF u, v

\* One typo makes undone what one made.
LEMMA TypoUndone ==
  ASSUME NEW x \in Seq(Char), NEW y \in OneTypo(x)
  PROVE  x \in OneTypo(y)
  <1>1. y \in Seq(Char)
    BY TypoIsName
  <1>2. ASSUME NEW i \in 1..Len(x), Changed(x, y, i) PROVE i \in 1..Len(y) /\ Changed(y, x, i)
    BY <1>2 DEF Changed
  <1>3. ASSUME NEW i \in 1..(Len(x) - 1), Exchanged(x, y, i) PROVE i \in 1..(Len(y) - 1) /\ Exchanged(y, x, i)
    BY <1>1, <1>3 DEF Exchanged
  <1> QED
    BY <1>1, <1>2, <1>3, TypoIs

-----------------------------------------------------------------------------
(* The table of distances.                                                 *)

Row(b) == [0..Len(b) -> Nat]

\* What a cell of the table has, from the three cells before it and the one
\* before two that are swapped.
IsCell(cell, a, b, i, j, prev2, prev, left) ==
  /\ cell \in Nat
  /\ cell <= prev[j] + 1 /\ cell <= left + 1 /\ cell <= prev[j - 1] + 1
  /\ a[i] = b[j] => cell <= prev[j - 1]
  /\ Swapped(a, b, i, j) => cell <= prev2[j - 2] + 1
  /\ \/ cell = prev[j] + 1
     \/ cell = left + 1
     \/ cell = prev[j - 1] + 1
     \/ a[i] = b[j] /\ cell = prev[j - 1]
     \/ Swapped(a, b, i, j) /\ cell = prev2[j - 2] + 1

\* The least of a few.
LEMMA LeastOfFew ==
  ASSUME NEW x \in Nat, NEW y \in Nat, NEW z \in Nat
  PROVE  /\ Min({x, y, z}) \in {x, y, z} /\ Min({x, y, z}) <= x /\ Min({x, y, z}) <= y /\ Min({x, y, z}) <= z
         /\ Min({x, y}) \in {x, y} /\ Min({x, y}) <= x /\ Min({x, y}) <= y
  <1>1. \E w \in {x, y, z} : \A u \in {x, y, z} : w <= u
    <2>1. (x <= y /\ x <= z) \/ (y <= x /\ y <= z) \/ (z <= x /\ z <= y)
      OBVIOUS
    <2> QED
      BY <2>1
  <1>2. \E w \in {x, y} : \A u \in {x, y} : w <= u
    <2>1. x <= y \/ y <= x
      OBVIOUS
    <2> QED
      BY <2>1
  <1>3. Min({x, y, z}) \in {x, y, z} /\ \A u \in {x, y, z} : Min({x, y, z}) <= u
    BY <1>1 DEF Min
  <1>4. Min({x, y}) \in {x, y} /\ \A u \in {x, y} : Min({x, y}) <= u
    BY <1>2 DEF Min
  <1> QED
    BY <1>3, <1>4

\* A cell of the table is the least of what its three or four neighbours allow.
LEMMA CellIs ==
  ASSUME NEW a \in Seq(Char), NEW b \in Seq(Char), NEW i \in 1..Len(a), NEW j \in 1..Len(b),
         NEW prev2 \in Row(b), NEW prev \in Row(b), NEW row \in Row(b)
  PROVE  IsCell(Cell(a, b, i, j, prev2, prev, row), a, b, i, j, prev2, prev, row[j - 1])
  <1> DEFINE cost == IF a[i] = b[j] THEN 0 ELSE 1
             least == Min({prev[j] + 1, row[j - 1] + 1, prev[j - 1] + cost})
             cell == IF Swapped(a, b, i, j) THEN Min({least, prev2[j - 2] + 1}) ELSE least
  <1>1. Len(b) \in Nat /\ j \in 0..Len(b) /\ j - 1 \in 0..Len(b)
    OBVIOUS
  <1>2. prev[j] \in Nat /\ prev[j - 1] \in Nat /\ row[j - 1] \in Nat
    BY <1>1 DEF Row
  <1>3. Swapped(a, b, i, j) => prev2[j - 2] \in Nat
    <2>1. Swapped(a, b, i, j) => j - 2 \in 0..Len(b)
      BY <1>1 DEF Swapped
    <2> QED
      BY <2>1 DEF Row
  <1>4. cost \in Nat /\ cost <= 1 /\ (a[i] = b[j] => cost = 0) /\ (a[i] # b[j] => cost = 1)
    OBVIOUS
  <1> HIDE DEF cost
  <1>5. /\ least \in {prev[j] + 1, row[j - 1] + 1, prev[j - 1] + cost} /\ least \in Nat
        /\ least <= prev[j] + 1 /\ least <= row[j - 1] + 1 /\ least <= prev[j - 1] + cost
    <2>1. prev[j] + 1 \in Nat /\ row[j - 1] + 1 \in Nat /\ prev[j - 1] + cost \in Nat
      BY <1>2, <1>4, SMTT(30)
    <2> PICK x, y, z : x = prev[j] + 1 /\ y = row[j - 1] + 1 /\ z = prev[j - 1] + cost
      OBVIOUS
    <2>2. x \in Nat /\ y \in Nat /\ z \in Nat /\ least = Min({x, y, z})
      BY <2>1
    <2> HIDE DEF least
    <2>3. Min({x, y, z}) \in {x, y, z} /\ Min({x, y, z}) <= x /\ Min({x, y, z}) <= y /\ Min({x, y, z}) <= z
      BY <2>2, LeastOfFew
    <2>4. least \in {x, y, z} /\ least <= x /\ least <= y /\ least <= z
      BY <2>2, <2>3
    <2> QED
      BY <2>2, <2>4
  <1> HIDE DEF least
  <1>6. Cell(a, b, i, j, prev2, prev, row) = cell
    BY DEF Cell, cost, least
  <1>7. CASE Swapped(a, b, i, j)
    <2>1. prev2[j - 2] + 1 \in Nat
      BY <1>3, <1>7
    <2>2. cell \in {least, prev2[j - 2] + 1} /\ cell <= least /\ cell <= prev2[j - 2] + 1
      BY <1>5, <1>7, <2>1, LeastOfFew
    <2> HIDE DEF cell
    <2>3. cell \in Nat
      BY <1>5, <2>1, <2>2
    <2>4. cell <= prev[j] + 1 /\ cell <= row[j - 1] + 1 /\ cell <= prev[j - 1] + cost
      <3>1. \A n \in Nat : least <= n => cell <= n
        <4>1. cell <= least /\ least \in Nat
          BY <1>5, <2>2
        <4> QED
          BY <2>3, <4>1
      <3>2. prev[j] + 1 \in Nat /\ row[j - 1] + 1 \in Nat /\ prev[j - 1] + cost \in Nat
        BY <1>2, <1>4, SMTT(30)
      <3>3. least <= prev[j] + 1 /\ least <= row[j - 1] + 1 /\ least <= prev[j - 1] + cost
        BY <1>5
      <3> QED
        BY <3>1, <3>2, <3>3
    <2>5. cell = least \/ cell = prev2[j - 2] + 1
      BY <2>2
    <2>6. cell <= prev[j - 1] + 1 /\ (a[i] = b[j] => cell <= prev[j - 1])
      BY <1>2, <1>4, <2>3, <2>4
    <2>7. CASE cell = least
      <3>1. \/ cell = prev[j] + 1
            \/ cell = row[j - 1] + 1
            \/ cell = prev[j - 1] + 1
            \/ a[i] = b[j] /\ cell = prev[j - 1]
        BY <1>2, <1>4, <1>5, <2>7
      <3> QED
        BY <1>6, <2>2, <2>3, <2>4, <2>6, <3>1 DEF IsCell
    <2>8. CASE cell = prev2[j - 2] + 1
      BY <1>6, <1>7, <2>2, <2>3, <2>4, <2>6, <2>8 DEF IsCell
    <2> QED
      BY <2>5, <2>7, <2>8
  <1>8. CASE ~Swapped(a, b, i, j)
    <2>1. cell = least
      BY <1>8
    <2> HIDE DEF cell
    <2> QED
      BY <1>2, <1>4, <1>5, <1>6, <1>8, <2>1 DEF IsCell
  <1> QED
    BY <1>7, <1>8

\* A row is made cell by cell.
RowStep(a, b, i, prev2, prev, it, s) ==
  IF s = {} THEN [j \in 0..Len(b) |-> i]
  ELSE [it[s \ {Max(s)}] EXCEPT ![[j \in 1..Len(b) |-> j][Max(s)]] =
          Cell(a, b, i, [j \in 1..Len(b) |-> j][Max(s)], prev2, prev, it[s \ {Max(s)}])]

RowIter(a, b, i, prev2, prev) ==
  CHOOSE it : it = [s \in SUBSET DOMAIN [j \in 1..Len(b) |-> j] |-> RowStep(a, b, i, prev2, prev, it, s)]

\* The next row is the last of that iteration.
LEMMA RowIsIter ==
  ASSUME NEW a, NEW b, NEW i, NEW prev2, NEW prev
  PROVE  NextRow(a, b, i, prev2, prev) = RowIter(a, b, i, prev2, prev)[DOMAIN [j \in 1..Len(b) |-> j]]
  BY DEF NextRow, FoldLeft, MapThenFoldSet, RowIter, RowStep

\* The rows while one is made.
MakesRow(g, a, b, i, prev2, prev) ==
  /\ g \in [0..Len(b) -> Row(b)]
  /\ g[0] = [j \in 0..Len(b) |-> i]
  /\ \A j \in 1..Len(b) : g[j] = [g[j - 1] EXCEPT ![j] = Cell(a, b, i, j, prev2, prev, g[j - 1])]
  /\ NextRow(a, b, i, prev2, prev) = g[Len(b)]

\* A row is made one cell after the other.
LEMMA RowIsMade ==
  ASSUME NEW a \in Seq(Char), NEW b \in Seq(Char), NEW i \in 1..Len(a), NEW prev2 \in Row(b), NEW prev \in Row(b)
  PROVE  \E g : MakesRow(g, a, b, i, prev2, prev)
  <1> DEFINE put(row, j) == [row EXCEPT ![j] = Cell(a, b, i, j, prev2, prev, row)]
  <1>1. Len(b) \in Nat
    OBVIOUS
  <1> PICK A : A = Row(b)
    OBVIOUS
  <1> PICK N : N = 1..Len(b)
    OBVIOUS
  <1> PICK seq : seq = [j \in 1..Len(b) |-> j]
    OBVIOUS
  <1> PICK h : h = [rj \in A \X N |-> put(rj[1], rj[2])]
    OBVIOUS
  <1> PICK base : base = [j \in 0..Len(b) |-> i]
    OBVIOUS
  <1> PICK D : D = SUBSET DOMAIN seq
    OBVIOUS
  <1>2. \A row \in A, j \in N : put(row, j) \in A /\ h[<<row, j>>] = put(row, j)
    <2> TAKE row \in A, j \in N
    <2>1. Cell(a, b, i, j, prev2, prev, row) \in Nat
      BY CellIs DEF IsCell
    <2>2. put(row, j) \in A
      BY <2>1 DEF Row
    <2> QED
      BY <2>2
  <1>3. h \in [A \X N -> A]
    BY <1>2, ZenonT(30)
  <1>4. base \in A
    BY DEF Row
  <1>5. seq \in Seq(N) /\ DOMAIN seq = 1..Len(seq) /\ Len(seq) = Len(b) /\ \A j \in N : seq[j] = j
    BY <1>1
  <1> HIDE DEF put
  <1>6. PICK g : g \in [D -> A] /\ FoldedBy(h, base, seq, g)
    BY <1>3, <1>4, <1>5, FoldExists
  <1>7. \A s \in D : s # {} => Max(s) \in N /\ s \ {Max(s)} \in D
    BY <1>1, <1>5, LastPlace
  <1>8. \A it : \A s \in D : s # {} => RowStep(a, b, i, prev2, prev, it, s) = put(it[s \ {Max(s)}], seq[Max(s)])
    BY DEF RowStep, put
  <1>9. \A it : RowStep(a, b, i, prev2, prev, it, {}) = base
    BY DEF RowStep
  <1>10. \A s \in D : g[s] = RowStep(a, b, i, prev2, prev, g, s)
    <2> TAKE s \in D
    <2>1. g[s] = FoldStep(h, base, seq, g, s)
      BY <1>6 DEF FoldedBy
    <2>2. CASE s = {}
      BY <1>9, <2>1, <2>2 DEF FoldStep
    <2>3. CASE s # {}
      <3>1. g[s \ {Max(s)}] \in A /\ seq[Max(s)] \in N
        BY <1>5, <1>6, <1>7, <2>3
      <3>2. g[s] = h[<<g[s \ {Max(s)}], seq[Max(s)]>>]
        BY <2>1, <2>3 DEF FoldStep
      <3>3. h[<<g[s \ {Max(s)}], seq[Max(s)]>>] = put(g[s \ {Max(s)}], seq[Max(s)])
        BY <1>2, <3>1
      <3>4. RowStep(a, b, i, prev2, prev, g, s) = put(g[s \ {Max(s)}], seq[Max(s)])
        BY <1>8, <2>3, Zenon
      <3> QED
        BY <3>2, <3>3, <3>4
    <2> QED
      BY <2>2, <2>3
  <1>11. g = [s \in D |-> RowStep(a, b, i, prev2, prev, g, s)]
    BY <1>6, <1>10
  <1> PICK it : it = RowIter(a, b, i, prev2, prev)
    OBVIOUS
  <1>12. it = [s \in D |-> RowStep(a, b, i, prev2, prev, it, s)]
    BY <1>11 DEF RowIter
  <1>13. FoldsIn(it, A, h, base, seq)
    <2>1. ASSUME NEW s \in D, s # {}, it[s \ {Max(s)}] \in A
          PROVE  it[s] = h[<<it[s \ {Max(s)}], seq[Max(s)]>>]
      <3>1. it[s] = put(it[s \ {Max(s)}], seq[Max(s)])
        <4>1. it[s] = RowStep(a, b, i, prev2, prev, it, s)
          BY <1>12, <2>1, Zenon
        <4> QED
          BY <1>8, <2>1, <4>1, Zenon
      <3>2. seq[Max(s)] \in N
        BY <1>5, <1>7, <2>1
      <3> QED
        BY <1>2, <2>1, <3>1, <3>2
    <2>2. ASSUME NEW s \in D, s = {} PROVE it[s] = base
      BY <1>9, <1>12, <2>2
    <2> QED
      BY <2>1, <2>2 DEF FoldsIn
  <1>14. FoldsTo(A, h, base, seq, it[DOMAIN seq])
    BY <1>3, <1>4, <1>5, <1>13, FoldIs
  <1>15. PICK f \in [0..Len(seq) -> A] : Folding(f, h, base, seq) /\ f[Len(seq)] = it[DOMAIN seq]
    BY <1>14 DEF FoldsTo
  <1>16. NextRow(a, b, i, prev2, prev) = f[Len(b)]
    BY <1>5, <1>15, RowIsIter
  <1>17. ASSUME NEW j \in 1..Len(b) PROVE f[j] = put(f[j - 1], j)
    <2>1. j - 1 \in 0..Len(seq) /\ j \in N /\ j \in 1..Len(seq)
      BY <1>1, <1>5
    <2>2. f[j] = h[<<f[j - 1], seq[j]>>] /\ f[j - 1] \in A /\ seq[j] = j
      BY <1>5, <1>15, <2>1 DEF Folding
    <2> QED
      BY <1>2, <2>1, <2>2
  <1>18. f[0] = base
    BY <1>15 DEF Folding
  <1>19. f \in [0..Len(b) -> Row(b)]
    BY <1>5, <1>15
  <1> QED
    BY <1>16, <1>17, <1>18, <1>19 DEF MakesRow, put

\* A row is what its cells are.
IsRow(row, a, b, i, prev2, prev) ==
  /\ row \in Row(b) /\ row[0] = i
  /\ \A j \in 1..Len(b) : IsCell(row[j], a, b, i, j, prev2, prev, row[j - 1])

\* A row that was made is one: no later step changes a cell.
LEMMA NextRowIs ==
  ASSUME NEW a \in Seq(Char), NEW b \in Seq(Char), NEW i \in 1..Len(a), NEW prev2 \in Row(b), NEW prev \in Row(b)
  PROVE  IsRow(NextRow(a, b, i, prev2, prev), a, b, i, prev2, prev)
  <1>1. PICK g : MakesRow(g, a, b, i, prev2, prev)
    BY RowIsMade
  <1> DEFINE n == Len(b)
             row == g[n]
             Bad == {k \in 0..n : \E j \in 0..k : g[k][j] # g[j][j]}
  <1>2. n \in Nat /\ g \in [0..n -> Row(b)] /\ NextRow(a, b, i, prev2, prev) = row
    BY <1>1 DEF MakesRow
  <1>3. \A k \in 1..n, j \in 0..n : /\ j = k => g[k][j] = Cell(a, b, i, k, prev2, prev, g[k - 1])
                                    /\ j # k => g[k][j] = g[k - 1][j]
    <2> TAKE k \in 1..n, j \in 0..n
    <2>1. g[k] = [g[k - 1] EXCEPT ![k] = Cell(a, b, i, k, prev2, prev, g[k - 1])]
      BY <1>1 DEF MakesRow
    <2>2. g[k - 1] \in Row(b)
      BY <1>2
    <2> QED
      BY <2>1, <2>2 DEF Row
  <1>4. Bad = {}
    <2> SUFFICES ASSUME Bad # {} PROVE FALSE
      OBVIOUS
    <2>1. Bad \in SUBSET Nat
      BY <1>2
    <2>2. PICK k \in Bad : \A m \in Bad : k <= m
      <3> HIDE DEF Bad
      <3> QED
        BY <2>1, LeastNat
    <2>3. PICK j \in 0..k : g[k][j] # g[j][j]
      BY <2>2
    <2>4. k \in 1..n /\ j # k /\ j \in 0..(k - 1) /\ k - 1 \in 0..n
      BY <1>2, <2>2, <2>3
    <2>5. k - 1 \notin Bad
      <3> HIDE DEF Bad
      <3> QED
        BY <2>1, <2>2, <2>4
    <2>6. g[k - 1][j] = g[j][j]
      BY <2>4, <2>5
    <2>7. g[k][j] = g[k - 1][j]
      BY <1>2, <1>3, <2>4
    <2> QED
      BY <2>3, <2>6, <2>7
  <1>5. \A k \in 0..n : \A j \in 0..k : g[k][j] = g[j][j]
    BY <1>4
  <1> HIDE DEF Bad
  <1>6. row \in Row(b) /\ n \in 0..n
    BY <1>2
  <1>7. row[0] = i
    <2>1. g[0] = [j \in 0..n |-> i]
      BY <1>1 DEF MakesRow
    <2>2. row[0] = g[0][0] /\ 0 \in 0..n
      BY <1>2, <1>5
    <2> QED
      BY <2>1, <2>2
  <1>8. ASSUME NEW j \in 1..n PROVE IsCell(row[j], a, b, i, j, prev2, prev, row[j - 1])
    <2>1. j \in 0..n /\ j - 1 \in 0..n /\ j - 1 \in 0..(j - 1)
      BY <1>2
    <2>2. row[j] = g[j][j] /\ row[j - 1] = g[j - 1][j - 1]
      BY <1>2, <1>5, <2>1
    <2>3. g[j][j] = Cell(a, b, i, j, prev2, prev, g[j - 1])
      BY <1>3, <2>1
    <2>4. g[j - 1] \in Row(b)
      BY <1>2, <2>1
    <2>5. IsCell(Cell(a, b, i, j, prev2, prev, g[j - 1]), a, b, i, j, prev2, prev, g[j - 1][j - 1])
      BY <2>4, CellIs
    <2> QED
      BY <2>2, <2>3, <2>5
  <1> QED
    BY <1>2, <1>6, <1>7, <1>8 DEF IsRow

\* The table is made row by row.
First(b) == [j \in 0..Len(b) |-> j]

TableStep(a, b, it, s) ==
  IF s = {} THEN <<First(b), First(b)>>
  ELSE <<it[s \ {Max(s)}][2],
         NextRow(a, b, [i \in 1..Len(a) |-> i][Max(s)], it[s \ {Max(s)}][1], it[s \ {Max(s)}][2])>>

TableIter(a, b) == CHOOSE it : it = [s \in SUBSET DOMAIN [i \in 1..Len(a) |-> i] |-> TableStep(a, b, it, s)]

\* The distance is in the corner of the last of that iteration.
LEMMA TableIsIter ==
  ASSUME NEW a, NEW b
  PROVE  Distance(a, b) = TableIter(a, b)[DOMAIN [i \in 1..Len(a) |-> i]][2][Len(b)]
  BY DEF Distance, FoldLeft, MapThenFoldSet, TableIter, TableStep, First

\* The last two rows while it is made.
Rows(b) == Row(b) \X Row(b)

MakesTable(g, a, b) ==
  /\ g \in [0..Len(a) -> Row(b) \X Row(b)]
  /\ g[0] = <<First(b), First(b)>>
  /\ \A i \in 1..Len(a) : g[i] = <<g[i - 1][2], NextRow(a, b, i, g[i - 1][1], g[i - 1][2])>>
  /\ Distance(a, b) = g[Len(a)][2][Len(b)]

\* The table is made one row after the other.
LEMMA TableIsMade ==
  ASSUME NEW a \in Seq(Char), NEW b \in Seq(Char)
  PROVE  \E g : MakesTable(g, a, b)
  <1> DEFINE put(two, i) == <<two[2], NextRow(a, b, i, two[1], two[2])>>
  <1>1. Len(a) \in Nat
    OBVIOUS
  <1> PICK A : A = Rows(b)
    OBVIOUS
  <1> PICK N : N = 1..Len(a)
    OBVIOUS
  <1> PICK seq : seq = [i \in 1..Len(a) |-> i]
    OBVIOUS
  <1> PICK h : h = [ti \in A \X N |-> put(ti[1], ti[2])]
    OBVIOUS
  <1> PICK base : base = <<First(b), First(b)>>
    OBVIOUS
  <1> PICK D : D = SUBSET DOMAIN seq
    OBVIOUS
  <1>2. \A two \in A, i \in N : put(two, i) \in A /\ h[<<two, i>>] = put(two, i)
    <2> TAKE two \in A, i \in N
    <2>1. two[1] \in Row(b) /\ two[2] \in Row(b)
      BY DEF Rows
    <2>2. NextRow(a, b, i, two[1], two[2]) \in Row(b)
      BY <2>1, NextRowIs DEF IsRow
    <2>3. put(two, i) \in A
      BY <2>1, <2>2 DEF Rows
    <2> QED
      BY <2>3
  <1>3. h \in [A \X N -> A]
    <2>1. ASSUME NEW x \in A \X N PROVE h[x] \in A
      <3>1. x[1] \in A /\ x[2] \in N /\ x = <<x[1], x[2]>>
        OBVIOUS
      <3> QED
        BY <1>2, <3>1
    <2> QED
      BY <2>1
  <1>4. base \in A
    BY DEF Row, Rows, First
  <1>5. seq \in Seq(N) /\ DOMAIN seq = 1..Len(seq) /\ Len(seq) = Len(a) /\ \A i \in N : seq[i] = i
    BY <1>1
  <1> HIDE DEF put
  <1>6. PICK g : g \in [D -> A] /\ FoldedBy(h, base, seq, g)
    <2>1. seq \in Seq(N)
      BY <1>5
    <2>2. \E it : it \in [SUBSET DOMAIN seq -> A] /\ FoldedBy(h, base, seq, it)
      BY <1>3, <1>4, <2>1, FoldExists, Zenon
    <2> QED
      BY <2>2, Zenon
  <1>7. \A s \in D : s # {} => Max(s) \in N /\ s \ {Max(s)} \in D
    BY <1>1, <1>5, LastPlace
  <1>8. \A it : \A s \in D : s # {} => TableStep(a, b, it, s) = put(it[s \ {Max(s)}], seq[Max(s)])
    BY DEF TableStep, put
  <1>9. \A it : TableStep(a, b, it, {}) = base
    BY DEF TableStep
  <1>10. \A s \in D : g[s] = TableStep(a, b, g, s)
    <2> TAKE s \in D
    <2>1. g[s] = FoldStep(h, base, seq, g, s)
      BY <1>6 DEF FoldedBy
    <2>2. CASE s = {}
      BY <1>9, <2>1, <2>2 DEF FoldStep
    <2>3. CASE s # {}
      <3>1. g[s \ {Max(s)}] \in A /\ seq[Max(s)] \in N
        BY <1>5, <1>6, <1>7, <2>3
      <3>2. g[s] = h[<<g[s \ {Max(s)}], seq[Max(s)]>>]
        BY <2>1, <2>3 DEF FoldStep
      <3>3. h[<<g[s \ {Max(s)}], seq[Max(s)]>>] = put(g[s \ {Max(s)}], seq[Max(s)])
        BY <1>2, <3>1
      <3>4. TableStep(a, b, g, s) = put(g[s \ {Max(s)}], seq[Max(s)])
        BY <1>8, <2>3, Zenon
      <3> QED
        BY <3>2, <3>3, <3>4
    <2> QED
      BY <2>2, <2>3
  <1>11. g = [s \in D |-> TableStep(a, b, g, s)]
    BY <1>6, <1>10
  <1> PICK it : it = TableIter(a, b)
    OBVIOUS
  <1>12. it = [s \in D |-> TableStep(a, b, it, s)]
    BY <1>11 DEF TableIter
  <1>13. FoldsIn(it, A, h, base, seq)
    <2>1. ASSUME NEW s \in D, s # {}, it[s \ {Max(s)}] \in A
          PROVE  it[s] = h[<<it[s \ {Max(s)}], seq[Max(s)]>>]
      <3>1. it[s] = put(it[s \ {Max(s)}], seq[Max(s)])
        <4>1. it[s] = TableStep(a, b, it, s)
          BY <1>12, <2>1, Zenon
        <4> QED
          BY <1>8, <2>1, <4>1, Zenon
      <3>2. seq[Max(s)] \in N
        BY <1>5, <1>7, <2>1
      <3> QED
        BY <1>2, <2>1, <3>1, <3>2
    <2>2. ASSUME NEW s \in D, s = {} PROVE it[s] = base
      BY <1>9, <1>12, <2>2
    <2> QED
      BY <2>1, <2>2 DEF FoldsIn
  <1>14. FoldsTo(A, h, base, seq, it[DOMAIN seq])
    BY <1>3, <1>4, <1>5, <1>13, FoldIs
  <1>15. PICK f \in [0..Len(seq) -> A] : Folding(f, h, base, seq) /\ f[Len(seq)] = it[DOMAIN seq]
    BY <1>14 DEF FoldsTo
  <1>16. Distance(a, b) = f[Len(a)][2][Len(b)]
    BY <1>5, <1>15, TableIsIter
  <1>17. ASSUME NEW i \in 1..Len(a) PROVE f[i] = put(f[i - 1], i)
    <2>1. i - 1 \in 0..Len(seq) /\ i \in N /\ i \in 1..Len(seq)
      BY <1>1, <1>5
    <2>2. f[i] = h[<<f[i - 1], seq[i]>>] /\ f[i - 1] \in A /\ seq[i] = i
      BY <1>5, <1>15, <2>1 DEF Folding
    <2> QED
      BY <1>2, <2>1, <2>2
  <1>18. f[0] = base
    BY <1>15 DEF Folding
  <1>19. f \in [0..Len(a) -> Row(b) \X Row(b)]
    BY <1>5, <1>15 DEF Rows
  <1> QED
    BY <1>16, <1>17, <1>18, <1>19 DEF MakesTable, put

\* The table: what its cells are, and what is in the last one.
IsTable(t, a, b) ==
  /\ t \in [0..Len(a) -> Row(b)]
  /\ t[0] = First(b)
  /\ \A i \in 1..Len(a) : t[i][0] = i
  /\ \A i \in 1..Len(a), j \in 1..Len(b) :
       IsCell(t[i][j], a, b, i, j, IF i = 1 THEN First(b) ELSE t[i - 2], t[i - 1], t[i][j - 1])
  /\ Distance(a, b) = t[Len(a)][Len(b)]

\* The distance of two names is in the corner of a table, whose cells are right.
LEMMA DistanceIs ==
  ASSUME NEW a \in Seq(Char), NEW b \in Seq(Char)
  PROVE  \E t : IsTable(t, a, b)
  <1>1. PICK g : MakesTable(g, a, b)
    BY TableIsMade
  <1> DEFINE t == [i \in 0..Len(a) |-> g[i][2]]
  <1>2. /\ g \in [0..Len(a) -> Row(b) \X Row(b)]
        /\ g[0] = <<First(b), First(b)>>
        /\ \A i \in 1..Len(a) : g[i] = <<g[i - 1][2], NextRow(a, b, i, g[i - 1][1], g[i - 1][2])>>
        /\ Distance(a, b) = g[Len(a)][2][Len(b)]
        /\ Len(a) \in Nat
    BY <1>1 DEF MakesTable
  <1>3. t \in [0..Len(a) -> Row(b)] /\ \A i \in 0..Len(a) : g[i][1] \in Row(b) /\ g[i][2] \in Row(b) /\ t[i] = g[i][2]
    BY <1>2
  <1>4. t[0] = First(b) /\ Distance(a, b) = t[Len(a)][Len(b)]
    BY <1>2, <1>3
  <1>5. ASSUME NEW i \in 1..Len(a)
        PROVE  /\ i - 1 \in 0..Len(a)
               /\ g[i - 1][1] = IF i = 1 THEN First(b) ELSE t[i - 2]
               /\ IsRow(t[i], a, b, i, g[i - 1][1], t[i - 1])
    <2>1. i - 1 \in 0..Len(a) /\ i \in 0..Len(a)
      BY <1>2
    <2>2. g[i - 1][1] = IF i = 1 THEN First(b) ELSE t[i - 2]
      <3>1. CASE i = 1
        BY <1>2, <3>1
      <3>2. CASE i # 1
        <4>1. i - 1 \in 1..Len(a) /\ i - 2 \in 0..Len(a) /\ (i - 1) - 1 = i - 2
          BY <1>2, <3>2
        <4>2. g[i - 1][1] = g[i - 2][2]
          BY <1>2, <4>1, SMTT(30)
        <4> QED
          BY <1>3, <3>2, <4>1, <4>2
      <3> QED
        BY <3>1, <3>2
    <2>3. t[i] = NextRow(a, b, i, g[i - 1][1], t[i - 1])
      BY <1>2, <1>3, <2>1
    <2>4. g[i - 1][1] \in Row(b) /\ t[i - 1] \in Row(b)
      BY <1>3, <2>1
    <2> QED
      BY <2>1, <2>2, <2>3, <2>4, NextRowIs
  <1> HIDE DEF t
  <1>6. ASSUME NEW i \in 1..Len(a), NEW j \in 1..Len(b)
        PROVE  IsCell(t[i][j], a, b, i, j, IF i = 1 THEN First(b) ELSE t[i - 2], t[i - 1], t[i][j - 1])
    <2>1. IsCell(t[i][j], a, b, i, j, g[i - 1][1], t[i - 1], t[i][j - 1])
      BY <1>5 DEF IsRow
    <2> QED
      BY <1>5, <2>1
  <1>7. \A i \in 1..Len(a) : t[i][0] = i
    BY <1>5 DEF IsRow
  <1> QED
    BY <1>3, <1>4, <1>6, <1>7 DEF IsTable

-----------------------------------------------------------------------------
(* What the distances say of names.                                        *)

\* A cell is as far as one of its neighbours allows.
AsANeighbour(t, a, b, i, j) ==
  \/ t[i][j] = t[i - 1][j] + 1
  \/ t[i][j] = t[i][j - 1] + 1
  \/ t[i][j] = t[i - 1][j - 1] + 1
  \/ a[i] = b[j] /\ t[i][j] = t[i - 1][j - 1]
  \/ Swapped(a, b, i, j) /\ t[i][j] = t[i - 2][j - 2] + 1

\* What the table has where the names begin, and in its other cells: they
\* are natural numbers, and each is one of the ways to go on, the shortest.
LEMMA CellsAre ==
  ASSUME NEW a \in Seq(Char), NEW b \in Seq(Char), NEW t, IsTable(t, a, b)
  PROVE  /\ \A i \in 0..Len(a), j \in 0..Len(b) : t[i][j] \in Nat
         /\ \A j \in 0..Len(b) : t[0][j] = j
         /\ \A i \in 0..Len(a) : t[i][0] = i
         /\ \A i \in 1..Len(a), j \in 1..Len(b) :
              /\ t[i][j] <= t[i - 1][j] + 1 /\ t[i][j] <= t[i][j - 1] + 1 /\ t[i][j] <= t[i - 1][j - 1] + 1
              /\ a[i] = b[j] => t[i][j] <= t[i - 1][j - 1]
              /\ Swapped(a, b, i, j) => t[i][j] <= t[i - 2][j - 2] + 1
              /\ AsANeighbour(t, a, b, i, j)
  <1>1. \A i \in 0..Len(a), j \in 0..Len(b) : t[i][j] \in Nat
    BY DEF IsTable, Row
  <1>2. \A j \in 0..Len(b) : t[0][j] = j
    BY DEF IsTable, First
  <1>3. Len(a) \in Nat /\ Len(b) \in Nat /\ 0 \in 0..Len(b)
    OBVIOUS
  <1>4. \A i \in 0..Len(a) : t[i][0] = i
    BY <1>2, <1>3 DEF IsTable
  <1>5. ASSUME NEW i \in 1..Len(a), NEW j \in 1..Len(b)
        PROVE  /\ t[i][j] <= t[i - 1][j] + 1 /\ t[i][j] <= t[i][j - 1] + 1 /\ t[i][j] <= t[i - 1][j - 1] + 1
               /\ a[i] = b[j] => t[i][j] <= t[i - 1][j - 1]
               /\ Swapped(a, b, i, j) => t[i][j] <= t[i - 2][j - 2] + 1
               /\ AsANeighbour(t, a, b, i, j)
    <2>1. IsCell(t[i][j], a, b, i, j, IF i = 1 THEN First(b) ELSE t[i - 2], t[i - 1], t[i][j - 1])
      BY DEF IsTable
    <2>2. Swapped(a, b, i, j) => (IF i = 1 THEN First(b) ELSE t[i - 2]) = t[i - 2]
      BY DEF Swapped
    <2> QED
      BY <2>1, <2>2, Zenon DEF IsCell, AsANeighbour
  <1> QED
    BY <1>1, <1>2, <1>4, <1>5

\* As many characters of a name.
Upto(x, n) == SubSeq(x, 1, n)

\* One character more.
LEMMA UptoNext ==
  ASSUME NEW x \in Seq(Char)
  PROVE  /\ Upto(x, 0) = <<>> /\ Upto(x, Len(x)) = x
         /\ \A n \in 0..Len(x) : Upto(x, n) \in Seq(Char) /\ Len(Upto(x, n)) = n
         /\ \A n \in 1..Len(x) : x[n] \in Char /\ Upto(x, n) = Append(Upto(x, n - 1), x[n])
  <1>1. Upto(x, 0) = <<>> /\ Upto(x, Len(x)) = x
    BY DEF Upto
  <1>2. \A n \in 0..Len(x) : Upto(x, n) \in Seq(Char) /\ Len(Upto(x, n)) = n
    BY DEF Upto
  <1>3. ASSUME NEW n \in 1..Len(x) PROVE x[n] \in Char /\ Upto(x, n) = Append(Upto(x, n - 1), x[n])
    <2> DEFINE u == Upto(x, n)
               v == Append(Upto(x, n - 1), x[n])
    <2>1. u \in Seq(Char) /\ v \in Seq(Char) /\ Len(u) = Len(v) /\ \A k \in 1..Len(u) : u[k] = v[k]
      BY DEF Upto
    <2> HIDE DEF u, v
    <2>2. u = v
      BY <2>1, SameList
    <2> QED
      BY <2>2 DEF u, v
  <1> QED
    BY <1>1, <1>2, <1>3

\* What a distance of none, one or two says of two names.
TyposApart(d, x, y) ==
  /\ d = 0 => x = y
  /\ d = 1 => y \in OneTypo(x)
  /\ d = 2 => \E z \in OneTypo(x) : y \in OneTypo(z)

\* One character more, at the end of one or of both; or two, swapped.
LEMMA OneMoreApart ==
  ASSUME NEW x \in Seq(Char), NEW y \in Seq(Char), NEW d \in Nat, TyposApart(d, x, y),
         NEW p \in Char, NEW q \in Char
  PROVE  /\ TyposApart(d + 1, Append(x, p), y)
         /\ TyposApart(d + 1, x, Append(y, p))
         /\ TyposApart(d + 1, Append(x, p), Append(y, q))
         /\ TyposApart(d, Append(x, p), Append(y, p))
         /\ TyposApart(d + 1, Append(Append(x, p), q), Append(Append(y, q), p))
  <1>1. Append(x, p) \in Seq(Char) /\ Append(y, p) \in Seq(Char) /\ Append(y, q) \in Seq(Char)
    OBVIOUS
  <1>2. d = 0 => x = y
    BY DEF TyposApart
  <1>3. d = 1 => y \in OneTypo(x)
    BY DEF TyposApart
  <1>4. d = 2 => \E z \in OneTypo(x) : y \in OneTypo(z)
    BY DEF TyposApart
  <1>5. d + 1 # 0 /\ (d + 1 = 1 => d = 0) /\ (d + 1 = 2 => d = 1)
    OBVIOUS
  <1>6. TyposApart(d + 1, Append(x, p), y)
    BY <1>2, <1>3, <1>5, LastTypo DEF TyposApart
  <1>7. TyposApart(d + 1, x, Append(y, p))
    BY <1>2, <1>3, <1>5, LastTypo DEF TyposApart
  <1>8. ASSUME y \in OneTypo(x) PROVE Append(y, p) \in OneTypo(Append(x, p))
    BY <1>8, TypoFollowed
  <1>9. TyposApart(d + 1, Append(x, p), Append(y, q))
    <2>1. Append(y, q) \in OneTypo(Append(y, p))
      BY LastTypo
    <2> QED
      BY <1>2, <1>3, <1>5, <1>8, <2>1 DEF TyposApart
  <1>10. TyposApart(d, Append(x, p), Append(y, p))
    <2>1. ASSUME NEW z \in OneTypo(x), y \in OneTypo(z)
          PROVE  Append(z, p) \in OneTypo(Append(x, p)) /\ Append(y, p) \in OneTypo(Append(z, p))
      BY <2>1, TypoFollowed, TypoIsName
    <2> QED
      BY <1>2, <1>3, <1>4, <1>8, <2>1 DEF TyposApart
  <1>11. TyposApart(d + 1, Append(Append(x, p), q), Append(Append(y, q), p))
    <2>1. ASSUME y \in OneTypo(x) PROVE Append(Append(y, p), q) \in OneTypo(Append(Append(x, p), q))
      <3>1. Append(y, p) \in OneTypo(Append(x, p))
        BY <1>8, <2>1
      <3> QED
        BY <1>1, <3>1, TypoFollowed
    <2>2. Append(Append(y, q), p) \in OneTypo(Append(Append(y, p), q))
      BY LastTypo
    <2> QED
      BY <1>2, <1>3, <1>5, <2>1, <2>2 DEF TyposApart
  <1> QED
    BY <1>6, <1>7, <1>9, <1>10, <1>11

\* What the table says is so.
LEMMA TableIsRight ==
  ASSUME NEW a \in Seq(Char), NEW b \in Seq(Char), NEW t, IsTable(t, a, b)
  PROVE  \A i \in 0..Len(a), j \in 0..Len(b) : TyposApart(t[i][j], Upto(a, i), Upto(b, j))
  <1> DEFINE right(i, j) == TyposApart(t[i][j], Upto(a, i), Upto(b, j))
             Bad == {n \in Nat : \E i \in 0..Len(a), j \in 0..Len(b) : n = i + j /\ ~right(i, j)}
  <1>1. Len(a) \in Nat /\ Len(b) \in Nat
    OBVIOUS
  <1>2. SUFFICES ASSUME Bad # {} PROVE FALSE
    <2> SUFFICES ASSUME Bad = {}, NEW i \in 0..Len(a), NEW j \in 0..Len(b) PROVE right(i, j)
      BY Zenon
    <2> HIDE DEF right
    <2>1. i + j \in Nat
      BY <1>1
    <2>2. i + j \notin Bad
      <3> HIDE DEF Bad
      <3> QED
        OBVIOUS
    <2> QED
      BY <2>1, <2>2
  <1>3. PICK n \in Bad : \A m \in Bad : n <= m
    <2>1. Bad \in SUBSET Nat
      OBVIOUS
    <2> HIDE DEF Bad
    <2> QED
      BY <1>2, <2>1, LeastNat
  <1> HIDE DEF right
  <1>4. PICK i \in 0..Len(a), j \in 0..Len(b) : n = i + j /\ ~right(i, j)
    BY <1>3
  <1>5. \A k \in 0..Len(a), l \in 0..Len(b) : k + l < n => right(k, l)
    <2> TAKE k \in 0..Len(a), l \in 0..Len(b)
    <2> HAVE k + l < n
    <2>1. k + l \notin Bad
      <3>1. k + l \in Nat /\ n \in Nat /\ ~(n <= k + l)
        BY <1>1, <1>3
      <3> HIDE DEF Bad
      <3> QED
        BY <1>3, <3>1
    <2> QED
      BY <1>1, <2>1
  <1> HIDE DEF Bad
  <1>6. CASE i = 0 /\ j = 0
    <2>1. t[i][j] = 0 /\ Upto(a, 0) = Upto(b, 0)
      BY <1>1, <1>6, CellsAre, UptoNext
    <2>2. right(i, j)
      BY <1>6, <2>1 DEF right, TyposApart
    <2> QED
      BY <1>4, <2>2
  <1>7. CASE i # 0 /\ t[i][j] = t[i - 1][j] + 1
    <2>1. i \in 1..Len(a) /\ i - 1 \in 0..Len(a) /\ right(i - 1, j)
      BY <1>1, <1>4, <1>5, <1>7
    <2>2. t[i - 1][j] \in Nat /\ Upto(a, i - 1) \in Seq(Char) /\ Upto(b, j) \in Seq(Char)
      BY <2>1, CellsAre, UptoNext
    <2>3. a[i] \in Char /\ Upto(a, i) = Append(Upto(a, i - 1), a[i])
      BY <2>1, UptoNext
    <2>4. right(i, j)
      BY <1>7, <2>1, <2>2, <2>3, OneMoreApart DEF right
    <2> QED
      BY <1>4, <2>4
  <1>8. CASE j # 0 /\ t[i][j] = t[i][j - 1] + 1
    <2>1. j \in 1..Len(b) /\ j - 1 \in 0..Len(b) /\ right(i, j - 1)
      BY <1>1, <1>4, <1>5, <1>8
    <2>2. t[i][j - 1] \in Nat /\ Upto(a, i) \in Seq(Char) /\ Upto(b, j - 1) \in Seq(Char)
      BY <2>1, CellsAre, UptoNext
    <2>3. b[j] \in Char /\ Upto(b, j) = Append(Upto(b, j - 1), b[j])
      BY <2>1, UptoNext
    <2>4. right(i, j)
      BY <1>8, <2>1, <2>2, <2>3, OneMoreApart DEF right
    <2> QED
      BY <1>4, <2>4
  <1>9. CASE i # 0 /\ j # 0
    <2>1. /\ i \in 1..Len(a) /\ i - 1 \in 0..Len(a) /\ j \in 1..Len(b) /\ j - 1 \in 0..Len(b)
          /\ right(i - 1, j - 1)
      BY <1>1, <1>4, <1>5, <1>9
    <2>2. t[i - 1][j - 1] \in Nat /\ Upto(a, i - 1) \in Seq(Char) /\ Upto(b, j - 1) \in Seq(Char)
      BY <2>1, CellsAre, UptoNext
    <2>3. /\ a[i] \in Char /\ Upto(a, i) = Append(Upto(a, i - 1), a[i])
          /\ b[j] \in Char /\ Upto(b, j) = Append(Upto(b, j - 1), b[j])
      BY <2>1, UptoNext
    <2>4. CASE t[i][j] = t[i - 1][j - 1] + 1
      <3>1. right(i, j)
        BY <2>1, <2>2, <2>3, <2>4, OneMoreApart DEF right
      <3> QED
        BY <1>4, <3>1
    <2>5. CASE a[i] = b[j] /\ t[i][j] = t[i - 1][j - 1]
      <3>1. right(i, j)
        BY <2>1, <2>2, <2>3, <2>5, OneMoreApart DEF right
      <3> QED
        BY <1>4, <3>1
    <2>6. CASE Swapped(a, b, i, j) /\ t[i][j] = t[i - 2][j - 2] + 1
      <3>1. i > 1 /\ j > 1 /\ a[i] = b[j - 1] /\ a[i - 1] = b[j]
        BY <2>6 DEF Swapped
      <3>2. /\ i - 1 \in 1..Len(a) /\ j - 1 \in 1..Len(b) /\ i - 2 \in 0..Len(a) /\ j - 2 \in 0..Len(b)
            /\ (i - 1) - 1 = i - 2 /\ (j - 1) - 1 = j - 2
        BY <1>1, <2>1, <3>1, SMTT(30)
      <3>8. (i - 2) + (j - 2) < n
        BY <1>1, <1>4, <2>1, <3>1
      <3>7. right(i - 2, j - 2)
        BY <1>5, <3>2, <3>8
      <3>3. t[i - 2][j - 2] \in Nat /\ Upto(a, i - 2) \in Seq(Char) /\ Upto(b, j - 2) \in Seq(Char)
        BY <3>2, CellsAre, UptoNext
      <3>4. /\ a[i - 1] \in Char /\ Upto(a, i - 1) = Append(Upto(a, i - 2), a[i - 1])
            /\ b[j - 1] \in Char /\ Upto(b, j - 1) = Append(Upto(b, j - 2), b[j - 1])
        BY <3>2, UptoNext
      <3>5. TyposApart(t[i - 2][j - 2] + 1, Append(Append(Upto(a, i - 2), a[i - 1]), a[i]),
                       Append(Append(Upto(b, j - 2), a[i]), a[i - 1]))
        BY <2>3, <3>3, <3>4, <3>7, OneMoreApart DEF right
      <3>6. right(i, j)
        BY <2>3, <2>6, <3>1, <3>4, <3>5 DEF right
      <3> QED
        BY <1>4, <3>6
    <2>7. \/ t[i][j] = t[i - 1][j] + 1
          \/ t[i][j] = t[i][j - 1] + 1
          \/ t[i][j] = t[i - 1][j - 1] + 1
          \/ a[i] = b[j] /\ t[i][j] = t[i - 1][j - 1]
          \/ Swapped(a, b, i, j) /\ t[i][j] = t[i - 2][j - 2] + 1
      <3>1. AsANeighbour(t, a, b, i, j)
        BY <2>1, CellsAre
      <3> QED
        BY <3>1, Zenon DEF AsANeighbour
    <2> QED
      BY <1>7, <1>8, <1>9, <2>4, <2>5, <2>6, <2>7
  <1>10. CASE i = 0 /\ j # 0
    <2>1. t[0][j] = j /\ t[0][j - 1] = j - 1
      <3>1. j - 1 \in 0..Len(b)
        BY <1>1, <1>10
      <3> QED
        BY <3>1, CellsAre
    <2> QED
      BY <1>8, <1>10, <2>1
  <1>11. CASE i # 0 /\ j = 0
    <2>1. t[i][0] = i /\ t[i - 1][0] = i - 1
      <3>1. i - 1 \in 0..Len(a)
        BY <1>1, <1>11
      <3> QED
        BY <3>1, CellsAre
    <2> QED
      BY <1>7, <1>11, <2>1
  <1> QED
    BY <1>6, <1>9, <1>10, <1>11

\* The same characters do not take names further apart.
LEMMA SameGoOn ==
  ASSUME NEW a \in Seq(Char), NEW b \in Seq(Char), NEW t, IsTable(t, a, b),
         NEW i \in 0..Len(a), NEW j \in 0..Len(b), NEW n \in Nat, i + n <= Len(a), j + n <= Len(b),
         \A k \in 1..n : a[i + k] = b[j + k]
  PROVE  t[i + n][j + n] <= t[i][j]
  <1> DEFINE Bad == {m \in 0..n : ~(t[i + m][j + m] <= t[i][j])}
  <1>1. Len(a) \in Nat /\ Len(b) \in Nat
    OBVIOUS
  <1>2. SUFFICES ASSUME Bad # {} PROVE FALSE
    <2> SUFFICES ASSUME Bad = {} PROVE t[i + n][j + n] <= t[i][j]
      BY Zenon
    <2>1. n \in 0..n
      OBVIOUS
    <2>2. n \notin Bad
      <3> HIDE DEF Bad
      <3> QED
        OBVIOUS
    <2> QED
      BY <2>1, <2>2
  <1>3. PICK m \in Bad : \A l \in Bad : m <= l
    <2>1. Bad \in SUBSET Nat
      OBVIOUS
    <2> HIDE DEF Bad
    <2> QED
      BY <1>2, <2>1, LeastNat
  <1>4. m \in 0..n /\ ~(t[i + m][j + m] <= t[i][j])
    OBVIOUS
  <1>5. m # 0
    <2>1. t[i][j] \in Nat
      BY CellsAre
    <2> SUFFICES ASSUME m = 0 PROVE FALSE
      OBVIOUS
    <2>2. i + m = i /\ j + m = j
      BY <1>1
    <2> QED
      BY <1>4, <2>1, <2>2
  <1>6. m - 1 \in 0..n /\ m - 1 \notin Bad
    <2>1. m - 1 \in 0..n /\ ~(m <= m - 1)
      BY <1>4, <1>5
    <2> HIDE DEF Bad
    <2> QED
      BY <1>3, <2>1
  <1>7. t[i + (m - 1)][j + (m - 1)] <= t[i][j]
    BY <1>6
  <1> HIDE DEF Bad
  <1>8. /\ i + m \in 1..Len(a) /\ j + m \in 1..Len(b)
        /\ (i + m) - 1 = i + (m - 1) /\ (j + m) - 1 = j + (m - 1) /\ m \in 1..n
        /\ i + (m - 1) \in 0..Len(a) /\ j + (m - 1) \in 0..Len(b)
        /\ i + m \in 0..Len(a) /\ j + m \in 0..Len(b)
    BY <1>1, <1>4, <1>5
  <1>9. a[i + m] = b[j + m]
    BY <1>8
  <1>10. t[i + m][j + m] <= t[i + (m - 1)][j + (m - 1)]
    <2>1. \A k \in 1..Len(a), l \in 1..Len(b) : a[k] = b[l] => t[k][l] <= t[k - 1][l - 1]
      BY CellsAre
    <2> QED
      BY <1>8, <1>9, <2>1
  <1>11. t[i + m][j + m] \in Nat /\ t[i + (m - 1)][j + (m - 1)] \in Nat /\ t[i][j] \in Nat
    <2>1. \A k \in 0..Len(a), l \in 0..Len(b) : t[k][l] \in Nat
      BY CellsAre
    <2> QED
      BY <1>8, <2>1
  <1>12. \A x, y, z \in Nat : x <= y /\ y <= z => x <= z
    OBVIOUS
  <1> QED
    BY <1>4, <1>7, <1>10, <1>11, <1>12, Zenon

\* Where two names are the same from the beginning on, they are not apart.
LEMMA SameBegin ==
  ASSUME NEW a \in Seq(Char), NEW b \in Seq(Char), NEW t, IsTable(t, a, b),
         NEW n \in Nat, n <= Len(a), n <= Len(b), \A k \in 1..n : a[k] = b[k]
  PROVE  t[n][n] = 0
  <1>1. Len(a) \in Nat /\ Len(b) \in Nat /\ 0 \in 0..Len(a) /\ 0 \in 0..Len(b) /\ n \in 0..Len(a) /\ n \in 0..Len(b)
    OBVIOUS
  <1>2. 0 + n <= Len(a) /\ 0 + n <= Len(b) /\ 0 + n = n /\ \A k \in 1..n : a[0 + k] = b[0 + k]
    OBVIOUS
  <1>3. t[0 + n][0 + n] <= t[0][0]
    BY <1>1, <1>2, SameGoOn
  <1>4. t[0][0] = 0 /\ t[n][n] \in Nat
    BY <1>1, CellsAre
  <1> QED
    BY <1>2, <1>3, <1>4

\* What follows is the same.
SameFrom(a, b, i, j) == Len(a) - i = Len(b) - j /\ \A k \in 1..(Len(a) - i) : a[i + k] = b[j + k]

\* A typo is a distance of at most one.
LEMMA TypoIsNear ==
  ASSUME NEW a \in Seq(Char), NEW b \in OneTypo(a)
  PROVE  /\ Distance(a, b) \in Nat /\ Distance(a, b) <= 1
         /\ Len(a) - Len(b) \in -1..1
  <1>1. b \in Seq(Char)
    BY TypoIsName
  <1>2. PICK t : IsTable(t, a, b)
    BY <1>1, DistanceIs
  <1>3. Distance(a, b) = t[Len(a)][Len(b)] /\ Len(a) \in Nat /\ Len(b) \in Nat
    BY <1>1, <1>2 DEF IsTable
  <1>4. t[Len(a)][Len(b)] \in Nat
    <2>1. Len(a) \in 0..Len(a) /\ Len(b) \in 0..Len(b)
      BY <1>3
    <2> QED
      BY <1>1, <1>2, <2>1, CellsAre
  <1>5. ASSUME NEW i \in 0..Len(a), NEW j \in 0..Len(b), t[i][j] <= 1, SameFrom(a, b, i, j)
        PROVE  t[Len(a)][Len(b)] <= 1
    <2> DEFINE n == Len(a) - i
    <2>1. n \in Nat /\ i + n = Len(a) /\ j + n = Len(b) /\ i + n <= Len(a) /\ j + n <= Len(b)
      BY <1>3, <1>5 DEF SameFrom
    <2>2. \A k \in 1..n : a[i + k] = b[j + k]
      BY <1>5 DEF SameFrom
    <2> HIDE DEF n
    <2>3. t[i + n][j + n] <= t[i][j]
      BY <1>1, <1>2, <2>1, <2>2, SameGoOn
    <2>4. t[i][j] \in Nat
      BY <1>1, <1>2, CellsAre
    <2> QED
      BY <1>4, <1>5, <2>1, <2>3, <2>4, SMTT(30)
  <1>6. ASSUME NEW i \in 1..Len(a), Dropped(a, b, i) PROVE t[Len(a)][Len(b)] <= 1 /\ Len(a) - Len(b) = 1
    <2>1. Len(a) = Len(b) + 1 /\ \A k \in 1..Len(b) : b[k] = IF k < i THEN a[k] ELSE a[k + 1]
      BY <1>6 DEF Dropped
    <2>2. i - 1 \in Nat /\ i - 1 <= Len(a) /\ i - 1 <= Len(b) /\ i \in 0..Len(a) /\ i - 1 \in 0..Len(b) /\ i - 1 \in 0..Len(a)
      BY <1>3, <2>1
    <2>3. \A k \in 1..(i - 1) : a[k] = b[k]
      BY <1>3, <2>1
    <2>4. t[i - 1][i - 1] = 0
      BY <1>1, <1>2, <2>2, <2>3, SameBegin
    <2>5. t[i][i - 1] <= 1
      <3>1. CASE i = 1
        <4>1. t[i][0] = i
          BY <1>1, <1>2, <2>2, CellsAre
        <4> QED
          BY <3>1, <4>1
      <3>2. CASE i # 1
        <4>1. i \in 1..Len(a) /\ i - 1 \in 1..Len(b)
          BY <2>2, <3>2
        <4>2. t[i][i - 1] <= t[i - 1][i - 1] + 1
          BY <1>1, <1>2, <4>1, CellsAre
        <4> QED
          BY <2>4, <4>2
      <3> QED
        BY <3>1, <3>2
    <2>6. Len(a) - i = Len(b) - (i - 1)
      BY <1>3, <2>1
    <2>7. ASSUME NEW k \in 1..(Len(a) - i) PROVE a[i + k] = b[(i - 1) + k]
      <3>1. (i - 1) + k \in 1..Len(b) /\ ~((i - 1) + k < i) /\ ((i - 1) + k) + 1 = i + k
        BY <1>3, <2>1
      <3> QED
        BY <2>1, <3>1
    <2>8. SameFrom(a, b, i, i - 1)
      BY <2>6, <2>7 DEF SameFrom
    <2>9. t[Len(a)][Len(b)] <= 1
      BY <1>5, <2>2, <2>5, <2>8
    <2> QED
      BY <1>3, <2>1, <2>9
  <1>7. ASSUME NEW i \in 1..Len(b), Dropped(b, a, i) PROVE t[Len(a)][Len(b)] <= 1 /\ Len(a) - Len(b) = -1
    <2>1. Len(b) = Len(a) + 1 /\ \A k \in 1..Len(a) : a[k] = IF k < i THEN b[k] ELSE b[k + 1]
      BY <1>7 DEF Dropped
    <2>2. i - 1 \in Nat /\ i - 1 <= Len(a) /\ i - 1 <= Len(b) /\ i \in 0..Len(b) /\ i - 1 \in 0..Len(b) /\ i - 1 \in 0..Len(a)
      BY <1>3, <2>1
    <2>3. \A k \in 1..(i - 1) : a[k] = b[k]
      BY <1>3, <2>1
    <2>4. t[i - 1][i - 1] = 0
      BY <1>1, <1>2, <2>2, <2>3, SameBegin
    <2>5. t[i - 1][i] <= 1
      <3>1. CASE i = 1
        <4>1. t[0][i] = i
          BY <1>1, <1>2, <2>2, CellsAre
        <4> QED
          BY <3>1, <4>1
      <3>2. CASE i # 1
        <4>1. i - 1 \in 1..Len(a) /\ i \in 1..Len(b)
          BY <2>2, <3>2
        <4>2. t[i - 1][i] <= t[i - 1][i - 1] + 1
          BY <1>1, <1>2, <4>1, CellsAre
        <4> QED
          BY <2>4, <4>2
      <3> QED
        BY <3>1, <3>2
    <2>6. Len(a) - (i - 1) = Len(b) - i
      BY <1>3, <2>1
    <2>7. ASSUME NEW k \in 1..(Len(a) - (i - 1)) PROVE a[(i - 1) + k] = b[i + k]
      <3>1. (i - 1) + k \in 1..Len(a) /\ ~((i - 1) + k < i) /\ ((i - 1) + k) + 1 = i + k
        BY <1>3, <2>1
      <3> QED
        BY <2>1, <3>1
    <2>8. SameFrom(a, b, i - 1, i)
      BY <2>6, <2>7 DEF SameFrom
    <2>9. t[Len(a)][Len(b)] <= 1
      BY <1>5, <2>2, <2>5, <2>8
    <2> QED
      BY <1>3, <2>1, <2>9
  <1>8. ASSUME NEW i \in 1..Len(a), Changed(a, b, i) PROVE t[Len(a)][Len(b)] <= 1 /\ Len(a) - Len(b) = 0
    <2>1. Len(a) = Len(b) /\ \A k \in 1..Len(b) : k # i => b[k] = a[k]
      BY <1>8 DEF Changed
    <2>2. i - 1 \in Nat /\ i - 1 <= Len(a) /\ i - 1 <= Len(b) /\ i \in 0..Len(b) /\ i \in 0..Len(a) /\ i \in 1..Len(b)
      BY <1>3, <2>1
    <2>3. \A k \in 1..(i - 1) : a[k] = b[k]
      BY <1>3, <2>1
    <2>4. t[i - 1][i - 1] = 0
      BY <1>1, <1>2, <2>2, <2>3, SameBegin
    <2>5. t[i][i] <= t[i - 1][i - 1] + 1
      BY <1>1, <1>2, <2>2, CellsAre
    <2>6. t[i][i] <= 1
      BY <2>4, <2>5
    <2>7. ASSUME NEW k \in 1..(Len(a) - i) PROVE a[i + k] = b[i + k]
      <3>1. i + k \in 1..Len(b) /\ i + k # i
        BY <1>3, <2>1
      <3> QED
        BY <2>1, <3>1
    <2>8. Len(a) - i = Len(b) - i
      BY <2>1
    <2>9. SameFrom(a, b, i, i)
      BY <2>7, <2>8 DEF SameFrom
    <2>10. t[Len(a)][Len(b)] <= 1
      BY <1>5, <2>2, <2>6, <2>9
    <2> QED
      BY <1>3, <2>1, <2>10
  <1>9. ASSUME NEW i \in 1..(Len(a) - 1), Exchanged(a, b, i) PROVE t[Len(a)][Len(b)] <= 1 /\ Len(a) - Len(b) = 0
    <2>1. /\ Len(a) = Len(b)
          /\ \A k \in 1..Len(b) : b[k] = IF k = i THEN a[i + 1] ELSE IF k = i + 1 THEN a[i] ELSE a[k]
      BY <1>9 DEF Exchanged
    <2>2. /\ i - 1 \in Nat /\ i - 1 <= Len(a) /\ i - 1 <= Len(b)
          /\ i + 1 \in 0..Len(b) /\ i + 1 \in 0..Len(a) /\ i + 1 \in 1..Len(b) /\ i + 1 \in 1..Len(a)
          /\ i \in 1..Len(b) /\ (i + 1) - 1 = i /\ (i + 1) - 2 = i - 1 /\ i + 1 > 1 /\ i + 1 # i
      BY <1>3, <2>1
    <2>3. \A k \in 1..(i - 1) : a[k] = b[k]
      BY <1>3, <2>1
    <2>4. t[i - 1][i - 1] = 0
      BY <1>1, <1>2, <2>2, <2>3, SameBegin
    <2>5. Swapped(a, b, i + 1, i + 1)
      <3>1. b[i] = a[i + 1] /\ b[i + 1] = a[i]
        BY <2>1, <2>2
      <3> QED
        BY <2>2, <3>1 DEF Swapped
    <2>6. t[i + 1][i + 1] <= t[(i + 1) - 2][(i + 1) - 2] + 1
      BY <1>1, <1>2, <2>2, <2>5, CellsAre
    <2>7. t[i + 1][i + 1] <= 1
      BY <2>2, <2>4, <2>6
    <2>8. ASSUME NEW k \in 1..(Len(a) - (i + 1)) PROVE a[(i + 1) + k] = b[(i + 1) + k]
      <3>1. (i + 1) + k \in 1..Len(b) /\ (i + 1) + k # i /\ (i + 1) + k # i + 1
        BY <1>3, <2>1
      <3> QED
        BY <2>1, <3>1
    <2>9. Len(a) - (i + 1) = Len(b) - (i + 1)
      BY <2>1
    <2>10. SameFrom(a, b, i + 1, i + 1)
      BY <2>8, <2>9 DEF SameFrom
    <2>11. t[Len(a)][Len(b)] <= 1
      BY <1>5, <2>2, <2>7, <2>10
    <2> QED
      BY <1>3, <2>1, <2>11
  <1>10. t[Len(a)][Len(b)] <= 1 /\ Len(a) - Len(b) \in {-1, 0, 1}
    BY <1>1, <1>6, <1>7, <1>8, <1>9, TypoIs
  <1> QED
    BY <1>3, <1>4, <1>10

\* A distance of at most two is as many typos.
LEMMA NearIsTypos ==
  ASSUME NEW a \in Seq(Char), NEW b \in Seq(Char)
  PROVE  TyposApart(Distance(a, b), a, b) /\ Distance(a, b) \in Nat
  <1>1. PICK t : IsTable(t, a, b)
    BY DistanceIs
  <1>2. Distance(a, b) = t[Len(a)][Len(b)] /\ Len(a) \in 0..Len(a) /\ Len(b) \in 0..Len(b)
    BY <1>1 DEF IsTable
  <1>3. TyposApart(t[Len(a)][Len(b)], Upto(a, Len(a)), Upto(b, Len(b)))
    BY <1>1, <1>2, TableIsRight
  <1>4. Upto(a, Len(a)) = a /\ Upto(b, Len(b)) = b
    BY UptoNext
  <1>5. t[Len(a)][Len(b)] \in Nat
    BY <1>1, <1>2, CellsAre
  <1> QED
    BY <1>2, <1>3, <1>4, <1>5

\* Names are lists of characters.
LEMMA NamesAreNames == TyposSpec => [](name \in Seq(Char) /\ target \in Seq(Char))
  <1> DEFINE Inv == name \in Seq(Char) /\ target \in Seq(Char)
  <1>1. TyposInit => Inv
    BY DEF TyposInit
  <1>2. Inv /\ [TyposNext]_typosVars => Inv'
    <2> SUFFICES ASSUME name \in Seq(Char), target \in Seq(Char), [TyposNext]_typosVars PROVE Inv'
      OBVIOUS
    <2>1. ASSUME NEW x \in Char, name' = Append(name, x), target' = target PROVE Inv'
      BY <2>1
    <2>2. ASSUME NEW x \in Char, target' = Append(target, x), name' = name PROVE Inv'
      BY <2>2
    <2>3. CASE UNCHANGED typosVars
      BY <2>3 DEF typosVars
    <2> QED
      BY <2>1, <2>2, <2>3 DEF TyposNext
  <1> QED
    BY <1>1, <1>2, PTL DEF TyposSpec

\* What is nearly equal is one typo away, or two of a long name; one typo is
\* nearly equal, when neither name is short.
LEMMA NearlyEqualIs ==
  ASSUME NEW a \in Seq(Char), NEW b \in Seq(Char)
  PROVE  /\ a # b /\ NearlyEqual(a, b) =>
              /\ Len(a) >= ShortName /\ Len(b) >= ShortName
              /\ b \in OneTypo(a) \/ (Len(a) >= LongName /\ \E z \in OneTypo(a) : b \in OneTypo(z))
         /\ b \in OneTypo(a) /\ Len(a) >= ShortName /\ Len(b) >= ShortName => NearlyEqual(a, b)
  <1> DEFINE d == Distance(a, b)
             limit == IF Len(a) >= LongName THEN 2 ELSE 1
  <1>1. TyposApart(d, a, b) /\ d \in Nat
    BY NearIsTypos
  <1>2. NearlyEqual(a, b) <=> /\ Len(a) >= ShortName /\ Len(b) >= ShortName
                              /\ Len(a) - Len(b) \in -limit..limit
                              /\ d <= limit
    BY DEF NearlyEqual
  <1>3. limit \in {1, 2} /\ (limit = 2 => Len(a) >= LongName)
    OBVIOUS
  <1> HIDE DEF d, limit
  <1>4. ASSUME a # b, d <= limit
        PROVE  b \in OneTypo(a) \/ (Len(a) >= LongName /\ \E z \in OneTypo(a) : b \in OneTypo(z))
    <2>1. d = 1 \/ (d = 2 /\ limit = 2)
      <3>1. d # 0
        BY <1>1, <1>4 DEF TyposApart
      <3> QED
        BY <1>1, <1>3, <1>4, <3>1
    <2> QED
      BY <1>1, <1>3, <2>1 DEF TyposApart
  <1>5. ASSUME b \in OneTypo(a) PROVE Len(a) - Len(b) \in -limit..limit /\ d <= limit
    <2>1. d <= 1 /\ Len(a) - Len(b) \in -1..1
      BY <1>5, TypoIsNear DEF d
    <2>2. Len(a) \in Nat /\ Len(b) \in Nat
      OBVIOUS
    <2> QED
      BY <1>1, <1>3, <2>1, <2>2
  <1> QED
    BY <1>2, <1>4, <1>5

\* A new name that one typo makes of another one is flagged, and what is
\* flagged is one typo away, or two when the name is long; module Typos says
\* it of every two names that are as long as the bound, and it is so of all.
THEOREM TyposAreFlagged == TyposSpec => []TyposAreFound
  <1>1. ASSUME name \in Seq(Char), target \in Seq(Char) PROVE TyposAreFound
    <2> DEFINE short == Len(name) < ShortName \/ Len(target) < ShortName
               one == target \in OneTypo(name)
               two == \E n \in OneTypo(name) : target \in OneTypo(n)
               flag == Finding(name, target, TRUE)
    <2>1. Len(name) \in Nat /\ Len(target) \in Nat /\ ShortName \in Nat /\ LongName \in Nat
      BY <1>1, TyposConstants DEF TyposConstants
    <2>2. one <=> name \in OneTypo(target)
      BY <1>1, TypoUndone
    <2>3. flag = "typosquatting" <=> name # target /\ NearlyEqual(name, target)
      BY DEF Finding
    <2>4. short <=> ~(Len(name) >= ShortName /\ Len(target) >= ShortName)
      BY <2>1
    <2>5. name = target => flag = "none" /\ Finding(name, target, FALSE) = "impersonation"
      BY DEF Finding
    <2> HIDE DEF flag, short
    <2>6. name # target /\ one /\ ~short => flag = "typosquatting"
      BY <1>1, <2>3, <2>4, NearlyEqualIs
    <2>7. flag = "typosquatting" => ~short /\ (one \/ (Len(name) >= LongName /\ two))
      BY <1>1, <2>3, <2>4, NearlyEqualIs
    <2> QED
      BY <2>2, <2>5, <2>6, <2>7 DEF TyposAreFound, flag, short
  <1> QED
    BY <1>1, NamesAreNames, PTL

-----------------------------------------------------------------------------
(* A go.mod file.                                                          *)

\* What is read: the fields of lines, and what comments come to.
Word == STRING \cup Comment
Required == [line : Nat, indirect : BOOLEAN]
Withdrawn == [line : Nat, why : Seq(Word)]

\* What may be read so far.
Reading == [block : Word, above : Seq(Word), failed : BOOLEAN, module : Word, deprecated : BOOLEAN,
            require : Seq(Required), retract : Seq(Withdrawn)]

\* What a line leaves as it is.
SameRead(t, s) == t.module = s.module /\ t.deprecated = s.deprecated /\ t.require = s.require /\ t.retract = s.retract

\* What a directive with this verb leaves read.
ReadOf(t, s, verb, l, n) ==
  /\ verb # "module" => t.module = s.module /\ t.deprecated = s.deprecated
  /\ verb = "module" => t.deprecated = Deprecation(Append(s.above, l.comment))
  /\ verb # "require" => t.require = s.require
  /\ verb = "require" => t.require = Append(s.require, [line |-> n, indirect |-> l.comment = "indirect"])
  /\ verb # "retract" => t.retract = s.retract
  /\ verb = "retract" => t.retract = Append(s.retract, [line |-> n, why |-> Rationale(s.above, l)])

\* The verb of a line that is one.
Verb(s, l) == IF s.block # NoBlock THEN s.block ELSE l.fields[1]

\* A line may be.
LEMMA LineIs ==
  ASSUME NEW l \in Line
  PROVE  /\ l.fields \in Seq(Word) /\ l.comment \in Word /\ l.comment \in Comment
         /\ \A i \in 1..Len(l.fields) : l.fields[i] # NoBlock /\ l.fields[i] \in Word
  <1>1. l.fields \in Seq(STRING \ {NoBlock}) /\ l.comment \in Comment
    BY GoModConstants DEF GoModConstants, NoBlock
  <1>2. ASSUME NEW T, NEW e, NEW q \in Seq(T \ {e}) PROVE q \in Seq(T) /\ \A i \in 1..Len(q) : q[i] # e /\ q[i] \in T
    <2>1. q \in Seq(T)
      BY ListOfMore
    <2> QED
      BY <2>1
  <1>4. l.fields \in Seq(Word) /\ \A i \in 1..Len(l.fields) : l.fields[i] # NoBlock /\ l.fields[i] \in Word
    <2>1. STRING \subseteq Word
      BY DEF Word
    <2>2. l.fields \in Seq(STRING) /\ \A i \in 1..Len(l.fields) : l.fields[i] # NoBlock /\ l.fields[i] \in STRING
      BY <1>1, <1>2
    <2> QED
      BY <2>1, <2>2, ListOfMore
  <1>3. l.comment \in Word
    BY <1>1 DEF Word
  <1> QED
    BY <1>1, <1>3, <1>4

\* What a directive says, when it does not fail.
LEMMA DirectiveIs ==
  ASSUME NEW s \in Reading, NEW l \in Line, NEW n \in Nat, NEW verb \in Word, NEW args \in Seq(Word)
  PROVE  LET t == Directive(s, verb, args, l, n) IN
         /\ t \in Reading /\ t.block = s.block /\ t.above = s.above
         /\ ~t.failed => ~s.failed /\ ReadOf(t, s, verb, l, n)
  <1> DEFINE t == Directive(s, verb, args, l, n)
  <1>1. l.comment \in Word /\ s.above \in Seq(Word) /\ s.require \in Seq(Required) /\ s.retract \in Seq(Withdrawn)
    BY LineIs DEF Reading
  <1>2. Rationale(s.above, l) \in Seq(Word)
    <2>1. <<l.comment>> \in Seq(Word)
      BY <1>1
    <2> QED
      BY <1>1, <2>1 DEF Rationale
  <1>3. Deprecation(Append(s.above, l.comment)) \in BOOLEAN
    BY DEF Deprecation
  <1>4. CASE verb = "module" /\ Len(args) = 1
    <2>1. t = [s EXCEPT !.module = args[1], !.deprecated = Deprecation(Append(s.above, l.comment))]
      BY <1>4 DEF Directive
    <2>2. args[1] \in Word
      BY <1>4, SMTT(30)
    <2> HIDE DEF t
    <2> QED
      BY <1>3, <1>4, <2>1, <2>2 DEF Reading, ReadOf, t
  <1>5. CASE verb = "require" /\ Len(args) = 2
    <2> DEFINE r == [line |-> n, indirect |-> l.comment = "indirect"]
    <2>1. t = [s EXCEPT !.require = Append(s.require, r)]
      BY <1>5 DEF Directive
    <2>2. r \in Required
      BY DEF Required
    <2> HIDE DEF r
    <2>3. Append(s.require, r) \in Seq(Required)
      BY <1>1, <2>2
    <2> QED
      BY <1>5, <2>1, <2>3 DEF Reading, ReadOf, r
  <1>6. CASE verb = "retract"
    <2> DEFINE r == [line |-> n, why |-> Rationale(s.above, l)]
    <2>1. t = [s EXCEPT !.retract = Append(s.retract, r)]
      BY <1>6 DEF Directive
    <2>2. r \in Withdrawn
      BY <1>2 DEF Withdrawn
    <2> HIDE DEF r
    <2>3. Append(s.retract, r) \in Seq(Withdrawn)
      BY <1>1, <2>2
    <2> QED
      BY <1>6, <2>1, <2>3 DEF Reading, ReadOf, r
  <1>7. CASE verb \notin {"module", "go", "require", "retract"} \/ (verb = "go" /\ Len(args) = 1)
    <2>1. t = s
      BY <1>7 DEF Directive
    <2> QED
      BY <1>7, <2>1 DEF Reading, ReadOf
  <1>8. CASE \/ verb = "module" /\ Len(args) # 1
             \/ verb = "require" /\ Len(args) # 2
             \/ verb = "go" /\ Len(args) # 1
    <2>1. t = [s EXCEPT !.failed = TRUE]
      BY <1>8 DEF Directive
    <2> QED
      BY <2>1 DEF Reading
  <1> QED
    BY <1>4, <1>5, <1>6, <1>7, <1>8

\* Whether a line is a directive.
Directs(s, l) == l.fields # <<>> /\ ~Closes(s, l) /\ ~Opens(s, l)

\* What a line is read as, when it does not fail.
LineRead(t, s, l, n) ==
  /\ t \in Reading /\ t.above = Above(s, l)
  /\ ~t.failed => /\ ~s.failed
                  /\ ~Directs(s, l) => SameRead(t, s)
                  /\ Directs(s, l) => ReadOf(t, s, Verb(s, l), l, n)
                  /\ l.fields # <<>> /\ Closes(s, l) => t.block = NoBlock
                  /\ l.fields # <<>> /\ Opens(s, l) => t.block = l.fields[1]
                  /\ l.fields = <<>> \/ Directs(s, l) => t.block = s.block

\* A line is read as what it is.
LEMMA ReadLineIs ==
  ASSUME NEW s \in Reading, NEW l \in Line, NEW n \in Nat
  PROVE  LineRead(ReadLine(s, l, n), s, l, n)
  <1> DEFINE read == CASE l.fields = <<>> \/ s.failed -> s
                       [] l.fields # <<>> /\ ~s.failed /\ Closes(s, l) -> [s EXCEPT !.block = NoBlock]
                       [] l.fields # <<>> /\ ~s.failed /\ Opens(s, l) -> [s EXCEPT !.block = l.fields[1]]
                       [] OTHER -> IF s.block # NoBlock THEN Directive(s, s.block, l.fields, l, n)
                                   ELSE Directive(s, Head(l.fields), Tail(l.fields), l, n)
             t == ReadLine(s, l, n)
  <1>1. t = [read EXCEPT !.above = Above(s, l)]
    BY DEF ReadLine
  <1>2. Above(s, l) \in Seq(Word)
    <2>1. l.comment \in Word /\ s.above \in Seq(Word)
      BY LineIs DEF Reading
    <2> QED
      BY <2>1 DEF Above
  <1>3. /\ l.fields \in Seq(Word) /\ s.block \in Word /\ s.failed \in BOOLEAN
        /\ l.fields # <<>> => l.fields[1] \in Word /\ Head(l.fields) = l.fields[1] /\ Tail(l.fields) \in Seq(Word)
    <2>1. l.fields \in Seq(Word) /\ s.block \in Word /\ s.failed \in BOOLEAN
      BY LineIs DEF Reading
    <2> QED
      BY <2>1
  <1>a. ~(Closes(s, l) /\ Opens(s, l))
    BY DEF Closes, Opens
  <1>b. NoBlock \in Word
    BY DEF NoBlock, Word, Comment
  <1>4. ASSUME read \in Reading
        PROVE  /\ t \in Reading /\ t.above = Above(s, l) /\ t.failed = read.failed /\ t.block = read.block
               /\ SameRead(t, read)
    <2> HIDE DEF read, t
    <2> QED
      BY <1>1, <1>2, <1>4 DEF Reading, SameRead
  <1>5. CASE l.fields = <<>> \/ s.failed
    <2>1. read = s
      BY <1>5
    <2> HIDE DEF read, t
    <2> QED
      BY <1>3, <1>4, <1>5, <2>1 DEF LineRead, SameRead, Directs, t
  <1>6. CASE l.fields # <<>> /\ ~s.failed /\ Closes(s, l)
    <2>1. read = [s EXCEPT !.block = NoBlock]
      BY <1>a, <1>6
    <2> HIDE DEF read, t
    <2>2. read \in Reading /\ read.block = NoBlock /\ SameRead(read, s)
      BY <1>b, <2>1 DEF Reading, SameRead
    <2> QED
      BY <1>a, <1>4, <1>6, <2>2 DEF LineRead, SameRead, Directs, t
  <1>7. CASE l.fields # <<>> /\ ~s.failed /\ Opens(s, l)
    <2>1. read = [s EXCEPT !.block = l.fields[1]]
      BY <1>a, <1>7
    <2> HIDE DEF read, t
    <2>2. read \in Reading /\ read.block = l.fields[1] /\ SameRead(read, s)
      BY <1>3, <1>7, <2>1 DEF Reading, SameRead
    <2> QED
      BY <1>a, <1>4, <1>7, <2>2 DEF LineRead, SameRead, Directs, t
  <1>8. CASE Directs(s, l) /\ ~s.failed
    <2> DEFINE args == IF s.block # NoBlock THEN l.fields ELSE Tail(l.fields)
    <2>1. read = Directive(s, Verb(s, l), args, l, n)
      BY <1>3, <1>8 DEF Directs, Verb
    <2>2. Verb(s, l) \in Word /\ args \in Seq(Word)
      BY <1>3, <1>8 DEF Directs, Verb
    <2> HIDE DEF read, t, args
    <2>3. /\ read \in Reading /\ read.block = s.block
          /\ ~read.failed => ~s.failed /\ ReadOf(read, s, Verb(s, l), l, n)
      BY <2>1, <2>2, DirectiveIs
    <2>4. ASSUME ReadOf(read, s, Verb(s, l), l, n), SameRead(t, read) PROVE ReadOf(t, s, Verb(s, l), l, n)
      BY <2>4 DEF ReadOf, SameRead
    <2> QED
      BY <1>4, <1>8, <2>3, <2>4 DEF LineRead, Directs, t
  <1> QED
    BY <1>3, <1>5, <1>6, <1>7, <1>8 DEF Directs

-----------------------------------------------------------------------------
(* Line after line.                                                        *)

ReadStep(n, it, s) ==
  IF s = {} THEN Start
  ELSE ReadLine(it[s \ {Max(s)}], lines[[i \in 1..n |-> i][Max(s)]], [i \in 1..n |-> i][Max(s)])

ReadIter(n) == CHOOSE it : it = [s \in SUBSET DOMAIN [i \in 1..n |-> i] |-> ReadStep(n, it, s)]

\* What is read of the first lines is the last of that iteration.
LEMMA ReadIsIter ==
  ASSUME NEW n
  PROVE  ReadTo(n) = ReadIter(n)[DOMAIN [i \in 1..n |-> i]]
  BY DEF ReadTo, FoldLeft, MapThenFoldSet, ReadIter, ReadStep

\* What is read after each line.
Reads(r, n) ==
  /\ r \in [0..n -> Reading] /\ r[0] = Start /\ ReadTo(n) = r[n]
  /\ \A i \in 1..n : r[i] = ReadLine(r[i - 1], lines[i], i)

\* Before any line nothing was read.
LEMMA StartIs == Start \in Reading
  <1>1. "" \in Word /\ NoBlock \in Word
    BY DEF Word, Comment, NoBlock
  <1>2. <<>> \in Seq(Word) /\ <<>> \in Seq(Required) /\ <<>> \in Seq(Withdrawn)
    OBVIOUS
  <1> QED
    BY <1>1, <1>2 DEF Start, Reading

\* A file is read one line after the other.
LEMMA ReadIs ==
  ASSUME NEW n \in Nat, \A i \in 1..n : lines[i] \in Line
  PROVE  \E r : Reads(r, n)
  <1> DEFINE put(s, i) == ReadLine(s, lines[i], i)
  <1> PICK A : A = Reading
    OBVIOUS
  <1> PICK N : N = 1..n
    OBVIOUS
  <1> PICK seq : seq = [i \in 1..n |-> i]
    OBVIOUS
  <1> PICK h : h = [si \in A \X N |-> put(si[1], si[2])]
    OBVIOUS
  <1> PICK base : base = Start
    OBVIOUS
  <1> PICK D : D = SUBSET DOMAIN seq
    OBVIOUS
  <1>2. \A s \in A, i \in N : put(s, i) \in A /\ h[<<s, i>>] = put(s, i)
    <2> TAKE s \in A, i \in N
    <2>1. put(s, i) \in A
      BY ReadLineIs DEF LineRead
    <2> QED
      BY <2>1
  <1>3. h \in [A \X N -> A]
    BY <1>2, ZenonT(30)
  <1>4. base \in A
    BY StartIs
  <1>5. seq \in Seq(N) /\ DOMAIN seq = 1..Len(seq) /\ Len(seq) = n /\ \A i \in N : seq[i] = i
    OBVIOUS
  <1> HIDE DEF put
  <1>6. PICK g : g \in [D -> A] /\ FoldedBy(h, base, seq, g)
    <2>1. seq \in Seq(N)
      BY <1>5
    <2>2. \E it : it \in [SUBSET DOMAIN seq -> A] /\ FoldedBy(h, base, seq, it)
      BY <1>3, <1>4, <2>1, FoldExists
    <2> QED
      BY <2>2
  <1>7. \A s \in D : s # {} => Max(s) \in N /\ s \ {Max(s)} \in D
    BY <1>5, LastPlace
  <1>8. \A it : \A s \in D : s # {} => ReadStep(n, it, s) = put(it[s \ {Max(s)}], seq[Max(s)])
    BY DEF ReadStep, put
  <1>9. \A it : ReadStep(n, it, {}) = base
    BY DEF ReadStep
  <1>10. \A s \in D : g[s] = ReadStep(n, g, s)
    <2> TAKE s \in D
    <2>1. g[s] = FoldStep(h, base, seq, g, s)
      BY <1>6 DEF FoldedBy
    <2>2. CASE s = {}
      BY <1>9, <2>1, <2>2 DEF FoldStep
    <2>3. CASE s # {}
      <3>1. g[s \ {Max(s)}] \in A /\ seq[Max(s)] \in N
        BY <1>5, <1>6, <1>7, <2>3
      <3>2. g[s] = h[<<g[s \ {Max(s)}], seq[Max(s)]>>]
        BY <2>1, <2>3 DEF FoldStep
      <3>3. h[<<g[s \ {Max(s)}], seq[Max(s)]>>] = put(g[s \ {Max(s)}], seq[Max(s)])
        BY <1>2, <3>1
      <3>4. ReadStep(n, g, s) = put(g[s \ {Max(s)}], seq[Max(s)])
        BY <1>8, <2>3, Zenon
      <3> QED
        BY <3>2, <3>3, <3>4
    <2> QED
      BY <2>2, <2>3
  <1>11. g = [s \in D |-> ReadStep(n, g, s)]
    BY <1>6, <1>10
  <1> PICK it : it = ReadIter(n)
    OBVIOUS
  <1>12. it = [s \in D |-> ReadStep(n, it, s)]
    BY <1>11 DEF ReadIter
  <1>13. FoldsIn(it, A, h, base, seq)
    <2>1. ASSUME NEW s \in D, s # {}, it[s \ {Max(s)}] \in A
          PROVE  it[s] = h[<<it[s \ {Max(s)}], seq[Max(s)]>>]
      <3>1. it[s] = put(it[s \ {Max(s)}], seq[Max(s)])
        <4>1. it[s] = ReadStep(n, it, s)
          BY <1>12, <2>1, Zenon
        <4> QED
          BY <1>8, <2>1, <4>1, Zenon
      <3>2. seq[Max(s)] \in N
        BY <1>5, <1>7, <2>1
      <3> QED
        BY <1>2, <2>1, <3>1, <3>2
    <2>2. ASSUME NEW s \in D, s = {} PROVE it[s] = base
      BY <1>9, <1>12, <2>2
    <2> QED
      BY <2>1, <2>2 DEF FoldsIn
  <1>14. FoldsTo(A, h, base, seq, it[DOMAIN seq])
    BY <1>3, <1>4, <1>5, <1>13, FoldIs
  <1>15. PICK f \in [0..Len(seq) -> A] : Folding(f, h, base, seq) /\ f[Len(seq)] = it[DOMAIN seq]
    BY <1>14 DEF FoldsTo
  <1>16. ReadTo(n) = f[n]
    BY <1>5, <1>15, ReadIsIter
  <1>17. ASSUME NEW i \in 1..n PROVE f[i] = put(f[i - 1], i)
    <2>1. i - 1 \in 0..Len(seq) /\ i \in N /\ i \in 1..Len(seq)
      BY <1>5
    <2>2. f[i] = h[<<f[i - 1], seq[i]>>] /\ f[i - 1] \in A /\ seq[i] = i
      BY <1>5, <1>15, <2>1 DEF Folding
    <2> QED
      BY <1>2, <2>1, <2>2
  <1>18. f[0] = base
    BY <1>15 DEF Folding
  <1>19. f \in [0..n -> Reading]
    BY <1>5, <1>15
  <1> QED
    BY <1>16, <1>17, <1>18, <1>19 DEF Reads, put

\* Which line opened the block that a line is in.
OpenStep(i, it, s) ==
  IF s = {} THEN 0 ELSE OpenAfter(it[s \ {Max(s)}], [j \in 1..(i - 1) |-> j][Max(s)])

OpenIter(i) == CHOOSE it : it = [s \in SUBSET DOMAIN [j \in 1..(i - 1) |-> j] |-> OpenStep(i, it, s)]

\* The block of a line is the last of that iteration.
LEMMA OpenedIsIter ==
  ASSUME NEW i
  PROVE  OpenedBy(i) = OpenIter(i)[DOMAIN [j \in 1..(i - 1) |-> j]]
  BY DEF OpenedBy, FoldLeft, MapThenFoldSet, OpenIter, OpenStep

\* From line to line.
OpensFrom(o, n) == o \in [0..n -> Nat] /\ o[0] = 0 /\ \A j \in 1..n : o[j] = OpenAfter(o[j - 1], j)

\* Every line is in a block, or in none, one line after the other.
LEMMA OpenedIs ==
  ASSUME NEW n \in Nat
  PROVE  \E o : OpensFrom(o, n) /\ OpenedBy(n + 1) = o[n]
  <1> DEFINE put(s, i) == OpenAfter(s, i)
             m == n + 1
  <1> PICK A : A = Nat
    OBVIOUS
  <1> PICK N : N = 1..n
    OBVIOUS
  <1> PICK seq : seq = [j \in 1..(m - 1) |-> j]
    OBVIOUS
  <1> PICK h : h = [si \in A \X N |-> put(si[1], si[2])]
    OBVIOUS
  <1> PICK base : base = 0
    OBVIOUS
  <1> PICK D : D = SUBSET DOMAIN seq
    OBVIOUS
  <1>2. \A s \in A, i \in N : put(s, i) \in A /\ h[<<s, i>>] = put(s, i)
    <2> TAKE s \in A, i \in N
    <2>1. put(s, i) \in A
      BY DEF OpenAfter
    <2> QED
      BY <2>1
  <1>3. h \in [A \X N -> A]
    BY <1>2, ZenonT(30)
  <1>4. base \in A
    OBVIOUS
  <1>a. m - 1 = n
    OBVIOUS
  <1>5. seq \in Seq(N) /\ DOMAIN seq = 1..Len(seq) /\ Len(seq) = n /\ \A i \in N : seq[i] = i
    BY <1>a
  <1> HIDE DEF put, m
  <1>6. PICK g : g \in [D -> A] /\ FoldedBy(h, base, seq, g)
    <2>1. seq \in Seq(N)
      BY <1>5
    <2>2. \E it : it \in [SUBSET DOMAIN seq -> A] /\ FoldedBy(h, base, seq, it)
      BY <1>3, <1>4, <2>1, FoldExists
    <2> QED
      BY <2>2
  <1>7. \A s \in D : s # {} => Max(s) \in N /\ s \ {Max(s)} \in D
    BY <1>5, LastPlace
  <1>8. \A it : \A s \in D : s # {} => OpenStep(m, it, s) = put(it[s \ {Max(s)}], seq[Max(s)])
    BY DEF OpenStep, put
  <1>9. \A it : OpenStep(m, it, {}) = base
    BY DEF OpenStep
  <1>10. \A s \in D : g[s] = OpenStep(m, g, s)
    <2> TAKE s \in D
    <2>1. g[s] = FoldStep(h, base, seq, g, s)
      BY <1>6 DEF FoldedBy
    <2>2. CASE s = {}
      BY <1>9, <2>1, <2>2 DEF FoldStep
    <2>3. CASE s # {}
      <3>1. g[s \ {Max(s)}] \in A /\ seq[Max(s)] \in N
        BY <1>5, <1>6, <1>7, <2>3
      <3>2. g[s] = h[<<g[s \ {Max(s)}], seq[Max(s)]>>]
        BY <2>1, <2>3 DEF FoldStep
      <3>3. h[<<g[s \ {Max(s)}], seq[Max(s)]>>] = put(g[s \ {Max(s)}], seq[Max(s)])
        BY <1>2, <3>1
      <3>4. OpenStep(m, g, s) = put(g[s \ {Max(s)}], seq[Max(s)])
        BY <1>8, <2>3, Zenon
      <3> QED
        BY <3>2, <3>3, <3>4
    <2> QED
      BY <2>2, <2>3
  <1>11. g = [s \in D |-> OpenStep(m, g, s)]
    BY <1>6, <1>10
  <1> PICK it : it = OpenIter(m)
    OBVIOUS
  <1>12. it = [s \in D |-> OpenStep(m, it, s)]
    BY <1>11 DEF OpenIter
  <1>13. FoldsIn(it, A, h, base, seq)
    <2>1. ASSUME NEW s \in D, s # {}, it[s \ {Max(s)}] \in A
          PROVE  it[s] = h[<<it[s \ {Max(s)}], seq[Max(s)]>>]
      <3>1. it[s] = put(it[s \ {Max(s)}], seq[Max(s)])
        <4>1. it[s] = OpenStep(m, it, s)
          BY <1>12, <2>1, Zenon
        <4> QED
          BY <1>8, <2>1, <4>1, Zenon
      <3>2. seq[Max(s)] \in N
        BY <1>5, <1>7, <2>1
      <3> QED
        BY <1>2, <2>1, <3>1, <3>2
    <2>2. ASSUME NEW s \in D, s = {} PROVE it[s] = base
      BY <1>9, <1>12, <2>2
    <2> QED
      BY <2>1, <2>2 DEF FoldsIn
  <1>14. FoldsTo(A, h, base, seq, it[DOMAIN seq])
    BY <1>3, <1>4, <1>5, <1>13, FoldIs
  <1>15. PICK f \in [0..Len(seq) -> A] : Folding(f, h, base, seq) /\ f[Len(seq)] = it[DOMAIN seq]
    BY <1>14 DEF FoldsTo
  <1>16. OpenedBy(m) = f[n]
    BY <1>5, <1>15, OpenedIsIter
  <1>17. ASSUME NEW i \in 1..n PROVE f[i] = put(f[i - 1], i)
    <2>1. i - 1 \in 0..Len(seq) /\ i \in N /\ i \in 1..Len(seq)
      <3>1. i - 1 \in 0..n /\ i \in 1..n
        OBVIOUS
      <3>2. Len(seq) = n
        BY <1>5
      <3> QED
        BY <3>1, <3>2, Zenon
    <2>2. f[i] = h[<<f[i - 1], seq[i]>>] /\ f[i - 1] \in A /\ seq[i] = i
      BY <1>5, <1>15, <2>1 DEF Folding
    <2> QED
      BY <1>2, <2>1, <2>2
  <1>18. f[0] = base
    BY <1>15 DEF Folding
  <1>19. f \in [0..n -> Nat]
    BY <1>5, <1>15
  <1> QED
    BY <1>16, <1>17, <1>18, <1>19 DEF OpensFrom, put, m

\* It does not matter how far one goes on.
LEMMA OpensFromSame ==
  ASSUME NEW n \in Nat, NEW m \in Nat, m <= n, NEW o, OpensFrom(o, n), NEW q, OpensFrom(q, m)
  PROVE  o[m] = q[m]
  <1> DEFINE Bad == {k \in 0..m : o[k] # q[k]}
  <1>1. SUFFICES ASSUME Bad # {} PROVE FALSE
    OBVIOUS
  <1>2. PICK k \in Bad : \A l \in Bad : k <= l
    <2>1. Bad \in SUBSET Nat
      OBVIOUS
    <2> HIDE DEF Bad
    <2> QED
      BY <1>1, <2>1, LeastNat
  <1>3. k \in 0..m /\ o[k] # q[k]
    OBVIOUS
  <1>4. k # 0
    BY <1>3 DEF OpensFrom
  <1>5. k - 1 \in 0..m /\ k - 1 \notin Bad
    <2>1. k - 1 \in 0..m /\ ~(k <= k - 1)
      BY <1>3, <1>4
    <2> HIDE DEF Bad
    <2> QED
      BY <1>2, <2>1
  <1>6. o[k - 1] = q[k - 1]
    BY <1>5
  <1> HIDE DEF Bad
  <1>7. k \in 1..m /\ k \in 1..n
    BY <1>3, <1>4
  <1>8. o[k] = OpenAfter(o[k - 1], k) /\ q[k] = OpenAfter(q[k - 1], k)
    BY <1>7 DEF OpensFrom
  <1> QED
    BY <1>3, <1>6, <1>8

\* From line to line, a block is opened, goes on, or is closed.
LEMMA OpenedNext ==
  ASSUME NEW i \in Nat, i # 0
  PROVE  OpenedBy(1) = 0 /\ OpenedBy(i) \in Nat /\ OpenedBy(i + 1) = OpenAfter(OpenedBy(i), i)
  <1>1. PICK o : OpensFrom(o, 0) /\ OpenedBy(0 + 1) = o[0]
    BY OpenedIs
  <1>2. PICK p : OpensFrom(p, i - 1) /\ OpenedBy((i - 1) + 1) = p[i - 1]
    BY OpenedIs
  <1>3. PICK q : OpensFrom(q, i) /\ OpenedBy(i + 1) = q[i]
    BY OpenedIs
  <1>4. i - 1 \in Nat /\ i - 1 <= i /\ (i - 1) + 1 = i /\ 0 + 1 = 1 /\ i \in 1..i /\ i - 1 \in 0..(i - 1)
    OBVIOUS
  <1>5. q[i - 1] = p[i - 1]
    BY <1>2, <1>3, <1>4, OpensFromSame
  <1>6. q[i] = OpenAfter(q[i - 1], i) /\ p[i - 1] \in Nat /\ o[0] = 0
    BY <1>1, <1>2, <1>3, <1>4 DEF OpensFrom
  <1> QED
    BY <1>1, <1>2, <1>3, <1>4, <1>5, <1>6

-----------------------------------------------------------------------------
(* The comments directly above.                                            *)

\* They are the lines between one and the next.
CommentsAbove(i) ==
  /\ Cardinality(DirectlyAbove(i)) \in 0..(i - 1)
  /\ IsFiniteSet(DirectlyAbove(i))
  /\ DirectlyAbove(i) = (i - Cardinality(DirectlyAbove(i)))..(i - 1)

\* One line more.
LEMMA AboveNext ==
  ASSUME NEW i \in Nat, i # 0
  PROVE  DirectlyAbove(i + 1) = IF OnlyComment(lines[i]) THEN DirectlyAbove(i) \cup {i} ELSE {}
  <1>1. ASSUME NEW j \in 1..i
        PROVE  (\A k \in j..i : OnlyComment(lines[k])) <=>
                 OnlyComment(lines[i]) /\ (j = i \/ (j \in 1..(i - 1) /\ \A k \in j..(i - 1) : OnlyComment(lines[k])))
    <2>1. i \in j..i /\ \A k \in j..i : k = i \/ (k \in j..(i - 1) /\ j \in 1..(i - 1))
      OBVIOUS
    <2>2. \A k \in j..(i - 1) : k \in j..i
      OBVIOUS
    <2>3. j = i \/ j \in 1..(i - 1)
      OBVIOUS
    <2> QED
      BY <2>1, <2>2, <2>3
  <1>2. (i + 1) - 1 = i /\ i \in 1..i /\ \A j \in 1..(i - 1) : j \in 1..i
    OBVIOUS
  <1>3. DirectlyAbove(i + 1) = {j \in 1..i : \A k \in j..i : OnlyComment(lines[k])}
    BY <1>2 DEF DirectlyAbove
  <1>4. DirectlyAbove(i) = {j \in 1..(i - 1) : \A k \in j..(i - 1) : OnlyComment(lines[k])}
    BY DEF DirectlyAbove
  <1>5. CASE OnlyComment(lines[i])
    <2>1. \A j : j \in DirectlyAbove(i + 1) <=> j = i \/ j \in DirectlyAbove(i)
      BY <1>1, <1>2, <1>3, <1>4, <1>5
    <2> QED
      BY <1>5, <2>1
  <1>6. CASE ~OnlyComment(lines[i])
    BY <1>1, <1>3, <1>6
  <1> QED
    BY <1>5, <1>6

\* The comments that were collected are those directly above, for every line.
LEMMA AboveIs == \A i \in Nat \ {0} : CommentsAbove(i)
  <1> DEFINE Bad == {i \in Nat \ {0} : ~CommentsAbove(i)}
  <1>1. SUFFICES ASSUME Bad # {} PROVE FALSE
    OBVIOUS
  <1>2. PICK i \in Bad : \A l \in Bad : i <= l
    <2>1. Bad \in SUBSET Nat
      OBVIOUS
    <2> HIDE DEF Bad
    <2> QED
      BY <1>1, <2>1, LeastNat
  <1>3. i \in Nat \ {0} /\ ~CommentsAbove(i)
    OBVIOUS
  <1>4. CASE i = 1
    <2>1. DirectlyAbove(1) = {}
      BY DEF DirectlyAbove
    <2>2. IsFiniteSet({}) /\ Cardinality({}) = 0
      BY FS_EmptySet
    <2>3. (1 - 0)..(1 - 1) = {}
      OBVIOUS
    <2>4. 0 \in 0..(1 - 1)
      OBVIOUS
    <2>5. CommentsAbove(1)
      BY <2>1, <2>2, <2>3, <2>4, Zenon DEF CommentsAbove
    <2> QED
      BY <1>3, <1>4, <2>5
  <1>5. CASE i # 1
    <2> DEFINE k == i - 1
    <2>1. k \in Nat /\ k # 0 /\ k + 1 = i /\ ~(i <= k)
      BY <1>3, <1>5
    <2>2. k \notin Bad
      <3> HIDE DEF Bad
      <3> QED
        BY <1>2, <2>1
    <2>3. CommentsAbove(k)
      BY <2>1, <2>2
    <2> HIDE DEF Bad, k
    <2> PICK d : d = DirectlyAbove(k)
      OBVIOUS
    <2> PICK c : c = Cardinality(d)
      OBVIOUS
    <2>4. c \in 0..(k - 1) /\ IsFiniteSet(d) /\ d = (k - c)..(k - 1)
      BY <2>3 DEF CommentsAbove
    <2>5. DirectlyAbove(k + 1) = IF OnlyComment(lines[k]) THEN d \cup {k} ELSE {}
      BY <2>1, AboveNext
    <2>6. CASE OnlyComment(lines[k])
      <3>1. k \notin d
        BY <2>1, <2>4
      <3>2. IsFiniteSet(d \cup {k}) /\ Cardinality(d \cup {k}) = c + 1
        BY <2>4, <3>1, FS_AddElement
      <3>3. d \cup {k} = ((k + 1) - (c + 1))..((k + 1) - 1)
        <4>1. (k + 1) - (c + 1) = k - c /\ (k + 1) - 1 = k
          BY <2>1, <2>4
        <4>2. k \in Int /\ k - c \in Int /\ k - c <= k /\ k - c <= k
          BY <2>1, <2>4
        <4>3. \A x : x \in (k - c)..k <=> x \in (k - c)..(k - 1) \/ x = k
          BY <4>2
        <4>4. \A x : x \in d \cup {k} <=> x \in (k - c)..k
          BY <2>4, <4>3, Zenon
        <4> QED
          BY <4>1, <4>4
      <3>4. c + 1 \in 0..((k + 1) - 1)
        BY <2>1, <2>4
      <3>5. CommentsAbove(k + 1)
        BY <2>5, <2>6, <3>2, <3>3, <3>4 DEF CommentsAbove
      <3> QED
        BY <1>3, <2>1, <3>5
    <2>7. CASE ~OnlyComment(lines[k])
      <3>1. IsFiniteSet({}) /\ Cardinality({}) = 0
        BY FS_EmptySet
      <3>2. {} = ((k + 1) - 0)..((k + 1) - 1) /\ 0 \in 0..((k + 1) - 1)
        BY <2>1
      <3>3. CommentsAbove(k + 1)
        BY <2>5, <2>7, <3>1, <3>2 DEF CommentsAbove
      <3> QED
        BY <1>3, <2>1, <3>3
    <2> QED
      BY <2>6, <2>7
  <1> QED
    BY <1>4, <1>5

-----------------------------------------------------------------------------
(* What is read so far is what the lines so far say.                       *)

Remarks == [j \in DOMAIN lines |-> lines[j].comment]
SaidSoFar(verb, k) == {i \in 1..k : Says(i, verb)}

\* What a retraction is for.
WhyOf(i) == IF lines[i].comment # "" THEN <<lines[i].comment>>
            ELSE SubSeq(Remarks, i - Cardinality(DirectlyAbove(i)), i - 1)

\* A requirement or a retraction as the line has it.
RequiresWell(r) == r.indirect <=> lines[r.line].comment = "indirect"
RetractsWell(r) == r.why = WhyOf(r.line)

Deprecates(i) == \E j \in DirectlyAbove(i) \cup {i} : lines[j].comment = "Deprecated:"

\* What is read after k lines, unless one failed.
SoFar(s, k) ==
  /\ OpenedBy(k + 1) \in 0..k
  /\ OpenedBy(k + 1) = 0 => s.block = NoBlock
  /\ OpenedBy(k + 1) # 0 => LET l == lines[OpenedBy(k + 1)] IN l.fields # <<>> /\ s.block = l.fields[1]
  /\ s.above = SubSeq(Remarks, (k + 1) - Cardinality(DirectlyAbove(k + 1)), k)
  /\ ReadInOrder(s.require, SaidSoFar("require", k)) /\ ReadInOrder(s.retract, SaidSoFar("retract", k))
  /\ \A r \in Range(s.require) : RequiresWell(r)
  /\ \A r \in Range(s.retract) : RetractsWell(r)
  /\ SaidSoFar("module", k) = {} => s.module = ""
  /\ SaidSoFar("module", k) # {} => (s.deprecated <=> Deprecates(Max(SaidSoFar("module", k))))

\* One read more.
LEMMA ReadMore ==
  ASSUME NEW S, \A r \in S : r.line \in Nat, NEW read \in Seq(S), NEW k \in Nat, NEW said \in SUBSET (1..k),
         ReadInOrder(read, said), NEW r \in S, r.line = k + 1
  PROVE  ReadInOrder(Append(read, r), said \cup {k + 1})
  <1> DEFINE n == Len(read)
             more == Append(read, r)
  <1>1. n \in Nat /\ DOMAIN read = 1..n /\ DOMAIN more = 1..(n + 1)
    OBVIOUS
  <1>2. (\A i \in 1..n : more[i] = read[i] /\ read[i] \in S) /\ more[n + 1] = r
    OBVIOUS
  <1>3. \A i \in 1..n : read[i].line \in said /\ read[i].line <= k /\ read[i].line \in Nat
    BY <1>1, <1>2 DEF ReadInOrder
  <1>4. said = {read[i].line : i \in 1..n}
    BY <1>1 DEF ReadInOrder
  <1> HIDE DEF n, more
  <1>5. {more[i].line : i \in DOMAIN more} = said \cup {k + 1}
    <2>1. ASSUME NEW x \in said PROVE \E i \in 1..(n + 1) : more[i].line = x
      <3>1. PICK i \in 1..n : read[i].line = x
        BY <1>4
      <3>2. i \in 1..(n + 1) /\ more[i] = read[i]
        BY <1>1, <1>2
      <3> QED
        BY <3>1, <3>2
    <2>2. n + 1 \in 1..(n + 1) /\ more[n + 1].line = k + 1
      BY <1>1, <1>2
    <2>3. ASSUME NEW i \in 1..(n + 1) PROVE more[i].line \in said \cup {k + 1}
      <3>1. i \in 1..n \/ i = n + 1
        BY <1>1
      <3> QED
        BY <1>2, <1>3, <2>2, <3>1
    <2> QED
      BY <1>1, <2>1, <2>2, <2>3
  <1>6. ASSUME NEW i \in 1..(n + 1), NEW j \in 1..(n + 1), i < j PROVE more[i].line < more[j].line
    <2>1. i \in 1..n
      BY <1>1, <1>6
    <2>2. CASE j = n + 1
      BY <1>2, <1>3, <2>1, <2>2
    <2>3. CASE j # n + 1
      <3>1. j \in 1..n
        BY <1>1, <2>3
      <3> QED
        BY <1>1, <1>2, <1>6, <2>1, <3>1 DEF ReadInOrder
    <2> QED
      BY <2>2, <2>3
  <1>7. ReadInOrder(more, said \cup {k + 1})
    BY <1>1, <1>5, <1>6 DEF ReadInOrder
  <1> QED
    BY <1>7 DEF more

\* What the next line says.
LEMMA SaidNext ==
  ASSUME NEW k \in Nat, NEW verb
  PROVE  /\ SaidSoFar(verb, k) \in SUBSET (1..k)
         /\ SaidSoFar(verb, k + 1) = IF Says(k + 1, verb) THEN SaidSoFar(verb, k) \cup {k + 1} ELSE SaidSoFar(verb, k)
  <1>1. SaidSoFar(verb, k) \in SUBSET (1..k)
    BY DEF SaidSoFar
  <1>2. \A i : i \in 1..(k + 1) <=> i \in 1..k \/ i = k + 1
    OBVIOUS
  <1>3. \A i : i \in SaidSoFar(verb, k + 1) <=> i \in SaidSoFar(verb, k) \/ (i = k + 1 /\ Says(k + 1, verb))
    BY <1>2, Zenon DEF SaidSoFar
  <1> QED
    BY <1>1, <1>3

\* A block is open, or none is.
LEMMA BlockIs ==
  ASSUME NEW s, NEW k \in Nat, SoFar(s, k), \A i \in 1..k : lines[i] \in Line
  PROVE  LET o == OpenedBy(k + 1) IN
         /\ o \in 0..k
         /\ o = 0 <=> s.block = NoBlock
         /\ o # 0 => lines[o].fields # <<>> /\ s.block = lines[o].fields[1]
  <1> DEFINE o == OpenedBy(k + 1)
  <1>1. /\ o \in 0..k
        /\ o = 0 => s.block = NoBlock
        /\ o # 0 => lines[o].fields # <<>> /\ s.block = lines[o].fields[1]
    BY DEF SoFar
  <1> HIDE DEF o
  <1>2. o # 0 => s.block # NoBlock
    <2> SUFFICES ASSUME o # 0 PROVE lines[o].fields[1] # NoBlock
      BY <1>1
    <2>1. lines[o] \in Line /\ lines[o].fields # <<>>
      BY <1>1
    <2>2. lines[o].fields \in Seq(Word) /\ \A i \in 1..Len(lines[o].fields) : lines[o].fields[i] # NoBlock
      BY <2>1, LineIs
    <2>3. 1 \in 1..Len(lines[o].fields)
      BY <2>1, <2>2
    <2> QED
      BY <2>2, <2>3
  <1> QED
    BY <1>1, <1>2 DEF o

\* The verb of the next line is what it says.
LEMMA SaysIs ==
  ASSUME NEW s, NEW k \in Nat, SoFar(s, k), lines[k + 1] \in Line, \A i \in 1..k : lines[i] \in Line
  PROVE  /\ Directs(s, lines[k + 1]) => \A verb : Says(k + 1, verb) <=> verb = Verb(s, lines[k + 1])
         /\ ~Directs(s, lines[k + 1]) => \A verb : ~Says(k + 1, verb)
  <1> DEFINE l == lines[k + 1]
             o == OpenedBy(k + 1)
  <1>1. /\ o \in 0..k
        /\ o = 0 => s.block = NoBlock
        /\ o # 0 => lines[o].fields # <<>> /\ s.block = lines[o].fields[1]
    BY BlockIs
  <1>2. o # 0 => s.block # NoBlock
    BY BlockIs
  <1>3. l.fields \in Seq(Word)
    BY LineIs
  <1>4. \A verb : Says(k + 1, verb) <=>
          /\ l.fields # <<>>
          /\ IF o = 0 THEN l.fields[1] = verb /\ ~(Len(l.fields) = 2 /\ l.fields[2] = "(")
             ELSE lines[o].fields[1] = verb /\ l.fields # <<")">>
    BY DEF Says
  <1> HIDE DEF l, o
  <1>5. CASE o = 0
    <2>1. Directs(s, l) <=> l.fields # <<>> /\ ~(Len(l.fields) = 2 /\ l.fields[2] = "(")
      BY <1>1, <1>5 DEF Directs, Closes, Opens
    <2>2. Verb(s, l) = l.fields[1]
      BY <1>1, <1>5 DEF Verb
    <2> QED
      BY <1>4, <1>5, <2>1, <2>2 DEF l
  <1>6. CASE o # 0
    <2>1. Directs(s, l) <=> l.fields # <<>> /\ l.fields # <<")">>
      BY <1>2, <1>6 DEF Directs, Closes, Opens
    <2>2. Verb(s, l) = lines[o].fields[1]
      BY <1>1, <1>2, <1>6 DEF Verb
    <2> QED
      BY <1>4, <1>6, <2>1, <2>2 DEF l
  <1> QED
    BY <1>5, <1>6

\* The block that is open after the next line.
LEMMA NextBlock ==
  ASSUME NEW s, NEW k \in Nat, SoFar(s, k), lines[k + 1] \in Line, \A i \in 1..k : lines[i] \in Line,
         NEW t, LineRead(t, s, lines[k + 1], k + 1), ~t.failed
  PROVE  LET o == OpenedBy((k + 1) + 1) IN
         /\ o \in 0..(k + 1)
         /\ o = 0 => t.block = NoBlock
         /\ o # 0 => LET l == lines[o] IN l.fields # <<>> /\ t.block = l.fields[1]
  <1> DEFINE o == OpenedBy(k + 1)
             next == OpenedBy((k + 1) + 1)
             l == lines[k + 1]
  <1>1. o \in 0..k /\ (o = 0 <=> s.block = NoBlock) /\ (o # 0 => lines[o].fields # <<>> /\ s.block = lines[o].fields[1])
    BY BlockIs
  <1>2. next = OpenAfter(o, k + 1)
    BY OpenedNext
  <1>3. /\ next = IF o = 0 THEN IF Len(l.fields) = 2 /\ l.fields[2] = "(" THEN k + 1 ELSE 0
                  ELSE IF l.fields = <<")">> THEN 0 ELSE o
    BY <1>2 DEF OpenAfter
  <1>4. /\ l.fields # <<>> /\ Closes(s, l) => t.block = NoBlock
        /\ l.fields # <<>> /\ Opens(s, l) => t.block = l.fields[1]
        /\ l.fields = <<>> \/ Directs(s, l) => t.block = s.block
    BY DEF LineRead
  <1>5. l.fields \in Seq(Word)
    BY LineIs
  <1>6. /\ Closes(s, l) <=> o # 0 /\ l.fields = <<")">>
        /\ Opens(s, l) <=> o = 0 /\ Len(l.fields) = 2 /\ l.fields[2] = "("
    BY <1>1 DEF Closes, Opens
  <1>7. l.fields = <<>> => Len(l.fields) # 2 /\ l.fields # <<")">>
    BY <1>5
  <1> HIDE DEF o, next, l
  <1>8. CASE Closes(s, l)
    <2>1. next = 0 /\ t.block = NoBlock
      BY <1>3, <1>4, <1>6, <1>7, <1>8
    <2> QED
      BY <2>1 DEF next
  <1>9. CASE Opens(s, l)
    <2>1. next = k + 1 /\ l.fields # <<>> /\ t.block = l.fields[1]
      BY <1>3, <1>4, <1>6, <1>7, <1>9
    <2> QED
      BY <2>1 DEF next, l
  <1>10. CASE ~Closes(s, l) /\ ~Opens(s, l)
    <2>1. next = o
      BY <1>3, <1>6, <1>10
    <2>2. t.block = s.block
      BY <1>4, <1>10 DEF Directs
    <2> QED
      BY <1>1, <2>1, <2>2 DEF next
  <1> QED
    BY <1>8, <1>9, <1>10

\* The comments above the line after the next one.
LEMMA NextAbove ==
  ASSUME lines \in Seq(Line), NEW s, NEW k \in Nat, SoFar(s, k), k + 1 <= Len(lines),
         NEW t, LineRead(t, s, lines[k + 1], k + 1)
  PROVE  t.above = SubSeq(Remarks, ((k + 1) + 1) - Cardinality(DirectlyAbove((k + 1) + 1)), k + 1)
  <1> DEFINE l == lines[k + 1]
             d == DirectlyAbove(k + 1)
             c == Cardinality(d)
             next == DirectlyAbove((k + 1) + 1)
  <1>1. t.above = IF OnlyComment(l) THEN Append(s.above, l.comment) ELSE <<>>
    BY DEF LineRead, Above
  <1>2. s.above = SubSeq(Remarks, (k + 1) - c, k)
    BY DEF SoFar
  <1>3. c \in 0..k /\ IsFiniteSet(d) /\ d = ((k + 1) - c)..k
    <2>1. CommentsAbove(k + 1)
      BY AboveIs
    <2>2. (k + 1) - 1 = k
      OBVIOUS
    <2> QED
      BY <2>1, <2>2 DEF CommentsAbove
  <1>4. next = IF OnlyComment(l) THEN d \cup {k + 1} ELSE {}
    <2>1. k + 1 \in Nat /\ k + 1 # 0
      OBVIOUS
    <2> QED
      BY <2>1, AboveNext
  <1>5. Remarks \in Seq(Word) /\ Len(Remarks) = Len(lines) /\ Remarks[k + 1] = l.comment
    <2>1. \A i \in 1..Len(lines) : lines[i].comment \in Word
      BY LineIs
    <2> QED
      BY <2>1 DEF Remarks
  <1> HIDE DEF l, d, c, next
  <1>6. CASE OnlyComment(l)
    <2>1. k + 1 \notin d
      BY <1>3
    <2>2. Cardinality(next) = c + 1
      BY <1>3, <1>4, <1>6, <2>1, FS_AddElement DEF c
    <2>3. ((k + 1) + 1) - (c + 1) = (k + 1) - c
      BY <1>3
    <2> DEFINE i == (k + 1) - c
               u == Append(SubSeq(Remarks, i, k), Remarks[k + 1])
               v == SubSeq(Remarks, i, k + 1)
    <2>4. i \in Nat /\ i >= 1 /\ i <= k + 1 /\ k + 1 <= Len(Remarks)
      BY <1>3, <1>5
    <2> HIDE DEF i
    <2>5. u \in Seq(Word) /\ v \in Seq(Word) /\ Len(u) = Len(v) /\ \A m \in 1..Len(u) : u[m] = v[m]
      BY <1>5, <2>4
    <2> HIDE DEF u, v
    <2>6. u = v
      BY <2>5, SameList
    <2> QED
      BY <1>1, <1>2, <1>5, <1>6, <2>2, <2>3, <2>6 DEF u, v, i, next
  <1>7. CASE ~OnlyComment(l)
    <2>1. Cardinality(next) = 0
      BY <1>4, <1>7, FS_EmptySet
    <2>2. SubSeq(Remarks, ((k + 1) + 1) - 0, k + 1) = <<>>
      BY <1>5
    <2> QED
      BY <1>1, <1>7, <2>1, <2>2 DEF next
  <1> QED
    BY <1>6, <1>7

\* What the comments above a line are, as read.
LEMMA AboveAre ==
  ASSUME lines \in Seq(Line), NEW s, NEW k \in Nat, SoFar(s, k), k + 1 <= Len(lines)
  PROVE  /\ Rationale(s.above, lines[k + 1]) = WhyOf(k + 1)
         /\ Deprecation(Append(s.above, lines[k + 1].comment)) <=> Deprecates(k + 1)
  <1> DEFINE l == lines[k + 1]
             d == DirectlyAbove(k + 1)
             c == Cardinality(d)
             above == s.above
  <1>1. above = SubSeq(Remarks, (k + 1) - c, k)
    BY DEF SoFar
  <1>2. c \in 0..k /\ d = ((k + 1) - c)..k /\ (k + 1) - 1 = k
    <2>1. CommentsAbove(k + 1)
      BY AboveIs
    <2>2. (k + 1) - 1 = k
      OBVIOUS
    <2> QED
      BY <2>1, <2>2 DEF CommentsAbove
  <1>3. Remarks \in Seq(Word) /\ Len(Remarks) = Len(lines) /\ \A i \in 1..Len(lines) : Remarks[i] = lines[i].comment
    <2>1. \A i \in 1..Len(lines) : lines[i].comment \in Word
      BY LineIs
    <2> QED
      BY <2>1 DEF Remarks
  <1>4. Rationale(above, l) = WhyOf(k + 1)
    BY <1>1, <1>2 DEF Rationale, WhyOf
  <1>5. /\ above \in Seq(Word) /\ Len(above) = c
        /\ \A m \in 1..c : above[m] = lines[((k + 1) - c) + m - 1].comment
    <2> DEFINE i == (k + 1) - c
    <2>1. i \in Nat /\ i >= 1 /\ i <= k + 1 /\ k + 1 <= Len(Remarks) /\ (k - i) + 1 = c
      BY <1>2, <1>3
    <2> HIDE DEF i
    <2>2. /\ SubSeq(Remarks, i, k) \in Seq(Word) /\ Len(SubSeq(Remarks, i, k)) = (k - i) + 1
          /\ \A m \in 1..((k - i) + 1) : SubSeq(Remarks, i, k)[m] = Remarks[i + m - 1] /\ i + m - 1 \in 1..Len(Remarks)
      BY <1>3, <2>1
    <2> QED
      BY <1>1, <1>3, <2>1, <2>2 DEF i
  <1> HIDE DEF l, d, c, above
  <1>6. /\ DOMAIN Append(above, l.comment) = 1..(c + 1)
        /\ \A m \in 1..c : Append(above, l.comment)[m] = lines[((k + 1) - c) + m - 1].comment
        /\ Append(above, l.comment)[c + 1] = l.comment
    BY <1>2, <1>5
  <1>7. Deprecation(Append(above, l.comment)) <=>
          (\E m \in 1..c : lines[((k + 1) - c) + m - 1].comment = "Deprecated:") \/ l.comment = "Deprecated:"
    <2>1. \A m : m \in 1..(c + 1) <=> m \in 1..c \/ m = c + 1
      BY <1>2
    <2> QED
      BY <1>6, <2>1 DEF Deprecation
  <1>8. (\E m \in 1..c : lines[((k + 1) - c) + m - 1].comment = "Deprecated:") <=> \E j \in d : lines[j].comment = "Deprecated:"
    <2>1. ASSUME NEW m \in 1..c PROVE ((k + 1) - c) + m - 1 \in d
      BY <1>2
    <2>2. ASSUME NEW j \in d PROVE j - (k + 1) + c + 1 \in 1..c /\ ((k + 1) - c) + (j - (k + 1) + c + 1) - 1 = j
      BY <1>2
    <2> QED
      BY <2>1, <2>2
  <1>9. Deprecates(k + 1) <=> (\E j \in d : lines[j].comment = "Deprecated:") \/ l.comment = "Deprecated:"
    BY DEF Deprecates, d, l
  <1> QED
    BY <1>4, <1>7, <1>8, <1>9 DEF above, l

\* What is read of the requirements, and of the retractions, after the next
\* line.
LEMMA NextRead ==
  ASSUME lines \in Seq(Line), NEW s \in Reading, NEW k \in Nat, SoFar(s, k), k + 1 <= Len(lines),
         NEW t, LineRead(t, s, lines[k + 1], k + 1), ~t.failed
  PROVE  /\ ReadInOrder(t.require, SaidSoFar("require", k + 1)) /\ ReadInOrder(t.retract, SaidSoFar("retract", k + 1))
         /\ \A r \in Range(t.require) : RequiresWell(r)
         /\ \A r \in Range(t.retract) : RetractsWell(r)
  <1> DEFINE l == lines[k + 1]
             verb == Verb(s, l)
  <1>1. k + 1 \in 1..Len(lines) /\ l \in Line /\ \A i \in 1..k : lines[i] \in Line
    OBVIOUS
  <1>2. /\ Directs(s, l) => \A w : Says(k + 1, w) <=> w = verb
        /\ ~Directs(s, l) => \A w : ~Says(k + 1, w)
    BY <1>1, SaysIs
  <1>3. /\ ~Directs(s, l) => SameRead(t, s)
        /\ Directs(s, l) => ReadOf(t, s, verb, l, k + 1)
    BY DEF LineRead
  <1>4. /\ s.require \in Seq(Required) /\ s.retract \in Seq(Withdrawn) /\ s.above \in Seq(Word) /\ l.comment \in Word
    BY <1>1, LineIs DEF Reading
  <1>5. /\ ReadInOrder(s.require, SaidSoFar("require", k)) /\ ReadInOrder(s.retract, SaidSoFar("retract", k))
        /\ \A r \in Range(s.require) : RequiresWell(r)
        /\ \A r \in Range(s.retract) : RetractsWell(r)
    BY DEF SoFar
  <1>6. Rationale(s.above, l) = WhyOf(k + 1)
    BY AboveAre
  <1> HIDE DEF l, verb
  <1>7. ASSUME NEW S, NEW q \in Seq(S), NEW r PROVE Range(Append(q, r)) = Range(q) \cup {r}
    <2>1. \A i : i \in 1..(Len(q) + 1) <=> i \in 1..Len(q) \/ i = Len(q) + 1
      OBVIOUS
    <2> QED
      BY <2>1 DEF Range
  <1>8. ReadInOrder(t.require, SaidSoFar("require", k + 1)) /\ \A r \in Range(t.require) : RequiresWell(r)
    <2>1. CASE Says(k + 1, "require")
      <3> DEFINE r == [line |-> k + 1, indirect |-> l.comment = "indirect"]
      <3>1. t.require = Append(s.require, r)
        BY <1>2, <1>3, <2>1 DEF ReadOf
      <3>2. r \in Required /\ r.line = k + 1 /\ RequiresWell(r)
        <4>1. r.line = k + 1 /\ r.indirect = (l.comment = "indirect") /\ l = lines[k + 1]
          BY DEF l
        <4>2. r.indirect <=> l.comment = "indirect"
          BY <4>1, Zenon
        <4>3. r \in Required
          BY DEF Required
        <4> HIDE DEF r
        <4> QED
          BY <4>1, <4>2, <4>3, Zenon DEF RequiresWell
      <3> HIDE DEF r
      <3>3. (\A x \in Required : x.line \in Nat) /\ SaidSoFar("require", k) \in SUBSET (1..k)
        BY SaidNext DEF Required
      <3>4. ReadInOrder(Append(s.require, r), SaidSoFar("require", k) \cup {k + 1})
        BY <1>4, <1>5, <3>2, <3>3, ReadMore
      <3>5. SaidSoFar("require", k + 1) = SaidSoFar("require", k) \cup {k + 1}
        BY <2>1, SaidNext
      <3>6. Range(t.require) = Range(s.require) \cup {r}
        BY <1>4, <1>7, <3>1
      <3> QED
        BY <1>5, <3>1, <3>2, <3>4, <3>5, <3>6
    <2>2. CASE ~Says(k + 1, "require")
      <3>1. t.require = s.require
        BY <1>2, <1>3, <2>2 DEF ReadOf, SameRead
      <3>2. SaidSoFar("require", k + 1) = SaidSoFar("require", k)
        BY <2>2, SaidNext
      <3> QED
        BY <1>5, <3>1, <3>2
    <2> QED
      BY <2>1, <2>2
  <1>9. ReadInOrder(t.retract, SaidSoFar("retract", k + 1)) /\ \A r \in Range(t.retract) : RetractsWell(r)
    <2>1. CASE Says(k + 1, "retract")
      <3> DEFINE r == [line |-> k + 1, why |-> Rationale(s.above, l)]
      <3>1. t.retract = Append(s.retract, r)
        BY <1>2, <1>3, <2>1 DEF ReadOf
      <3>2. Rationale(s.above, l) \in Seq(Word)
        <4>1. <<l.comment>> \in Seq(Word)
          BY <1>4
        <4> QED
          BY <1>4, <4>1 DEF Rationale
      <3>3. r \in Withdrawn /\ r.line = k + 1 /\ RetractsWell(r)
        BY <1>6, <3>2 DEF Withdrawn, RetractsWell
      <3> HIDE DEF r
      <3>4. (\A x \in Withdrawn : x.line \in Nat) /\ SaidSoFar("retract", k) \in SUBSET (1..k)
        BY SaidNext DEF Withdrawn
      <3>5. ReadInOrder(Append(s.retract, r), SaidSoFar("retract", k) \cup {k + 1})
        BY <1>4, <1>5, <3>3, <3>4, ReadMore
      <3>6. SaidSoFar("retract", k + 1) = SaidSoFar("retract", k) \cup {k + 1}
        BY <2>1, SaidNext
      <3>7. Range(t.retract) = Range(s.retract) \cup {r}
        BY <1>4, <1>7, <3>1
      <3> QED
        BY <1>5, <3>1, <3>3, <3>5, <3>6, <3>7
    <2>2. CASE ~Says(k + 1, "retract")
      <3>1. t.retract = s.retract
        BY <1>2, <1>3, <2>2 DEF ReadOf, SameRead
      <3>2. SaidSoFar("retract", k + 1) = SaidSoFar("retract", k)
        BY <2>2, SaidNext
      <3> QED
        BY <1>5, <3>1, <3>2
    <2> QED
      BY <2>1, <2>2
  <1> QED
    BY <1>8, <1>9

\* And of the module.
LEMMA NextModule ==
  ASSUME lines \in Seq(Line), NEW s \in Reading, NEW k \in Nat, SoFar(s, k), k + 1 <= Len(lines),
         NEW t, LineRead(t, s, lines[k + 1], k + 1), ~t.failed
  PROVE  /\ SaidSoFar("module", k + 1) = {} => t.module = ""
         /\ SaidSoFar("module", k + 1) # {} => (t.deprecated <=> Deprecates(Max(SaidSoFar("module", k + 1))))
  <1> DEFINE l == lines[k + 1]
             verb == Verb(s, l)
             said == SaidSoFar("module", k)
             next == SaidSoFar("module", k + 1)
  <1>1. k + 1 \in 1..Len(lines) /\ l \in Line /\ \A i \in 1..k : lines[i] \in Line
    OBVIOUS
  <1>2. /\ Directs(s, l) => \A w : Says(k + 1, w) <=> w = verb
        /\ ~Directs(s, l) => \A w : ~Says(k + 1, w)
    BY <1>1, SaysIs
  <1>3. /\ ~Directs(s, l) => SameRead(t, s)
        /\ Directs(s, l) => ReadOf(t, s, verb, l, k + 1)
    BY DEF LineRead
  <1>4. /\ said = {} => s.module = ""
        /\ said # {} => (s.deprecated <=> Deprecates(Max(said)))
    BY DEF SoFar
  <1>5. Deprecation(Append(s.above, l.comment)) <=> Deprecates(k + 1)
    BY AboveAre
  <1>6. said \in SUBSET (1..k) /\ next = IF Says(k + 1, "module") THEN said \cup {k + 1} ELSE said
    BY SaidNext
  <1> HIDE DEF l, verb, said, next
  <1>7. CASE Says(k + 1, "module")
    <2>1. t.deprecated = Deprecation(Append(s.above, l.comment))
      BY <1>2, <1>3, <1>7 DEF ReadOf
    <2>2. next = said \cup {k + 1} /\ k + 1 \in next /\ \A x \in next : k + 1 >= x
      BY <1>6, <1>7
    <2>3. \A x, y \in next : x >= y /\ y >= x => x = y
      BY <1>6, <2>2
    <2>4. Max(next) = k + 1
      BY <2>2, <2>3 DEF Max
    <2> QED
      BY <1>5, <2>1, <2>2, <2>4 DEF next
  <1>8. CASE ~Says(k + 1, "module")
    <2>1. t.module = s.module /\ t.deprecated = s.deprecated
      BY <1>2, <1>3, <1>8 DEF ReadOf, SameRead
    <2>2. next = said
      BY <1>6, <1>8
    <2> QED
      BY <1>4, <2>1, <2>2 DEF next
  <1> QED
    BY <1>7, <1>8

\* The next line.
LEMMA NextSoFar ==
  ASSUME lines \in Seq(Line), NEW s \in Reading, NEW k \in Nat, SoFar(s, k), k + 1 <= Len(lines),
         NEW t, LineRead(t, s, lines[k + 1], k + 1), ~t.failed
  PROVE  SoFar(t, k + 1)
  <1>1. k + 1 \in 1..Len(lines) /\ lines[k + 1] \in Line /\ \A i \in 1..k : lines[i] \in Line
    OBVIOUS
  <1>2. LET o == OpenedBy((k + 1) + 1) IN
        /\ o \in 0..(k + 1)
        /\ o = 0 => t.block = NoBlock
        /\ o # 0 => LET l == lines[o] IN l.fields # <<>> /\ t.block = l.fields[1]
    BY <1>1, NextBlock
  <1>3. t.above = SubSeq(Remarks, ((k + 1) + 1) - Cardinality(DirectlyAbove((k + 1) + 1)), k + 1)
    BY NextAbove
  <1> QED
    BY <1>2, <1>3, NextRead, NextModule, Zenon DEF SoFar

\* Before the first line.
LEMMA StartSoFar ==
  ASSUME lines \in Seq(Line)
  PROVE  SoFar(Start, 0)
  <1>1. OpenedBy(0 + 1) = 0 /\ 0 \in 0..0
    <2>1. OpenedBy(1) = 0
      BY OpenedNext
    <2> QED
      BY <2>1
  <1>2. \A verb : SaidSoFar(verb, 0) = {}
    BY DEF SaidSoFar
  <1>3. ReadInOrder(<<>>, {}) /\ Range(<<>>) = {}
    BY DEF ReadInOrder, Range
  <1>4. SubSeq(Remarks, (0 + 1) - Cardinality(DirectlyAbove(0 + 1)), 0) = <<>>
    <2>1. Cardinality(DirectlyAbove(1)) = 0
      <3>1. CommentsAbove(1)
        BY AboveIs
      <3> QED
        BY <3>1 DEF CommentsAbove
    <2>2. Remarks \in Seq(Word)
      <3>1. \A i \in 1..Len(lines) : lines[i].comment \in Word
        BY LineIs
      <3> QED
        BY <3>1 DEF Remarks
    <2>3. SubSeq(Remarks, 1, 0) = <<>>
      BY <2>2
    <2> QED
      BY <2>1, <2>3
  <1> QED
    BY <1>1, <1>2, <1>3, <1>4 DEF SoFar, Start

\* Line after line.
LEMMA ReadSoFar ==
  ASSUME lines \in Seq(Line), NEW r, Reads(r, Len(lines))
  PROVE  \A k \in 0..Len(lines) : ~r[k].failed => SoFar(r[k], k)
  <1> DEFINE n == Len(lines)
             good(k) == ~r[k].failed => SoFar(r[k], k)
             Bad == {k \in 0..n : ~good(k)}
  <1>1. SUFFICES ASSUME Bad # {} PROVE FALSE
    <2> HIDE DEF good
    <2> QED
      BY DEF good
  <1>2. PICK k \in Bad : \A l \in Bad : k <= l
    <2>1. Bad \in SUBSET Nat
      OBVIOUS
    <2> HIDE DEF Bad
    <2> QED
      BY <1>1, <2>1, LeastNat
  <1>3. k \in 0..n /\ ~good(k) /\ n \in Nat
    OBVIOUS
  <1>4. CASE k = 0
    BY <1>3, <1>4, StartSoFar DEF Reads
  <1>5. CASE k # 0
    <2> DEFINE j == k - 1
    <2>1. j \in Nat /\ j \in 0..n /\ j + 1 = k /\ j + 1 <= n /\ ~(k <= j) /\ k \in 1..n
      BY <1>3, <1>5
    <2>2. j \notin Bad
      <3> HIDE DEF Bad
      <3> QED
        BY <1>2, <2>1
    <2>3. good(j)
      BY <2>1, <2>2
    <2> HIDE DEF Bad, good, j
    <2>4. r[j] \in Reading /\ r[k] = ReadLine(r[j], lines[k], k)
      <3>1. k - 1 = j
        BY DEF j
      <3> QED
        BY <2>1, <3>1 DEF Reads
    <2>5. lines[k] \in Line
      BY <2>1
    <2>6. LineRead(r[k], r[j], lines[k], k)
      BY <2>1, <2>4, <2>5, ReadLineIs
    <2>7. ASSUME ~r[k].failed PROVE SoFar(r[k], k)
      <3>1. ~r[j].failed
        BY <2>6, <2>7 DEF LineRead
      <3>2. SoFar(r[j], j)
        BY <2>3, <3>1 DEF good
      <3>3. SoFar(r[k], j + 1)
        BY <2>1, <2>4, <2>6, <2>7, <3>2, NextSoFar
      <3> QED
        BY <2>1, <3>3
    <2> QED
      BY <1>3, <2>7 DEF good
  <1> QED
    BY <1>4, <1>5

\* A go.mod file that is read says what its lines say: each requirement and
\* each retraction once, in order, and with its comments; module GoModFile
\* says it of every file that is as long as the bound, and it is so of all.
THEOREM GoModIsReadRight == GoModSpec => []GoModIsRead
  <1>1. ASSUME lines \in Seq(Line) PROVE GoModIsRead
    <2> DEFINE n == Len(lines)
               s == ReadTo(n)
    <2>1. n \in Nat /\ \A i \in 1..n : lines[i] \in Line
      BY <1>1
    <2>2. PICK r : Reads(r, n)
      BY <2>1, ReadIs
    <2>3. s = r[n] /\ n \in 0..n /\ r[n] \in Reading
      BY <2>1, <2>2 DEF Reads
    <2>4. ~s.failed => SoFar(s, n)
      BY <1>1, <2>2, <2>3, ReadSoFar
    <2> HIDE DEF s
    <2> SUFFICES ASSUME ~Parse.failed PROVE GoModIsRead
      BY DEF GoModIsRead
    <2>5. Parse = IF s.block # NoBlock \/ s.module = "" THEN [s EXCEPT !.failed = TRUE] ELSE s
      BY DEF Parse, s
    <2>6. ~(s.block # NoBlock \/ s.module = "")
      <3>1. [s EXCEPT !.failed = TRUE].failed = TRUE
        BY <2>3 DEF Reading
      <3> QED
        BY <2>5, <3>1
    <2>7. Parse = s /\ ~s.failed /\ s.module # ""
      BY <2>5, <2>6
    <2>8. \A verb : SaidSoFar(verb, n) = SaidBy(verb)
      BY <1>1 DEF SaidSoFar, SaidBy
    <2>9. /\ ReadInOrder(s.require, SaidBy("require")) /\ ReadInOrder(s.retract, SaidBy("retract"))
          /\ \A x \in Range(s.require) : RequiresWell(x)
          /\ \A x \in Range(s.retract) : RetractsWell(x)
          /\ SaidBy("module") # {}
          /\ s.deprecated <=> Deprecates(Max(SaidBy("module")))
      BY <2>4, <2>7, <2>8 DEF SoFar
    <2> QED
      BY <2>7, <2>9 DEF GoModIsRead, RequiresWell, RetractsWell, WhyOf, Remarks, Deprecates
  <1>2. GoModInit => lines \in Seq(Line)
    BY DEF GoModInit
  <1>3. lines \in Seq(Line) /\ [GoModNext]_goModVars => (lines \in Seq(Line))'
    BY DEF GoModNext, goModVars
  <1> QED
    BY <1>1, <1>2, <1>3, PTL DEF GoModSpec

-----------------------------------------------------------------------------
(* All of them.                                                            *)

\* Whatever is typed, listed, named or written in a go.mod file means one
\* thing.
THEOREM TextsMean == TextsSpec => []TextsMeanOneThing
  <1>1. PathsAreNotConfused /\ VersionsAreOrdered /\ TyposAreFound /\ GoModIsRead => TextsMeanOneThing
    BY DEF TextsMeanOneThing
  <1>2. TextsSpec => VersionsSpec /\ TyposSpec /\ GoModSpec
    BY DEF TextsSpec
  <1> QED
    BY <1>1, <1>2, PathsComeBack, VersionsKeepOrder, TyposAreFlagged, GoModIsReadRight, PTL
=============================================================================

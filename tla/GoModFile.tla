------------------------------ MODULE GoModFile ------------------------------
(***************************************************************************)
(* How a go.mod file is read: line by line, with the block that is open    *)
(* and the comments directly above.  A line is a sequence of fields and    *)
(* the comment at its end; a file grows by one line after the other.       *)
(***************************************************************************)
EXTENDS Integers, Sequences, FiniteSets, FiniteSetsExt, SequencesExt

CONSTANTS Line,    \* lines there may be
          MaxLines \* bound: how many a file has

\* The comments that matter: none, any, one that deprecates the module, and
\* one that says that a requirement is indirect.
Comment == {"", "text", "Deprecated:", "indirect"}

ASSUME GoModConstants ==
  /\ Line \subseteq [fields : Seq(STRING \ {""}), comment : Comment]
  /\ MaxLines \in Nat

VARIABLE lines

goModVars == lines

NoBlock == ""
OnlyComment(l) == l.fields = <<>> /\ l.comment # ""

Start == [block |-> NoBlock, above |-> <<>>, failed |-> FALSE,
          module |-> "", deprecated |-> FALSE, require |-> <<>>, retract |-> <<>>]

\* "Deprecated:" begins one of the lines.
Deprecation(comments) == \E i \in DOMAIN comments : comments[i] = "Deprecated:"

\* Comments above a line and beside it.
Rationale(comments, l) == IF l.comment # "" THEN <<l.comment>> ELSE comments

\* What a directive says; n is the number of the line.
Directive(s, verb, args, l, n) ==
  CASE verb = "module" /\ Len(args) = 1 ->
         [s EXCEPT !.module = args[1], !.deprecated = Deprecation(Append(s.above, l.comment))]
    [] verb = "require" /\ Len(args) = 2 ->
         [s EXCEPT !.require = Append(@, [line |-> n, indirect |-> l.comment = "indirect"])]
    [] verb = "retract" ->
         [s EXCEPT !.retract = Append(@, [line |-> n, why |-> Rationale(s.above, l)])]
    [] verb \notin {"module", "go", "require", "retract"} \/ (verb = "go" /\ Len(args) = 1) -> s
    [] OTHER -> [s EXCEPT !.failed = TRUE]

\* Mutant: comments wait for the next directive.
KeepComments(s, l) == IF OnlyComment(l) THEN Append(s.above, l.comment) ELSE IF l.fields = <<>> THEN s.above ELSE <<>>

\* The comments directly above the next line.
Above(s, l) == IF OnlyComment(l) THEN Append(s.above, l.comment) ELSE <<>>

Closes(s, l) == s.block # NoBlock /\ l.fields = <<")">>
Opens(s, l) == s.block = NoBlock /\ Len(l.fields) = 2 /\ l.fields[2] = "("

ReadLine(s, l, n) ==
  LET read ==
        CASE l.fields = <<>> \/ s.failed -> s
          [] l.fields # <<>> /\ ~s.failed /\ Closes(s, l) -> [s EXCEPT !.block = NoBlock]
          [] l.fields # <<>> /\ ~s.failed /\ Opens(s, l) -> [s EXCEPT !.block = l.fields[1]]
          [] OTHER -> IF s.block # NoBlock THEN Directive(s, s.block, l.fields, l, n)
                      ELSE Directive(s, Head(l.fields), Tail(l.fields), l, n)
  IN [read EXCEPT !.above = Above(s, l)]

ReadTo(n) == FoldLeft(LAMBDA s, i : ReadLine(s, lines[i], i), Start, [i \in 1..n |-> i])

Parse ==
  LET s == ReadTo(Len(lines)) IN
  IF s.block # NoBlock \/ s.module = "" THEN [s EXCEPT !.failed = TRUE] ELSE s

-----------------------------------------------------------------------------
GoModInit == lines = <<>>
GoModNext == Len(lines) < MaxLines /\ \E l \in Line : lines' = Append(lines, l)
GoModSpec == GoModInit /\ [][GoModNext]_goModVars

-----------------------------------------------------------------------------
GoModTypeOK == Range(lines) \subseteq Line

\* The block that line i is in: the last line that opened one, unless it was
\* closed.  What looks like the opening of a block is an entry inside of one.
OpenAfter(open, j) ==
  IF open = 0 THEN IF Len(lines[j].fields) = 2 /\ lines[j].fields[2] = "(" THEN j ELSE 0
  ELSE IF lines[j].fields = <<")">> THEN 0 ELSE open

OpenedBy(i) == FoldLeft(OpenAfter, 0, [j \in 1..(i - 1) |-> j])

Says(i, verb) ==
  LET l == lines[i].fields IN
  l # <<>> /\ IF OpenedBy(i) = 0 THEN l[1] = verb /\ ~(Len(l) = 2 /\ l[2] = "(")
              ELSE lines[OpenedBy(i)].fields[1] = verb /\ l # <<")">>

SaidBy(verb) == {i \in DOMAIN lines : Says(i, verb)}

\* What was read is of these lines, each once and in order.
ReadInOrder(read, said) ==
  /\ {read[k].line : k \in DOMAIN read} = said
  /\ \A j, k \in DOMAIN read : j < k => read[j].line < read[k].line

\* The lines directly above i that are comments, without a blank between.
DirectlyAbove(i) == {j \in 1..(i - 1) : \A k \in j..(i - 1) : OnlyComment(lines[k])}

\* A file that is read has each requirement and each retraction once, in
\* order; a module is deprecated when the comment directly above its line,
\* or beside it, says so; and a retraction without a comment beside it has
\* the one directly above.
GoModIsRead ==
  LET file == Parse IN
  ~file.failed =>
    /\ ReadInOrder(file.require, SaidBy("require")) /\ ReadInOrder(file.retract, SaidBy("retract"))
    /\ \A r \in Range(file.require) : r.indirect <=> lines[r.line].comment = "indirect"
    /\ \A r \in Range(file.retract) :
         r.why = IF lines[r.line].comment # "" THEN <<lines[r.line].comment>>
                 ELSE SubSeq([j \in DOMAIN lines |-> lines[j].comment],
                             r.line - Cardinality(DirectlyAbove(r.line)), r.line - 1)
    /\ LET named == Max(SaidBy("module")) IN
       file.deprecated <=> \E j \in DirectlyAbove(named) \cup {named} : lines[j].comment = "Deprecated:"
=============================================================================

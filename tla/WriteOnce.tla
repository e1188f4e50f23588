----------------------------- MODULE WriteOnce -----------------------------
(***************************************************************************)
(* What publishing promises: every version of every module is a register   *)
(* that is written at most once.  An upload names a register and what it   *)
(* would hold; it takes effect at a single moment, and the answer the      *)
(* client gets is the one that moment decided.  An upload may be refused,  *)
(* and its answer may be lost, without a trace in any register -- or, when *)
(* it is lost after it took effect, with the whole of its trace.           *)
(***************************************************************************)
CONSTANTS Upload,   \* requests that may be in flight
          Key,      \* registers: the versions of the modules
          Content,  \* what a register may hold
          Empty     \* what it holds before it is written

VARIABLES content,  \* what each register holds
          call      \* what each request asks for, and its answer

vars == <<content, call>>

None == [answer |-> "none"]
Call(k, c, a) == [key |-> k, content |-> c, answer |-> a]
Pending(r) == call[r].answer = "pending"
Answer(r, a) == call' = [call EXCEPT ![r].answer = a]

Init ==
  /\ content = [k \in Key |-> Empty]
  /\ call = [r \in Upload |-> None]

Invoke(r, k, c) ==
  /\ call[r] = None
  /\ call' = [call EXCEPT ![r] = Call(k, c, "pending")]
  /\ UNCHANGED content

Write(r) ==
  /\ Pending(r)
  /\ content[call[r].key] = Empty
  /\ content' = [content EXCEPT ![call[r].key] = call[r].content]
  /\ Answer(r, "published")

\* The same content again: nothing to write, and the client is told so.
WrittenAlready(r) ==
  /\ Pending(r)
  /\ content[call[r].key] = call[r].content
  /\ Answer(r, "already")
  /\ UNCHANGED content

Conflict(r) ==
  /\ Pending(r)
  /\ content[call[r].key] \notin {Empty, call[r].content}
  /\ Answer(r, "conflict")
  /\ UNCHANGED content

Refuse(r) ==
  /\ Pending(r)
  /\ \E a \in {"rejected", "failed"} : Answer(r, a)
  /\ UNCHANGED content

\* The client has its answer, or never gets one.
Forget(R) ==
  /\ call' = [r \in Upload |-> IF r \in R THEN None ELSE call[r]]
  /\ UNCHANGED content

Next ==
  \/ \E r \in Upload :
       \/ \E k \in Key, c \in Content : Invoke(r, k, c)
       \/ Write(r)
       \/ WrittenAlready(r)
       \/ Conflict(r)
       \/ Refuse(r)
  \/ \E R \in SUBSET Upload : Forget(R)

Spec == Init /\ [][Next]_vars
=============================================================================

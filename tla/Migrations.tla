----------------------------- MODULE Migrations -----------------------------
(***************************************************************************)
(* The migrations of the database.  Every program that opens it applies    *)
(* those it has that are not yet applied: the server when it starts, and   *)
(* "gopherdexd backup" while the server runs, of this release or the next. *)
(* A transaction takes SQLite's write lock when it begins.                 *)
(***************************************************************************)
EXTENDS Naturals, Sequences

CONSTANTS Program,  \* processes that open the database
          Knows,    \* how many migrations each one has: files 1, 2, ...
          MaxKills  \* bound: how often a process is killed

ASSUME MigrationConstants == Knows \in [Program -> Nat] /\ MaxKills \in Nat

VARIABLES applied,  \* table schema_migrations
          schema,   \* the migrations whose statements the database has, in order
          lock,     \* who holds the write lock: a set of one, or none
          program,  \* what each process is doing, and the migration it is at
          kills

migrationVars == <<applied, schema, lock, program, kills>>

NotRunning == [pc |-> "none", at |-> 0]
ProgramAt(p, pc) == program[p].pc = pc
Does(p, pc, n) == program' = [program EXCEPT ![p] = [pc |-> pc, at |-> n]]

\* Mutant: the last migration is left out.
GoesOnNearly(p, n) == IF n + 1 < Knows[p] THEN Does(p, "next", n + 1) ELSE Does(p, "open", n)

\* After migration n, the next one, or the work the program is there for.
GoesOn(p, n) == IF n < Knows[p] THEN Does(p, "next", n + 1) ELSE Does(p, "open", n)

OpenDatabase(p) ==
  /\ ProgramAt(p, "none")
  /\ GoesOn(p, 0)
  /\ UNCHANGED <<applied, schema, lock, kills>>

\* Mutant: whether the migration was applied is read before the transaction.
BeginUnknown(p) ==
  /\ ProgramAt(p, "next")
  /\ IF program[p].at \in applied THEN GoesOn(p, program[p].at) /\ lock' = lock
     ELSE Does(p, "apply", program[p].at) /\ lock' = lock
  /\ UNCHANGED <<applied, schema, kills>>

\* BEGIN IMMEDIATE, and the count in schema_migrations.
BeginMigration(p) ==
  /\ ProgramAt(p, "next")
  /\ lock = {}
  /\ lock' = {p}
  /\ Does(p, "check", program[p].at)
  /\ UNCHANGED <<applied, schema, kills>>

CheckApplied(p) ==
  /\ ProgramAt(p, "check")
  /\ IF program[p].at \in applied THEN GoesOn(p, program[p].at) /\ lock' = {}
     ELSE Does(p, "apply", program[p].at) /\ lock' = lock
  /\ UNCHANGED <<applied, schema, kills>>

\* The statements of the file, and its row: nobody else sees them before
\* the commit, and they are gone if the process is killed.
CommitMigration(p) ==
  /\ ProgramAt(p, "apply")
  /\ lock \subseteq {p}
  /\ schema' = Append(schema, program[p].at)
  /\ applied' = applied \cup {program[p].at}
  /\ lock' = {}
  /\ GoesOn(p, program[p].at)
  /\ UNCHANGED kills

Kill(p) ==
  /\ program[p].pc # "none"
  /\ kills < MaxKills
  /\ kills' = kills + 1
  /\ lock' = lock \ {p}
  /\ program' = [program EXCEPT ![p] = NotRunning]
  /\ UNCHANGED <<applied, schema>>

MigrationInit ==
  /\ applied = {} /\ schema = <<>> /\ lock = {}
  /\ program = [p \in Program |-> NotRunning]
  /\ kills = 0

MigrationNext ==
  \E p \in Program : OpenDatabase(p) \/ BeginMigration(p) \/ CheckApplied(p) \/ CommitMigration(p) \/ Kill(p)

\* SQLite's busy timeout lets a waiting process have its turn.
MigrationFairness ==
  \A p \in Program : SF_migrationVars(BeginMigration(p)) /\ WF_migrationVars(CheckApplied(p) \/ CommitMigration(p))
MigrationSpec == MigrationInit /\ [][MigrationNext]_migrationVars /\ MigrationFairness

-----------------------------------------------------------------------------
MigrationTypeOK ==
  /\ applied \subseteq Nat /\ schema \in Seq(Nat)
  /\ lock \subseteq Program /\ \A p, q \in lock : p = q
  /\ program \in [Program -> [pc : {"none", "next", "check", "apply", "open"}, at : Nat]]

\* Each migration is applied once and in order, whoever else migrates at the
\* same time and whenever one of them is killed.
AppliedInOrder ==
  /\ \A i \in DOMAIN schema : schema[i] = i
  /\ applied = 1..Len(schema)

\* A program that has the database open works on a schema that is not older
\* than the one it was written for.
OpenIsMigrated == \A p \in Program : ProgramAt(p, "open") => 1..Knows[p] \subseteq applied

\* So whoever works on the database finds it as its code expects it.
SchemaIsWhole == AppliedInOrder /\ OpenIsMigrated
=============================================================================

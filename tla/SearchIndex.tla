---------------------------- MODULE SearchIndex ----------------------------
(***************************************************************************)
(* The search index beside the tables it is made from.  A handler changes  *)
(* a module's tables in one statement or transaction; then, in statements  *)
(* of their own, it reads the module's row, reads its versions, and writes *)
(* the module's entry in one transaction.  Other handlers run in between,  *)
(* and each of these statements may fail -- also because the client hung   *)
(* up, which cancels the request.  Every start of the server runs Backfill *)
(* beside the handlers, which writes the entries that are missing.         *)
(*                                                                         *)
(* Search reads the index and nothing else, so the index decides what it   *)
(* finds.  Left out: the text of an entry, roles (module Access), and the  *)
(* versions published before search existed, whose text Backfill extracts. *)
(***************************************************************************)
EXTENDS Integers, FiniteSetsExt

CONSTANTS Path,
          Version,     \* versions, as numbers ordered the way module.Compare does
          Prerelease,  \* those with a pre-release suffix
          Handler,     \* requests at work at the same time
          Backfill,    \* the goroutine that fills the index
          Failures,    \* whether statements may fail
          MaxRestart,    \* bound: how often the server goes down
          NoEntry      \* the entry of a module that is not in the index

ASSUME SearchConstants ==
  /\ Version \subseteq Nat \ {0}
  /\ Prerelease \subseteq Version
  /\ Backfill \notin Handler
  /\ Failures \in BOOLEAN
  /\ MaxRestart \in Nat

VARIABLES published,    \* table versions
          yanked,       \* versions.yanked_at
          deprecated,   \* modules.deprecation
          quarantined,  \* modules.quarantined_at
          entry,        \* tables module_meta and module_fts
          work,         \* what each handler, and Backfill, is doing
          missing,      \* the modules Backfill has left to do
          stale,        \* history: modules whose last reindexing did not come to its
                        \* end, or was not alone
          restarts

sourceVars == <<published, yanked, deprecated, quarantined>>
indexVars == <<entry, work, missing, stale, restarts>>
searchVars == <<sourceVars, indexVars>>

Worker == Handler \cup {Backfill}
Kind == {"Publish", "Yank", "Unyank", "Deprecate", "Undeprecate", "Quarantine", "Release"}

\* Reindexing is at the module's row, its versions, or its entry; then the
\* answer is known.  History: a job is "alone" as long as nobody else changed
\* or reindexed the module since it began.
Reading == {"row", "versions", "entry"}
NoJob == [pc |-> "idle"]
Job == [pc : Reading \cup {"ok", "error"}, kind : Kind \cup {"Backfill"}, mod : Path,
        quarantined : BOOLEAN, deprecated : BOOLEAN, versions : SUBSET Version, alone : BOOLEAN]
Entry == [version : Version, deprecated : BOOLEAN]
NewJob(kind, m, alone) == [pc |-> "row", kind |-> kind, mod |-> m, quarantined |-> FALSE,
                           deprecated |-> FALSE, versions |-> {}, alone |-> alone]

\* The highest release, or the highest pre-release when there is none.
Latest(vs) == IF vs \ Prerelease # {} THEN Max(vs \ Prerelease) ELSE Max(vs)

\* What the index says of a module with these installable versions.
EntryOf(vs, isQuarantined, isDeprecated) ==
  IF vs = {} \/ isQuarantined THEN NoEntry
  ELSE [version |-> Latest(vs), deprecated |-> isDeprecated]

\* w is reindexing m; w has done so, or is; somebody is.
Reindexes(w, m) == work[w].pc \in Reading /\ work[w].mod = m
IsAbout(w, m) == work[w].pc \in Reading \cup {"ok", "error"} /\ work[w].mod = m
AtWork(m) == \E w \in Worker : Reindexes(w, m)

\* w begins to reindex m.
Begins(w, kind, m) ==
  work' = [x \in Worker |-> IF x = w THEN NewJob(kind, m, ~AtWork(m))
                            ELSE IF IsAbout(x, m) THEN [work[x] EXCEPT !.alone = FALSE] ELSE work[x]]

\* Mutant: yanked versions are read too.
AllVersions(m) == published[m]
Installable(m) == published[m] \ yanked[m]

-----------------------------------------------------------------------------
(* Handlers: the change each makes, before it reindexes the module.        *)

\* The request of handler h has changed the tables of m.
Begin(h, kind, m) ==
  /\ work[h] = NoJob
  /\ Begins(h, kind, m)
  /\ UNCHANGED <<entry, missing, stale, restarts>>

\* There was nothing to change: the answer is that all is well.
Nothing(h, kind, m) ==
  /\ work[h] = NoJob
  /\ work' = [work EXCEPT ![h] = [NewJob(kind, m, FALSE) EXCEPT !.pc = "ok"]]
  /\ UNCHANGED <<sourceVars, entry, missing, stale, restarts>>

Publish(h, m, v) ==
  /\ m \notin quarantined
  /\ v \notin published[m]
  /\ published' = [published EXCEPT ![m] = @ \cup {v}]
  /\ Begin(h, "Publish", m)
  /\ UNCHANGED <<yanked, deprecated, quarantined>>

\* Mutant: nobody looks whether there is such a version.
YankAny(h, m, v) ==
  /\ v \notin yanked[m]
  /\ yanked' = [yanked EXCEPT ![m] = @ \cup {v}]
  /\ Begin(h, "Yank", m)
  /\ UNCHANGED <<published, deprecated, quarantined>>

Yank(h, m, v) ==
  /\ v \in published[m]
  /\ \/ /\ v \notin yanked[m]
        /\ yanked' = [yanked EXCEPT ![m] = @ \cup {v}]
        /\ Begin(h, "Yank", m)
        /\ UNCHANGED <<published, deprecated, quarantined>>
     \/ v \in yanked[m] /\ Nothing(h, "Yank", m)

Unyank(h, m, v) ==
  /\ v \in published[m]
  /\ \/ /\ v \in yanked[m]
        /\ yanked' = [yanked EXCEPT ![m] = @ \ {v}]
        /\ Begin(h, "Unyank", m)
        /\ UNCHANGED <<published, deprecated, quarantined>>
     \/ v \notin yanked[m] /\ Nothing(h, "Unyank", m)

Deprecate(h, m) ==
  /\ published[m] # {}
  /\ deprecated' = deprecated \cup {m}
  /\ Begin(h, "Deprecate", m)
  /\ UNCHANGED <<published, yanked, quarantined>>

Undeprecate(h, m) ==
  /\ published[m] # {}
  /\ deprecated' = deprecated \ {m}
  /\ Begin(h, "Undeprecate", m)
  /\ UNCHANGED <<published, yanked, quarantined>>

Quarantine(h, m) ==
  /\ published[m] # {}
  /\ quarantined' = quarantined \cup {m}
  /\ Begin(h, "Quarantine", m)
  /\ UNCHANGED <<published, yanked, deprecated>>

Release(h, m) ==
  /\ published[m] # {}
  /\ quarantined' = quarantined \ {m}
  /\ Begin(h, "Release", m)
  /\ UNCHANGED <<published, yanked, deprecated>>

-----------------------------------------------------------------------------
(* reindex.                                                                *)

ReadRow(w) ==
  /\ work[w].pc = "row"
  /\ work' = [work EXCEPT ![w].quarantined = work[w].mod \in quarantined,
                          ![w].deprecated = work[w].mod \in deprecated,
                          ![w].pc = "versions"]
  /\ UNCHANGED <<sourceVars, entry, missing, stale, restarts>>

ReadVersions(w) ==
  /\ work[w].pc = "versions"
  /\ work' = [work EXCEPT ![w].versions = Installable(work[w].mod), ![w].pc = "entry"]
  /\ UNCHANGED <<sourceVars, entry, missing, stale, restarts>>

\* Mutant: the old entry stays when there is nothing to put in its place.
WriteEntryOnly(w) ==
  LET j == work[w] IN
  /\ j.pc = "entry"
  /\ entry' = IF EntryOf(j.versions, j.quarantined, j.deprecated) = NoEntry THEN entry
              ELSE [entry EXCEPT ![j.mod] = EntryOf(j.versions, j.quarantined, j.deprecated)]
  /\ work' = IF w = Backfill THEN [work EXCEPT ![w] = NoJob] ELSE [work EXCEPT ![w].pc = "ok"]
  /\ stale' = IF j.alone THEN stale \ {j.mod} ELSE stale \cup {j.mod}
  /\ UNCHANGED <<sourceVars, missing, restarts>>

WriteEntry(w) ==
  LET j == work[w] IN
  /\ j.pc = "entry"
  /\ entry' = [entry EXCEPT ![j.mod] = EntryOf(j.versions, j.quarantined, j.deprecated)]
  /\ work' = IF w = Backfill THEN [work EXCEPT ![w] = NoJob] ELSE [work EXCEPT ![w].pc = "ok"]
  /\ stale' = IF j.alone THEN stale \ {j.mod} ELSE stale \cup {j.mod}
  /\ UNCHANGED <<sourceVars, missing, restarts>>

\* A statement fails.  Quarantine and Release answer with the error, which
\* the others only log -- but a request that was cancelled cannot write its
\* audit record either.
IndexFails(h) ==
  /\ Failures
  /\ work[h].pc \in Reading
  /\ \E answer \in (IF work[h].kind \in {"Quarantine", "Release"} THEN {"error"} ELSE {"ok", "error"}) :
       work' = [work EXCEPT ![h].pc = answer]
  /\ stale' = stale \cup {work[h].mod}
  /\ UNCHANGED <<sourceVars, entry, missing, restarts>>

Respond(h) ==
  /\ work[h].pc \in {"ok", "error"}
  /\ work' = [work EXCEPT ![h] = NoJob]
  /\ UNCHANGED <<sourceVars, entry, missing, stale, restarts>>

-----------------------------------------------------------------------------
(* Backfill, and the server going down and coming up again.                *)

\* Mutant: it looks at the modules that are in the index.
IndexedModules == {m \in Path : published[m] # {} /\ entry[m] # NoEntry}
UnindexedModules == {m \in Path : published[m] # {} /\ entry[m] = NoEntry}

BackfillList ==
  /\ work[Backfill].pc = "list"
  /\ missing' = UnindexedModules
  /\ work' = [work EXCEPT ![Backfill] = NoJob]
  /\ UNCHANGED <<sourceVars, entry, stale, restarts>>

BackfillNext ==
  /\ work[Backfill] = NoJob
  /\ \E m \in missing :
       /\ missing' = missing \ {m}
       /\ Begins(Backfill, "Backfill", m)
  /\ UNCHANGED <<sourceVars, entry, stale, restarts>>

\* Backfill stops at its first error, until the next start.
BackfillFails ==
  /\ Failures
  /\ work[Backfill].pc \in Reading
  /\ missing' = {}
  /\ work' = [work EXCEPT ![Backfill] = NoJob]
  /\ UNCHANGED <<sourceVars, entry, stale, restarts>>

Started == [w \in Worker |-> IF w = Backfill THEN [pc |-> "list"] ELSE NoJob]

ServerRestarts ==
  /\ restarts < MaxRestart
  /\ restarts' = restarts + 1
  /\ stale' = stale \cup {m \in Path : AtWork(m)}
  /\ work' = Started
  /\ missing' = {}
  /\ UNCHANGED <<sourceVars, entry>>

-----------------------------------------------------------------------------
Unindexed ==
  /\ published = [m \in Path |-> {}]
  /\ yanked = [m \in Path |-> {}]
  /\ deprecated = {}
  /\ quarantined = {}
  /\ entry = [m \in Path |-> NoEntry]
  /\ missing = {}
  /\ stale = {}
  /\ restarts = 0

SearchInit == Unindexed /\ work = Started

Request(h) ==
  \E m \in Path :
    \/ \E v \in Version : Publish(h, m, v) \/ Yank(h, m, v) \/ Unyank(h, m, v)
    \/ Deprecate(h, m)
    \/ Undeprecate(h, m)
    \/ Quarantine(h, m)
    \/ Release(h, m)

Reindex(w) == ReadRow(w) \/ ReadVersions(w) \/ WriteEntry(w)

BackfillStep == BackfillList \/ BackfillNext \/ BackfillFails

SearchNext ==
  \/ \E h \in Handler : Request(h) \/ IndexFails(h) \/ Respond(h)
  \/ \E w \in Worker : Reindex(w)
  \/ BackfillStep
  \/ ServerRestarts

SearchSpec == SearchInit /\ [][SearchNext]_searchVars

\* One at a time: a request changes nothing while anything is being reindexed.
Quiet == missing = {} /\ \A w \in Worker : work[w] = NoJob

OneAtATime ==
  \/ Quiet /\ \E h \in Handler : Request(h)
  \/ \E h \in Handler : IndexFails(h) \/ Respond(h)
  \/ \E w \in Worker : Reindex(w)
  \/ BackfillStep
  \/ ServerRestarts

SequentialSpec == SearchInit /\ [][OneAtATime]_searchVars

\* A goroutine that has a statement to run gets to run it.  Nothing makes a
\* client send a request, a statement fail or the server go down.
SearchFairness ==
  /\ \A w \in Worker : WF_searchVars(Reindex(w))
  /\ \A h \in Handler : WF_searchVars(Respond(h))
  /\ WF_searchVars(BackfillList)
  /\ WF_searchVars(BackfillNext)

-----------------------------------------------------------------------------
(* Properties.                                                             *)

SearchTypeOK ==
  /\ published \in [Path -> SUBSET Version]
  /\ yanked \in [Path -> SUBSET Version]
  /\ \A m \in Path : yanked[m] \subseteq published[m]
  /\ deprecated \cup quarantined \subseteq {m \in Path : published[m] # {}}
  /\ entry \in [Path -> Entry \cup {NoEntry}]
  /\ work \in [Worker -> Job \cup {NoJob, [pc |-> "list"]}]
  /\ missing \cup stale \subseteq Path
  /\ restarts \in 0..MaxRestart

IsCurrent(m) ==
  entry[m] = EntryOf(published[m] \ yanked[m], m \in quarantined, m \in deprecated)

\* When no request is reindexing a module, and the last one who did came to
\* the end and was alone, what search shows of it is what its tables say: its
\* latest installable version, and whether it is deprecated; nothing when it is
\* quarantined or everything is yanked.  It stays so until the next change,
\* also over a restart and its Backfill.
IndexIsCurrent == \A m \in Path : m \in stale \/ (\E h \in Handler : Reindexes(h, m)) \/ IsCurrent(m)

\* README, of quarantine: "A quarantined module is hidden from ... search"
\* -- and of several requests at the same time, one may be a quarantine.
HiddenFromSearch == \A m \in quarantined : AtWork(m) \/ entry[m] = NoEntry

\* An administrator who is told that the quarantine worked can rely on the
\* module no longer being found, though statements fail and the server goes
\* down: reindex's error is the answer of Quarantine.  (Unless somebody else
\* was at work on the module, or has been since.)
QuarantineWorked ==
  \A h \in Handler :
    (work[h].pc = "ok" /\ work[h].kind = "Quarantine" /\ work[h].alone) => entry[work[h].mod] = NoEntry

\* Search shows what the tables say, and administrators are told the truth.
RequestsAreIndexed == QuarantineWorked /\ IndexIsCurrent

=============================================================================

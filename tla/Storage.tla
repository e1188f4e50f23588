------------------------------ MODULE Storage ------------------------------
(***************************************************************************)
(* What is kept of a registry: its database, its store of zips, and the    *)
(* copies of both.  The server backs up its database into a directory,     *)
(* under the time, and removes all but the newest; it may stop while it    *)
(* does, and leave a file that is not whole.  An operator copies the store *)
(* with "blobs copy", to move it to a bucket, or to put it back, with a    *)
(* backup of the database, after the machine is lost.                      *)
(*                                                                         *)
(* A version is its zip's key.  The steps of publishing one are those of   *)
(* module Publishing, seen from here; a zip is never changed or removed.   *)
(***************************************************************************)
EXTENDS Integers, FiniteSetsExt

CONSTANTS ZipKey,      \* keys of zips that are published
          Keep,        \* -backup-keep
          LastBackup,  \* bound: the time of the last backup
          MaxStops     \* bound: how often the server stops

ASSUME StorageConstants == Keep \in Int /\ LastBackup \in Nat /\ MaxStops \in Nat

VARIABLES rows,    \* table versions
          store,   \* the zips that are in each store
          using,   \* the one the server was started with
          stored,  \* zips whose upload is stored and not yet recorded
          clock,
          files,   \* the backups in the directory
          backup,  \* what the goroutine that backs up is doing
          copy,    \* what "blobs copy" is doing
          away,    \* the versions of the database backup that was taken along, if one was
          stops

serving == <<rows, store, using, stored>>
storageVars == <<rows, store, using, stored, clock, files, backup, copy, away, stops>>

Store == {"directory", "bucket", "elsewhere"}
NoWork == [pc |-> "idle"]
File == [at : 0..LastBackup, whole : BOOLEAN, rows : SUBSET ZipKey]
Whole(fs) == {f \in fs : f.whole}

-----------------------------------------------------------------------------
(* Publishing: the zip is stored, then the version recorded.               *)

StoreUpload(z) ==
  /\ z \notin rows \cup stored
  /\ store' = [store EXCEPT ![using] = @ \cup {z}]
  /\ stored' = stored \cup {z}
  /\ UNCHANGED <<rows, using, clock, files, backup, copy, away, stops>>

RecordUpload(z) ==
  /\ z \in stored
  /\ rows' = rows \cup {z}
  /\ stored' = stored \ {z}
  /\ UNCHANGED <<store, using, clock, files, backup, copy, away, stops>>

-----------------------------------------------------------------------------
(* BackupTo.                                                               *)

\* Mutant: old backups are removed before there is a new one.
BackUpPruned ==
  /\ backup = NoWork
  /\ \A f \in files : f.at # clock
  /\ files' = {f \in files : Cardinality({g \in files : g.at >= f.at}) < Max({Keep, 1})}
                \cup {[at |-> clock, whole |-> FALSE, rows |-> rows]}
  /\ backup' = [pc |-> "writing", at |-> clock]
  /\ UNCHANGED <<serving, clock, copy, away, stops>>

\* VACUUM INTO writes what the database is now into a file that is not yet
\* there; another backup of the same second is refused.
BackUp ==
  /\ backup = NoWork
  /\ \A f \in files : f.at # clock
  /\ files' = files \cup {[at |-> clock, whole |-> FALSE, rows |-> rows]}
  /\ backup' = [pc |-> "writing", at |-> clock]
  /\ UNCHANGED <<serving, clock, copy, away, stops>>

BackUpEnds ==
  /\ backup.pc = "writing"
  /\ files' = {IF f.at = backup.at THEN [f EXCEPT !.whole = TRUE] ELSE f : f \in files}
  /\ backup' = [pc |-> "pruning"]
  /\ UNCHANGED <<serving, clock, copy, away, stops>>

\* The disk is full: what was written stays there.
BackUpFails ==
  /\ backup.pc = "writing"
  /\ backup' = NoWork
  /\ UNCHANGED <<serving, clock, files, copy, away, stops>>

\* Old backups are removed one by one, and the newest stays in any case.
AtLeastOne(n) == Max({n, 1})

Prune ==
  /\ backup.pc = "pruning"
  /\ IF Cardinality(files) > AtLeastOne(Keep)
     THEN /\ files' = {f \in files : \E g \in files : g.at < f.at}
          /\ backup' = backup
     ELSE files' = files /\ backup' = NoWork
  /\ UNCHANGED <<serving, clock, copy, away, stops>>

TimeGoesOn ==
  /\ clock < LastBackup
  /\ clock' = clock + 1
  /\ UNCHANGED <<serving, files, backup, copy, away, stops>>

-----------------------------------------------------------------------------
(* "gopherdexd blobs copy": Copy, and what it is for.                      *)

\* What the walk finds: every zip that is there when it begins; it may meet
\* those that come later, too, which makes no difference.
StartCopy(to) ==
  /\ copy = NoWork
  /\ copy' = [pc |-> "copying", to |-> to, left |-> store["directory"], begun |-> using]
  /\ UNCHANGED <<serving, clock, files, backup, away, stops>>

\* A zip that is there already is skipped.
CopyZip(z) ==
  /\ copy.pc = "copying" /\ z \in copy.left
  /\ store' = [store EXCEPT ![copy.to] = @ \cup {z}]
  /\ copy' = [copy EXCEPT !.left = @ \ {z}]
  /\ UNCHANGED <<rows, using, stored, clock, files, backup, away, stops>>

\* A zip that cannot be stored ends the copying, to be run again.
\* Mutant: it is left out.
LeaveOut(z) ==
  /\ copy.pc = "copying" /\ z \in copy.left
  /\ copy' = [copy EXCEPT !.left = @ \ {z}]
  /\ UNCHANGED <<serving, clock, files, backup, away, stops>>

CopyFails(z) ==
  /\ copy.pc = "copying" /\ z \in copy.left
  /\ copy' = NoWork
  /\ UNCHANGED <<serving, clock, files, backup, away, stops>>

CopyEnds ==
  /\ copy.pc = "copying" /\ copy.left = {}
  /\ copy' = [copy EXCEPT !.pc = "copied"]
  /\ UNCHANGED <<serving, clock, files, backup, away, stops>>

\* The zips are in the bucket, and the server is started with it.
Move ==
  /\ using = "directory"
  /\ copy.pc = "copied" /\ copy.to = "bucket"
  /\ using' = "bucket"
  /\ copy' = NoWork
  /\ stored' = {}
  /\ backup' = NoWork
  /\ UNCHANGED <<rows, store, clock, files, away, stops>>

\* The operator takes along the newest whole backup and then copies the
\* zips ("Also copy the blob directory"); a machine that is lost is made
\* from them again.  (A bucket is not lost with it.)
TakenAfter(f) == copy = NoWork

TakeAway(f) ==
  /\ f.whole
  /\ TakenAfter(f)
  /\ away = {}
  /\ away' = {f.rows}
  /\ UNCHANGED <<serving, clock, files, backup, copy, stops>>

RestoreCopy ==
  /\ using = "directory"
  /\ copy.pc = "copied" /\ copy.to = "elsewhere"
  /\ \E taken \in away : rows' = taken
  /\ store' = [store EXCEPT !["directory"] = store["elsewhere"]]
  /\ stored' = {}
  /\ files' = {} /\ backup' = NoWork
  /\ copy' = NoWork
  /\ away' = {}
  /\ UNCHANGED <<using, clock, stops>>

ForgetCopy ==
  /\ copy.pc = "copied"
  /\ copy' = NoWork
  /\ UNCHANGED <<serving, clock, files, backup, away, stops>>

ServerStops ==
  /\ stops < MaxStops
  /\ stops' = stops + 1
  /\ stored' = {}
  /\ backup' = NoWork
  /\ UNCHANGED <<rows, store, using, clock, files, copy, away>>

StorageInit ==
  /\ rows = {} /\ stored = {}
  /\ store = [s \in Store |-> {}]
  /\ using = "directory"
  /\ clock = 0
  /\ files = {}
  /\ backup = NoWork
  /\ copy = NoWork
  /\ away = {}
  /\ stops = 0

Publishes == \E z \in ZipKey : StoreUpload(z) \/ RecordUpload(z)
BacksUp == BackUp \/ BackUpEnds \/ BackUpFails \/ Prune \/ TimeGoesOn
Copies ==
  \/ \E to \in Store \ {"directory"} : StartCopy(to)
  \/ \E z \in ZipKey : CopyZip(z) \/ CopyFails(z)
  \/ CopyEnds \/ ForgetCopy
Restores == (\E f \in files : TakeAway(f)) \/ RestoreCopy

StorageNext == Publishes \/ BacksUp \/ Copies \/ Restores \/ Move \/ ServerStops

StorageSpec == StorageInit /\ [][StorageNext]_storageVars

-----------------------------------------------------------------------------
(* Properties.                                                             *)

StorageTypeOK ==
  /\ rows \subseteq ZipKey /\ stored \subseteq ZipKey
  /\ store \in [Store -> SUBSET ZipKey]
  /\ using \in {"directory", "bucket"}
  /\ clock \in 0..LastBackup
  /\ files \subseteq File
  /\ backup \in {NoWork, [pc |-> "pruning"]} \cup [pc : {"writing"}, at : 0..LastBackup]
  /\ copy \in {NoWork} \cup [pc : {"copying", "copied"}, to : Store, left : SUBSET ZipKey, begun : Store]
  /\ away \subseteq SUBSET ZipKey /\ \A v, w \in away : v = w
  /\ stops \in 0..MaxStops

\* Once there is a whole backup in the directory there is always one, though
\* files that are not whole count among those to keep -- until the machine
\* is lost, and its database back from the copy.
ABackupRemains == [][Whole(files) # {} /\ Whole(files') = {} => away # {} /\ away' = {}]_storageVars

\* Every version has its zip: in the directory, though the machine is lost
\* and made from its backup and its copy again while versions are published;
\* and in the bucket, once the directory was copied again after the move.
\* (Between the first copy and the move versions may be published whose
\* zips the bucket does not have.)  And a whole backup remains.
CopiedAgain == copy # NoWork /\ copy.pc = "copied" /\ copy.to = "bucket" /\ copy.begun = "bucket"
NothingStoredIsLost ==
  /\ []((using = "directory" \/ CopiedAgain) => rows \subseteq store[using])
  /\ ABackupRemains
=============================================================================

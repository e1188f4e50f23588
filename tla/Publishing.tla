----------------------------- MODULE Publishing -----------------------------
(***************************************************************************)
(* Publishing a version: Registry.Publish, step by step, beside every      *)
(* other handler of module Access and the administrators' quarantine.  A   *)
(* request reads what it needs in separate statements, stores the zip      *)
(* under a key made from its hash, and only then records the version in    *)
(* one transaction.  The server may go down between any two steps; what    *)
(* is in the tables and in the blob store stays.                           *)
(*                                                                         *)
(* Checks that read nothing but the request (the path, the version, the    *)
(* token's scope, the zip's own validity) are left out: a request that     *)
(* fails one of them is refused before it reads or changes any state.      *)
(***************************************************************************)
EXTENDS Access

CONSTANTS Upload,   \* upload requests the server may work on at a time
          Version,
          ZipFile,  \* module zips, byte for byte
          H1,       \* the hash the go command records: of a zip's files
          Sha,      \* the part of a zip's SHA-256 its key contains
          Empty     \* no zip, no version

H1s == {H1[z] : z \in ZipFile}
Shas == {Sha[z] : z \in ZipFile}
VersionKey == Module \X Version
BlobKey == Module \X Version \X Shas

\* That two zips never share the part of their hash in the key is taken on
\* trust, as the code does.  Access's coarse view of publishing is not used.
ASSUME PublishingConstants ==
  /\ DOMAIN H1 = ZipFile
  /\ DOMAIN Sha = ZipFile
  /\ \A y, z \in ZipFile : Sha[y] = Sha[z] => y = z
  /\ Empty \notin ZipFile /\ Empty \notin H1s
  /\ "Publish" \notin Operations

VARIABLES quarantined,  \* modules.quarantined_at
          version,      \* table versions: the hash and blob key of each
          blob,         \* the blob store
          upload        \* the handlers

storeVars == <<quarantined, version, blob>>
vars == <<accessVars, storeVars, upload>>

NoVersion == [h1 |-> Empty]
VersionRow == [h1 : H1s, key : BlobKey]
IsPublished(m, v) == version[m][v] # NoVersion

Done == {"published", "already", "conflict", "rejected", "failed"}
Step == {"quarantine", "role", "majors", "majorRole", "namespace", "lookup", "store", "commit", "reread"}

\* The role is checked, and the version is not recorded yet.
RoleChecked == {"majors", "majorRole", "namespace", "lookup", "store", "commit"}

NoUpload == [pc |-> "idle"]
Request == [pc : Step \cup Done, by : User, mod : Module, ver : Version, zip : ZipFile, majors : SUBSET Module]

\* Mutant: the key names the version only.
VersionKeyOf(u) == <<u.mod, u.ver, CHOOSE h \in Shas : TRUE>>

KeyOf(u) == <<u.mod, u.ver, Sha[u.zip]>>

-----------------------------------------------------------------------------
At(r, pc) == upload[r].pc = pc
GoTo(r, pc) == upload' = [upload EXCEPT ![r].pc = pc]

\* The request has its token and its form fields; the user's account was
\* read with the token, and nothing of it is read again.
Receive(r) ==
  /\ upload[r] = NoUpload
  /\ \E u \in account, m \in Module, v \in Version, z \in ZipFile :
       upload' = [upload EXCEPT ![r] =
         [pc |-> "quarantine", by |-> u, mod |-> m, ver |-> v, zip |-> z, majors |-> {}]]
  /\ UNCHANGED <<accessVars, storeVars>>

CheckQuarantine(r) ==
  /\ At(r, "quarantine")
  /\ GoTo(r, IF upload[r].mod \in quarantined THEN "rejected" ELSE "role")
  /\ UNCHANGED <<accessVars, storeVars>>

\* canPublish, first: the role on a module there already is.
CheckRole(r) ==
  LET u == upload[r] IN
  /\ At(r, "role")
  /\ GoTo(r, IF u.mod \notin module THEN "majors"
             ELSE IF Maintains(u.by, u.mod) THEN "lookup" ELSE "rejected")
  /\ UNCHANGED <<accessVars, storeVars>>

\* A new module: which major versions of it are there?
ReadMajors(r) ==
  LET found == MajorVersions(upload[r].mod) \ quarantined IN
  /\ At(r, "majors")
  /\ upload' = [upload EXCEPT ![r].majors = found,
                              ![r].pc = IF found = {} THEN "namespace" ELSE "majorRole"]
  /\ UNCHANGED <<accessVars, storeVars>>

\* The role on one of them is enough; they are read one after the other.
CheckMajorRole(r) ==
  LET u == upload[r] IN
  /\ At(r, "majorRole")
  /\ \E m \in u.majors :
       IF Maintains(u.by, m)
         THEN GoTo(r, "lookup")
         ELSE upload' = [upload EXCEPT ![r].majors = @ \ {m},
                           ![r].pc = IF u.majors = {m} THEN "rejected" ELSE @]
  /\ UNCHANGED <<accessVars, storeVars>>

CheckNamespace(r) ==
  LET u == upload[r] IN
  /\ At(r, "namespace")
  /\ GoTo(r, IF IsOfNamespace(u.by, u.mod) THEN "lookup" ELSE "rejected")
  /\ UNCHANGED <<accessVars, storeVars>>

\* publishedVersion does not see the versions of a quarantined module.
Visible(u) == IsPublished(u.mod, u.ver) /\ u.mod \notin quarantined
\* Mutant: whatever was published, the answer is that it was.
SameAnyway(u) == "already"
SameOrConflict(u) == IF version[u.mod][u.ver].h1 = H1[u.zip] THEN "already" ELSE "conflict"

Lookup(r) ==
  LET u == upload[r] IN
  /\ At(r, "lookup")
  /\ GoTo(r, IF Visible(u) THEN SameOrConflict(u) ELSE "store")
  /\ UNCHANGED <<accessVars, storeVars>>

\* Mutant: an error of Put is ignored.
StoreNothing(r) ==
  /\ At(r, "store")
  /\ GoTo(r, "commit")
  /\ UNCHANGED <<accessVars, storeVars>>

\* Blobs.Put links the zip into place unless the key is taken, and a taken
\* key is taken for the same bytes.
StoreZip(r) ==
  LET u == upload[r] IN
  /\ At(r, "store")
  /\ blob' = IF blob[KeyOf(u)] = Empty THEN [blob EXCEPT ![KeyOf(u)] = u.zip] ELSE blob
  /\ GoTo(r, "commit")
  /\ UNCHANGED <<accessVars, quarantined, version>>

\* Mutants: the transaction trusts what the handler read before it.
UnderReviewOnce(u) == ~IsPublished(u.mod, u.ver)
NewOnce(u) == u.mod \notin quarantined

\* What the transaction looks at once more.
StillNew(u) == u.mod \notin quarantined /\ ~IsPublished(u.mod, u.ver)

\* The transaction.  Its foreign keys need the account.
Record(r) ==
  LET u == upload[r] IN
  /\ At(r, "commit")
  /\ u.by \in account
  /\ StillNew(u)
  /\ CreateModuleRow(u.by, u.mod)
  /\ version' = [version EXCEPT ![u.mod][u.ver] = [h1 |-> H1[u.zip], key |-> KeyOf(u)]]
  /\ GoTo(r, "published")
  /\ UNCHANGED <<account, orgVars, teamVars, session, quarantined, blob>>

\* It rolls back: the module was quarantined while the upload was being
\* checked, somebody else published the version, or the account is gone.
RollBack(r) ==
  LET u == upload[r] IN
  /\ At(r, "commit")
  /\ \/ u.mod \in quarantined /\ GoTo(r, "rejected")
     \/ u.mod \notin quarantined /\ IsPublished(u.mod, u.ver) /\ GoTo(r, "reread")
     \/ u.by \notin account /\ ~IsPublished(u.mod, u.ver) /\ GoTo(r, "failed")
  /\ UNCHANGED <<accessVars, storeVars>>

Reread(r) ==
  LET u == upload[r] IN
  /\ At(r, "reread")
  /\ GoTo(r, IF Visible(u) THEN SameOrConflict(u) ELSE "failed")
  /\ UNCHANGED <<accessVars, storeVars>>

\* An error of the database or the blob store, or the client hanging up.
Fail(r) ==
  /\ upload[r].pc \in Step
  /\ GoTo(r, "failed")
  /\ UNCHANGED <<accessVars, storeVars>>

\* The response is written.
Respond(r) ==
  /\ upload[r].pc \in Done
  /\ upload' = [upload EXCEPT ![r] = NoUpload]
  /\ UNCHANGED <<accessVars, storeVars>>

-----------------------------------------------------------------------------
\* Mutant: nobody looks whether there is such a module.
QuarantineAny(m) ==
  /\ "Quarantine" \in Operations
  /\ quarantined' = quarantined \cup {m}
  /\ UNCHANGED <<accessVars, version, blob, upload>>

Quarantine(m) ==
  /\ "Quarantine" \in Operations
  /\ m \in module
  /\ quarantined' = quarantined \cup {m}
  /\ UNCHANGED <<accessVars, version, blob, upload>>

Release(m) ==
  /\ m \in quarantined
  /\ quarantined' = quarantined \ {m}
  /\ UNCHANGED <<accessVars, version, blob, upload>>

\* The server goes down and comes up again: every handler is gone.
Crash ==
  /\ upload' = [r \in Upload |-> NoUpload]
  /\ session' = [s \in Session |-> Idle]
  /\ UNCHANGED <<tables, storeVars>>

-----------------------------------------------------------------------------
PublishingInit ==
  /\ Init
  /\ quarantined = {}
  /\ version = [m \in Module |-> [v \in Version |-> NoVersion]]
  /\ blob = [k \in BlobKey |-> Empty]
  /\ upload = [r \in Upload |-> NoUpload]

UploadStep(r) ==
  \/ Receive(r)
  \/ CheckQuarantine(r)
  \/ CheckRole(r)
  \/ ReadMajors(r)
  \/ CheckMajorRole(r)
  \/ CheckNamespace(r)
  \/ Lookup(r)
  \/ StoreZip(r)
  \/ Record(r)
  \/ RollBack(r)
  \/ Reread(r)
  \/ Fail(r)
  \/ Respond(r)

AccessStep == AccessNext /\ UNCHANGED <<storeVars, upload>>

Next ==
  \/ \E r \in Upload : UploadStep(r)
  \/ \E m \in Module : Quarantine(m) \/ Release(m)
  \/ AccessStep
  \/ Crash

Spec == PublishingInit /\ [][Next]_vars

\* Nobody comes between the check of an upload's role and its transaction:
\* nobody else creates its module; nobody takes its user's access, unless the
\* account is deleted; and who may publish a new module because of another
\* major version is of its namespace, and no collaborator from outside.
UploadsUndisturbed ==
  \A r \in Upload :
    LET u == upload[r] IN
    /\ (u.pc \in RoleChecked /\ upload'[r] = u) =>
         /\ u.mod \in module' => u.mod \in module
         /\ u.by \in account' => /\ Maintains(u.by, u.mod) => Maintains(u.by, u.mod)'
                                 /\ IsOfNamespace(u.by, u.mod) => IsOfNamespace(u.by, u.mod)'
    /\ (u.pc = "majorRole" /\ upload'[r].pc = "lookup") => IsOfNamespace(u.by, u.mod)

OrderlySpec == PublishingInit /\ [][Next /\ UploadsUndisturbed]_vars

-----------------------------------------------------------------------------
(* Properties.                                                             *)

PublishingTypeOK ==
  /\ quarantined \subseteq module
  /\ version \in [Module -> [Version -> VersionRow \cup {NoVersion}]]
  /\ blob \in [BlobKey -> ZipFile \cup {Empty}]
  /\ upload \in [Upload -> Request \cup {NoUpload}]

\* Every version recorded has its zip in the blob store, under the key the
\* row names, and the zip has the hash the row records -- whatever crashes,
\* fails or runs at the same time (Registry.Zip serves the one by the other).
VersionsHaveTheirZip ==
  \A m \in Module, v \in Version :
    IsPublished(m, v) =>
      LET row == version[m][v] IN
      /\ blob[row.key] # Empty
      /\ H1[blob[row.key]] = row.h1

\* Why it holds: the bytes behind a key are those its hash names, and a
\* request that is about to record its version has stored its zip.
ZipsAreStoredFirst ==
  /\ VersionsHaveTheirZip
  /\ \A k \in BlobKey : blob[k] # Empty => k[3] = Sha[blob[k]]
  /\ \A r \in Upload : At(r, "commit") => blob[KeyOf(upload[r])] # Empty

\* A published version never changes, and neither does its zip
\* (README: "Versions are immutable"; the go command keeps its hash).
VersionsAreImmutable ==
  [][\A m \in Module, v \in Version :
       IsPublished(m, v) => /\ version'[m][v] = version[m][v]
                            /\ blob'[version[m][v].key] = blob[version[m][v].key]]_vars

\* A module under review gains no version, though an upload may have passed
\* every check before the quarantine began.
NothingPublishedUnderReview ==
  [][\A m \in quarantined : version'[m] = version[m]]_vars

\* Whoever publishes a version has a role on its module once it is there: an
\* upload that loses the race to create the module needs one all the same.
\* True of OrderlySpec.
PublishersHoldARole ==
  [][\A r \in Upload :
       (At(r, "commit") /\ upload'[r].pc = "published")
         => Maintains(upload[r].by, upload[r].mod)']_vars

\* The first version of another major version of a module is published by
\* somebody who may publish the module, as the comment in canPublish asks:
\* "it needs the same rights as a release of it".
NewMajorsNeedARole ==
  [][\A m \in module' \ module, r \in Upload :
       (upload[r] # NoUpload /\ upload[r].mod = m /\ At(r, "commit") /\ upload'[r].pc = "published")
         => MajorVersions(m) = {} \/ \E n \in MajorVersions(m) : Maintains(upload[r].by, n)]_vars

\* Publishing implements the registers of WriteOnce: the answer of each
\* upload is the one that a single moment of the upload decided.
Registers == INSTANCE WriteOnce WITH
  Key <- VersionKey,
  Content <- H1s,
  content <- [k \in VersionKey |-> version[k[1]][k[2]].h1],
  call <- [r \in Upload |->
             IF upload[r] = NoUpload THEN [answer |-> "none"]
             ELSE [key |-> <<upload[r].mod, upload[r].ver>>,
                   content |-> H1[upload[r].zip],
                   answer |-> IF upload[r].pc \in Done THEN upload[r].pc ELSE "pending"]]
ImplementsRegisters == Registers!Spec

=============================================================================

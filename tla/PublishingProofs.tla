-------------------------- MODULE PublishingProofs --------------------------
(***************************************************************************)
(* Theorems about Publishing, for any users, modules, versions, zips and   *)
(* requests: the type invariant, that every version recorded has its zip,  *)
(* that versions are immutable and that a module under review gains none,  *)
(* that publishers hold a role, and that publishing implements the         *)
(* registers of WriteOnce.  And about the command line, which publishes:   *)
(* for any repository, any moves of its tags, and any number of commands   *)
(* at the same time.                                                       *)
(***************************************************************************)
EXTENDS Registry, AccessProofs

TypeInv == AccessTypeOK /\ PublishingTypeOK
Inv == TypeInv /\ ZipsAreStoredFirst

\* A request at a step has been received, and answers are not steps.
LEMMA AtWork ==
  ASSUME PublishingTypeOK, NEW r \in Upload, upload[r].pc \in Step \cup Done
  PROVE  upload[r] \in Request
  BY DEF PublishingTypeOK, NoUpload, Step, Done

\* Going to a step or an answer keeps a request a request.
LEMMA GoToType ==
  ASSUME PublishingTypeOK, NEW r \in Upload, upload[r] \in Request,
         NEW pc \in Step \cup Done, GoTo(r, pc)
  PROVE  upload' \in [Upload -> Request \cup {NoUpload}]
  <1>1. [upload[r] EXCEPT !.pc = pc] \in Request
    BY DEF Request
  <1>2. upload' = [upload EXCEPT ![r] = [upload[r] EXCEPT !.pc = pc]]
    BY DEF GoTo
  <1> QED
    BY <1>1, <1>2 DEF PublishingTypeOK

\* The key of a zip is a key of the blob store.
LEMMA KeyType ==
  ASSUME NEW u \in Request
  PROVE  /\ KeyOf(u) \in BlobKey
         /\ KeyOf(u)[3] = Sha[u.zip]
         /\ [h1 |-> H1[u.zip], key |-> KeyOf(u)] \in VersionRow
  BY DEF Request, KeyOf, BlobKey, Shas, VersionRow, H1s

\* A step of an upload keeps the tables, the blobs and the requests well formed.
LEMMA UploadStepType ==
  ASSUME TypeInv, NEW r \in Upload, UploadStep(r)
  PROVE  TypeInv'
  <1> USE DEF TypeInv
  <1>0. ASSUME UNCHANGED <<accessVars, storeVars>>, upload' \in [Upload -> Request \cup {NoUpload}]
        PROVE  TypeInv'
    BY <1>0 DEF AccessTypeOK, PublishingTypeOK, accessVars, tables, orgVars, moduleVars, teamVars, storeVars
  <1>1. CASE Receive(r)
    <2>1. upload' \in [Upload -> Request \cup {NoUpload}]
      <3>1. PICK u \in account, m \in Module, v \in Version, z \in ZipFile :
              upload' = [upload EXCEPT ![r] =
                [pc |-> "quarantine", by |-> u, mod |-> m, ver |-> v, zip |-> z, majors |-> {}]]
        BY <1>1 DEF Receive
      <3>2. [pc |-> "quarantine", by |-> u, mod |-> m, ver |-> v, zip |-> z, majors |-> {}] \in Request
        BY DEF Request, Step, AccessTypeOK
      <3> QED
        BY <3>1, <3>2 DEF PublishingTypeOK
    <2> QED
      BY <1>0, <1>1, <2>1 DEF Receive
  <1>2. ASSUME NEW pc \in Step \cup Done, GoTo(r, pc), upload[r] \in Request
        PROVE  upload' \in [Upload -> Request \cup {NoUpload}]
    BY <1>2, GoToType
  <1>3. CASE CheckQuarantine(r)
    <2>1. upload[r] \in Request
      BY <1>3, AtWork DEF CheckQuarantine, At, Step
    <2>2. \E pc \in Step \cup Done : GoTo(r, pc)
      BY <1>3 DEF CheckQuarantine, Step, Done
    <2> QED
      BY <1>0, <1>2, <1>3, <2>1, <2>2 DEF CheckQuarantine
  <1>4. CASE CheckRole(r)
    <2>1. upload[r] \in Request
      BY <1>4, AtWork DEF CheckRole, At, Step
    <2>2. \E pc \in Step \cup Done : GoTo(r, pc)
      BY <1>4 DEF CheckRole, Step, Done
    <2> QED
      BY <1>0, <1>2, <1>4, <2>1, <2>2 DEF CheckRole
  <1>5. CASE ReadMajors(r)
    <2> DEFINE found == MajorVersions(upload[r].mod) \ quarantined
               next == [upload[r] EXCEPT !.majors = found, !.pc = IF found = {} THEN "namespace" ELSE "majorRole"]
    <2>1. upload[r] \in Request
      BY <1>5, AtWork DEF ReadMajors, At, Step
    <2>2. next \in Request
      BY <2>1 DEF Request, Step, MajorVersions, AccessTypeOK
    <2>3. upload' = [upload EXCEPT ![r] = next]
      BY <1>5 DEF ReadMajors
    <2>4. upload' \in [Upload -> Request \cup {NoUpload}]
      BY <2>2, <2>3 DEF PublishingTypeOK
    <2> QED
      BY <1>0, <1>5, <2>4 DEF ReadMajors
  <1>6. CASE CheckMajorRole(r)
    <2>1. upload[r] \in Request
      BY <1>6, AtWork DEF CheckMajorRole, At, Step
    <2>2. PICK m \in upload[r].majors :
            IF Maintains(upload[r].by, m)
              THEN GoTo(r, "lookup")
              ELSE upload' = [upload EXCEPT ![r].majors = @ \ {m},
                                ![r].pc = IF upload[r].majors = {m} THEN "rejected" ELSE @]
      BY <1>6 DEF CheckMajorRole
    <2>3. upload' \in [Upload -> Request \cup {NoUpload}]
      <3>1. CASE Maintains(upload[r].by, m)
        BY <1>2, <2>1, <2>2, <3>1 DEF Step
      <3>2. CASE ~Maintains(upload[r].by, m)
        <4> DEFINE next == [upload[r] EXCEPT !.majors = @ \ {m},
                              !.pc = IF upload[r].majors = {m} THEN "rejected" ELSE @]
        <4>1. next \in Request
          BY <2>1 DEF Request, Done
        <4>2. upload' = [upload EXCEPT ![r] = next]
          BY <2>2, <3>2
        <4> QED
          BY <4>1, <4>2 DEF PublishingTypeOK
      <3> QED
        BY <3>1, <3>2
    <2> QED
      BY <1>0, <1>6, <2>3 DEF CheckMajorRole
  <1>7. CASE CheckNamespace(r)
    <2>1. upload[r] \in Request
      BY <1>7, AtWork DEF CheckNamespace, At, Step
    <2>2. \E pc \in Step \cup Done : GoTo(r, pc)
      BY <1>7 DEF CheckNamespace, Step, Done
    <2> QED
      BY <1>0, <1>2, <1>7, <2>1, <2>2 DEF CheckNamespace
  <1>8. CASE Lookup(r)
    <2>1. upload[r] \in Request
      BY <1>8, AtWork DEF Lookup, At, Step
    <2>2. \E pc \in Step \cup Done : GoTo(r, pc)
      BY <1>8 DEF Lookup, SameOrConflict, Step, Done
    <2> QED
      BY <1>0, <1>2, <1>8, <2>1, <2>2 DEF Lookup
  <1>9. CASE StoreZip(r)
    <2>1. upload[r] \in Request
      BY <1>9, AtWork DEF StoreZip, At, Step
    <2>2. upload' \in [Upload -> Request \cup {NoUpload}]
      BY <1>2, <1>9, <2>1 DEF StoreZip, Step
    <2>3. upload[r].zip \in ZipFile
      BY <2>1 DEF Request
    <2>4. blob' \in [BlobKey -> ZipFile \cup {Empty}]
      BY <1>9, <2>3 DEF StoreZip, PublishingTypeOK
    <2> QED
      BY <1>9, <2>2, <2>4 DEF StoreZip, AccessTypeOK, PublishingTypeOK, accessVars, tables, orgVars,
        moduleVars, teamVars
  <1>10. CASE Record(r)
    <2>1. upload[r] \in Request
      BY <1>10, AtWork DEF Record, At, Step
    <2>2. upload' \in [Upload -> Request \cup {NoUpload}]
      BY <1>2, <1>10, <2>1 DEF Record, Done
    <2>3. upload[r].by \in User /\ upload[r].mod \in Module /\ upload[r].ver \in Version
      BY <2>1 DEF Request
    <2>4. module' \subseteq Module /\ role' \in [Module -> [User -> ModuleRows]] /\ quarantined \subseteq module'
      BY <1>10, <2>3, CreateModuleType DEF Record, CreateModuleRow, PublishingTypeOK
    <2>5. version' \in [Module -> [Version -> VersionRow \cup {NoVersion}]]
      BY <1>10, <2>1, <2>3, KeyType DEF Record, PublishingTypeOK
    <2> QED
      BY <1>10, <2>2, <2>4, <2>5 DEF Record, AccessTypeOK, PublishingTypeOK, orgVars, teamVars, ModuleRows
  <1>11. CASE RollBack(r)
    <2>1. upload[r] \in Request
      BY <1>11, AtWork DEF RollBack, At, Step
    <2>2. \E pc \in Step \cup Done : GoTo(r, pc)
      BY <1>11 DEF RollBack, Step, Done
    <2> QED
      BY <1>0, <1>2, <1>11, <2>1, <2>2 DEF RollBack
  <1>12. CASE Reread(r)
    <2>1. upload[r] \in Request
      BY <1>12, AtWork DEF Reread, At, Step
    <2>2. \E pc \in Step \cup Done : GoTo(r, pc)
      BY <1>12 DEF Reread, SameOrConflict, Step, Done
    <2> QED
      BY <1>0, <1>2, <1>12, <2>1, <2>2 DEF Reread
  <1>13. CASE Fail(r)
    <2>1. upload[r] \in Request
      BY <1>13, AtWork DEF Fail
    <2>2. \E pc \in Step \cup Done : GoTo(r, pc)
      BY <1>13 DEF Fail, Done
    <2> QED
      BY <1>0, <1>2, <1>13, <2>1, <2>2 DEF Fail
  <1>14. CASE Respond(r)
    <2>1. upload' \in [Upload -> Request \cup {NoUpload}]
      BY <1>14 DEF Respond, PublishingTypeOK
    <2> QED
      BY <1>0, <1>14, <2>1 DEF Respond
  <1> QED
    BY <1>1, <1>3, <1>4, <1>5, <1>6, <1>7, <1>8, <1>9, <1>10, <1>11, <1>12, <1>13, <1>14 DEF UploadStep

\* A step of the tables of module Access never takes a module away.
LEMMA ModulesStay ==
  ASSUME AccessNext
  PROVE  module \subseteq module'
  <1>1. ASSUME NEW s \in Session, CheckStep(s)
        PROVE  module' = module
    BY <1>1 DEF CheckStep, Check, CheckSetCollaborator, CheckRemoveCollaborator, CheckSetOrgMember,
      CheckRemoveOrgMember, CheckSetMemberAccess, CheckCreateTeam, CheckDeleteTeam, CheckAddTeamMember,
      CheckRemoveTeamMember, CheckSetTeamModule, CheckRemoveTeamModule, CheckPublish, CheckDeleteAccount,
      tables, moduleVars
  <1>2. ASSUME NEW s \in Session, CommitStep(s)
        PROVE  module \subseteq module'
    BY <1>2 DEF CommitStep, SetCollaborator, RemoveCollaborator, SetOrgMember, RemoveOrgMember,
      SetMemberAccess, CreateTeam, DeleteTeam, AddTeamMember, RemoveTeamMember, SetTeamModule,
      RemoveTeamModule, Publish, CreateModuleRow, DeleteAccount, GiveUp, tables, moduleVars
  <1>3. ASSUME NEW u \in User, UserStep(u)
        PROVE  module' = module
    BY <1>3 DEF UserStep, LeaveModule, AcceptModule, DeclineModule, CreateOrg, LeaveOrg, AcceptOrg,
      DeclineOrg, moduleVars
  <1> QED
    BY <1>1, <1>2, <1>3 DEF AccessNext

\* Every step keeps the tables, the blobs and the requests well formed.
LEMMA NextType ==
  ASSUME TypeInv, [Next]_vars
  PROVE  TypeInv'
  <1> USE DEF TypeInv
  <1>1. ASSUME NEW r \in Upload, UploadStep(r)
        PROVE  TypeInv'
    BY <1>1, UploadStepType
  <1>2. ASSUME NEW m \in Module, Quarantine(m) \/ Release(m)
        PROVE  TypeInv'
    BY <1>2 DEF Quarantine, Release, AccessTypeOK, PublishingTypeOK, accessVars, tables, orgVars,
      moduleVars, teamVars
  <1>3. CASE AccessStep
    <2>1. AccessTypeOK'
      BY <1>3, AccessStepType DEF AccessStep
    <2>2. module \subseteq module'
      BY <1>3, ModulesStay DEF AccessStep
    <2> QED
      BY <1>3, <2>1, <2>2 DEF AccessStep, PublishingTypeOK, storeVars
  <1>4. CASE Crash
    BY <1>4 DEF Crash, AccessTypeOK, PublishingTypeOK, tables, orgVars, moduleVars, teamVars, storeVars
  <1>5. CASE UNCHANGED vars
    BY <1>5 DEF vars, AccessTypeOK, PublishingTypeOK, accessVars, tables, orgVars, moduleVars,
      teamVars, storeVars
  <1> QED
    BY <1>1, <1>2, <1>3, <1>4, <1>5 DEF Next

\* The tables, the blobs and the requests start well formed.
LEMMA PublishingInitType ==
  ASSUME PublishingInit
  PROVE  TypeInv
  BY AccessInitType DEF PublishingInit, TypeInv, PublishingTypeOK

\* The state of publishing is well formed in every state.
THEOREM PublishingTypes == Spec => []PublishingTypeOK
  <1>1. PublishingInit => TypeInv
    BY PublishingInitType
  <1>2. TypeInv /\ [Next]_vars => TypeInv'
    BY NextType
  <1>3. TypeInv => PublishingTypeOK
    BY DEF TypeInv
  <1> QED
    BY <1>1, <1>2, <1>3, PTL DEF Spec

-----------------------------------------------------------------------------
(* Versions have their zips.                                               *)

\* Nothing is ever deleted from the blob store, and a version row is written
\* only where there was none: by the request that is at its transaction.
LEMMA StoreGrows ==
  ASSUME TypeInv, [Next]_vars
  PROVE  /\ \A k \in BlobKey : blob[k] # Empty => blob'[k] = blob[k]
         /\ \A m \in Module, v \in Version : IsPublished(m, v) => version'[m][v] = version[m][v]
         /\ \A m \in quarantined : version'[m] = version[m]
  <1>1. ASSUME UNCHANGED <<version, blob>>
        PROVE  /\ \A k \in BlobKey : blob[k] # Empty => blob'[k] = blob[k]
               /\ \A m \in Module, v \in Version : IsPublished(m, v) => version'[m][v] = version[m][v]
               /\ \A m \in quarantined : version'[m] = version[m]
    BY <1>1
  <1>2. ASSUME NEW r \in Upload, UploadStep(r), ~StoreZip(r), ~Record(r)
        PROVE  UNCHANGED <<version, blob>>
    BY <1>2 DEF UploadStep, Receive, CheckQuarantine, CheckRole, ReadMajors, CheckMajorRole,
      CheckNamespace, Lookup, RollBack, Reread, Fail, Respond, storeVars
  <1>3. ASSUME NEW r \in Upload, StoreZip(r)
        PROVE  /\ \A k \in BlobKey : blob[k] # Empty => blob'[k] = blob[k]
               /\ UNCHANGED version
    BY <1>3 DEF StoreZip, TypeInv, PublishingTypeOK
  <1>4. ASSUME NEW r \in Upload, Record(r)
        PROVE  /\ UNCHANGED blob
               /\ \A m \in Module, v \in Version : IsPublished(m, v) => version'[m][v] = version[m][v]
               /\ \A m \in quarantined : version'[m] = version[m]
    BY <1>4 DEF Record, StillNew, IsPublished, TypeInv, AccessTypeOK, PublishingTypeOK
  <1>5. ASSUME NEW m \in Module, Quarantine(m) \/ Release(m)
        PROVE  UNCHANGED <<version, blob>>
    BY <1>5 DEF Quarantine, Release
  <1>6. CASE AccessStep \/ Crash \/ UNCHANGED vars
    BY <1>1, <1>6 DEF AccessStep, Crash, vars, storeVars
  <1> QED
    BY <1>1, <1>2, <1>3, <1>4, <1>5, <1>6 DEF Next

\* A request that is at its transaction has been there, or has just stored
\* its zip.
LEMMA CommitAfterStore ==
  ASSUME TypeInv, [Next]_vars, NEW q \in Upload, upload'[q].pc = "commit"
  PROVE  \/ upload'[q] = upload[q]
         \/ StoreZip(q) /\ KeyOf(upload'[q]) = KeyOf(upload[q])
  <1> USE DEF TypeInv, PublishingTypeOK
  <1>1. ASSUME NEW r \in Upload, UploadStep(r), ~StoreZip(r)
        PROVE  upload'[q] = upload[q]
    <2>1. CASE q = r
      <3>1. upload'[r].pc # "commit"
        <4>1. CASE Receive(r)
          BY <4>1 DEF Receive
        <4>2. ASSUME CheckQuarantine(r) \/ CheckRole(r) \/ CheckNamespace(r) \/ Lookup(r) \/ Record(r)
                       \/ RollBack(r) \/ Reread(r) \/ Fail(r)
              PROVE  upload'[r].pc # "commit"
          <5>1. \E pc \in (Step \cup Done) \ {"commit"} : GoTo(r, pc)
            BY <4>2 DEF CheckQuarantine, CheckRole, CheckNamespace, Lookup, SameOrConflict, Record,
              RollBack, Reread, Fail, Step, Done
          <5>2. upload[r] \in Request
            BY <4>2, AtWork DEF CheckQuarantine, CheckRole, CheckNamespace, Lookup, Record, RollBack,
              Reread, Fail, At, Step
          <5> QED
            BY <5>1, <5>2 DEF GoTo, Request
        <4>5. CASE Respond(r)
          BY <4>5 DEF Respond, NoUpload
        <4>3. ASSUME ReadMajors(r)
              PROVE  upload'[r].pc # "commit"
          BY <4>3, AtWork DEF ReadMajors, At, Request, Step
        <4>4. ASSUME CheckMajorRole(r)
              PROVE  upload'[r].pc # "commit"
          BY <4>4, AtWork DEF CheckMajorRole, GoTo, At, Request, Step
        <4> QED
          BY <1>1, <4>1, <4>2, <4>3, <4>4, <4>5 DEF UploadStep
      <3> QED
        BY <2>1, <3>1
    <2>2. CASE q # r
      BY <1>1, <2>2 DEF UploadStep, Receive, CheckQuarantine, CheckRole, ReadMajors, CheckMajorRole,
        CheckNamespace, Lookup, Record, RollBack, Reread, Fail, Respond, GoTo
    <2> QED
      BY <2>1, <2>2
  <1>2. ASSUME NEW r \in Upload, StoreZip(r)
        PROVE  \/ upload'[q] = upload[q]
               \/ StoreZip(q) /\ KeyOf(upload'[q]) = KeyOf(upload[q])
    BY <1>2, AtWork DEF StoreZip, GoTo, KeyOf, At, Request, Step
  <1>3. ASSUME NEW m \in Module, Quarantine(m) \/ Release(m)
        PROVE  upload' = upload
    BY <1>3 DEF Quarantine, Release
  <1>4. CASE AccessStep \/ UNCHANGED vars
    BY <1>4 DEF AccessStep, vars
  <1>5. CASE Crash
    BY <1>5 DEF Crash, NoUpload
  <1> QED
    BY <1>1, <1>2, <1>3, <1>4, <1>5 DEF Next

\* A version row that was not there is that of a request at its transaction.
LEMMA NewRows ==
  ASSUME TypeInv, [Next]_vars, NEW m \in Module, NEW v \in Version,
         version'[m][v] # version[m][v]
  PROVE  \E r \in Upload :
           /\ Record(r)
           /\ upload[r] \in Request
           /\ version'[m][v] = [h1 |-> H1[upload[r].zip], key |-> KeyOf(upload[r])]
  <1>1. PICK r \in Upload : UploadStep(r)
    BY DEF Next, Quarantine, Release, AccessStep, Crash, vars, storeVars
  <1>2. Record(r)
    BY <1>1 DEF UploadStep, Receive, CheckQuarantine, CheckRole, ReadMajors, CheckMajorRole,
      CheckNamespace, Lookup, StoreZip, RollBack, Reread, Fail, Respond, storeVars
  <1>3. upload[r] \in Request
    BY <1>2, AtWork DEF Record, At, Step, TypeInv
  <1> QED
    BY <1>2, <1>3 DEF Record, TypeInv, PublishingTypeOK

\* The strengthening is inductive: what a key's hash names is what is there,
\* and nobody comes to their transaction without their zip.
LEMMA ZipsStep ==
  ASSUME Inv, [Next]_vars
  PROVE  ZipsAreStoredFirst'
  <1> USE DEF Inv
  <1>0. /\ \A k \in BlobKey : blob[k] # Empty => blob'[k] = blob[k]
        /\ TypeInv'
    BY StoreGrows, NextType
  <1>1. ASSUME NEW k \in BlobKey, blob'[k] # Empty
        PROVE  k[3] = Sha[blob'[k]]
    <2>1. CASE blob[k] # Empty
      BY <1>0, <2>1 DEF ZipsAreStoredFirst
    <2>2. CASE blob[k] = Empty
      <3>1. PICK r \in Upload : StoreZip(r)
        BY <1>1, <2>2 DEF Next, UploadStep, Receive, CheckQuarantine, CheckRole, ReadMajors, CheckMajorRole,
          CheckNamespace, Lookup, Record, RollBack, Reread, Fail, Respond, Quarantine, Release, AccessStep,
          Crash, vars, storeVars
      <3>2. upload[r] \in Request
        BY <3>1, AtWork DEF StoreZip, At, Step, TypeInv
      <3>3. k = KeyOf(upload[r]) /\ blob'[k] = upload[r].zip
        BY <1>1, <2>2, <3>1 DEF StoreZip, TypeInv, PublishingTypeOK
      <3> QED
        BY <3>2, <3>3, KeyType
    <2> QED
      BY <2>1, <2>2
  <1>2. ASSUME NEW m \in Module, NEW v \in Version, version'[m][v] # NoVersion
        PROVE  /\ blob'[version'[m][v].key] # Empty
               /\ H1[blob'[version'[m][v].key]] = version'[m][v].h1
    <2>1. CASE version'[m][v] = version[m][v]
      <3>1. version[m][v] \in VersionRow
        BY <1>2, <2>1 DEF TypeInv, PublishingTypeOK
      <3>2. version[m][v].key \in BlobKey
        BY <3>1 DEF VersionRow
      <3>3. IsPublished(m, v)
        BY <1>2, <2>1 DEF IsPublished
      <3>4. /\ blob[version[m][v].key] # Empty
            /\ H1[blob[version[m][v].key]] = version[m][v].h1
        BY <3>3 DEF ZipsAreStoredFirst, VersionsHaveTheirZip
      <3> QED
        BY <1>0, <2>1, <3>2, <3>4
    <2>2. CASE version'[m][v] # version[m][v]
      <3>1. PICK r \in Upload :
              /\ Record(r)
              /\ upload[r] \in Request
              /\ version'[m][v] = [h1 |-> H1[upload[r].zip], key |-> KeyOf(upload[r])]
        BY <2>2, NewRows
      <3> DEFINE k == KeyOf(upload[r])
      <3>2. k \in BlobKey /\ k[3] = Sha[upload[r].zip] /\ upload[r].zip \in ZipFile
        BY <3>1, KeyType DEF Request
      <3>3. blob[k] # Empty /\ blob' = blob
        BY <3>1 DEF Record, ZipsAreStoredFirst
      <3>4. blob[k] \in ZipFile /\ Sha[blob[k]] = Sha[upload[r].zip]
        BY <3>2, <3>3 DEF ZipsAreStoredFirst, TypeInv, PublishingTypeOK
      <3>5. blob[k] = upload[r].zip
        BY <3>2, <3>4, PublishingConstants
      <3> QED
        BY <3>1, <3>3, <3>5
    <2> QED
      BY <2>1, <2>2
  <1>3. ASSUME NEW q \in Upload, upload'[q].pc = "commit"
        PROVE  blob'[KeyOf(upload'[q])] # Empty
    <2>1. upload'[q] \in Request
      BY <1>0, <1>3 DEF TypeInv, PublishingTypeOK, NoUpload
    <2>2. KeyOf(upload'[q]) \in BlobKey
      BY <2>1, KeyType
    <2>3. CASE upload'[q] = upload[q]
      BY <1>0, <1>3, <2>2, <2>3 DEF ZipsAreStoredFirst, At
    <2>4. CASE StoreZip(q) /\ KeyOf(upload'[q]) = KeyOf(upload[q])
      <3>1. upload[q].zip # Empty
        BY <2>4, AtWork, PublishingConstants DEF StoreZip, At, Step, Request, TypeInv
      <3> QED
        BY <2>2, <2>4, <3>1 DEF StoreZip, TypeInv, PublishingTypeOK
    <2> QED
      BY <1>3, <2>3, <2>4, CommitAfterStore
  <1> QED
    BY <1>1, <1>2, <1>3 DEF ZipsAreStoredFirst, VersionsHaveTheirZip, IsPublished, At

\* The inductive invariant holds at the start, when there is nothing.
LEMMA InvInit ==
  ASSUME PublishingInit
  PROVE  Inv
  BY PublishingInitType DEF PublishingInit, Inv, ZipsAreStoredFirst, VersionsHaveTheirZip, IsPublished, At, NoUpload

\* Every step keeps the inductive invariant.
LEMMA InvStep ==
  ASSUME Inv, [Next]_vars
  PROVE  Inv'
  BY NextType, ZipsStep DEF Inv

\* The inductive invariant of publishing, and with it its strengthening.
THEOREM ZipsStoredFirst == Spec => []ZipsAreStoredFirst
  <1>1. PublishingInit => Inv
    BY InvInit
  <1>2. Inv /\ [Next]_vars => Inv'
    BY InvStep
  <1>3. Inv => ZipsAreStoredFirst
    BY DEF Inv
  <1> QED
    BY <1>1, <1>2, <1>3, PTL DEF Spec

\* Every version recorded has its zip, whatever crashes or fails.
THEOREM ZipsAreThere == Spec => []VersionsHaveTheirZip
  <1>1. ZipsAreStoredFirst => VersionsHaveTheirZip
    BY DEF ZipsAreStoredFirst
  <1> QED
    BY <1>1, ZipsStoredFirst, PTL

\* A published version never changes, and neither does its zip.
THEOREM Immutable == Spec => VersionsAreImmutable
  <1>1. PublishingInit => Inv
    BY InvInit
  <1>2. Inv /\ [Next]_vars => Inv'
    BY InvStep
  <1>3. ASSUME Inv, [Next]_vars, NEW m \in Module, NEW v \in Version, IsPublished(m, v)
        PROVE  /\ version'[m][v] = version[m][v]
               /\ blob'[version[m][v].key] = blob[version[m][v].key]
    <2>1. version[m][v].key \in BlobKey
      BY <1>3 DEF Inv, TypeInv, PublishingTypeOK, IsPublished, VersionRow
    <2>2. blob[version[m][v].key] # Empty
      BY <1>3 DEF Inv, ZipsAreStoredFirst, VersionsHaveTheirZip
    <2> QED
      BY <1>3, <2>1, <2>2, StoreGrows DEF Inv
  <1>4. Inv /\ [Next]_vars =>
          [\A m \in Module, v \in Version :
             IsPublished(m, v) => /\ version'[m][v] = version[m][v]
                                  /\ blob'[version[m][v].key] = blob[version[m][v].key]]_vars
    BY <1>3
  <1> QED
    BY <1>1, <1>2, <1>4, PTL DEF Spec, VersionsAreImmutable

\* A module under review gains no version.
THEOREM NothingUnderReview == Spec => NothingPublishedUnderReview
  <1>1. PublishingInit => TypeInv
    BY PublishingInitType
  <1>2. TypeInv /\ [Next]_vars => TypeInv'
    BY NextType
  <1>3. TypeInv /\ [Next]_vars => [\A m \in quarantined : version'[m] = version[m]]_vars
    BY StoreGrows
  <1> QED
    BY <1>1, <1>2, <1>3, PTL DEF Spec, NothingPublishedUnderReview

-----------------------------------------------------------------------------
(* Publishers hold a role.  Between the check of an upload's role and its  *)
(* transaction other handlers run, and what was checked is not looked at   *)
(* again; RoleInv says what is left of it while nobody interferes.         *)

\* An accepted row of org_members is an owner's or a member's.
LEMMA AcceptedMembers ==
  ASSUME AccessTypeOK, NEW u \in User, NEW o \in org, member[o][u].accepted
  PROVE  member[o][u] = Accepted("owner") \/ member[o][u] = Accepted("member")
  <1>1. member[o][u] \in Row(OrgRole) \cup {NoRow}
    BY DEF AccessTypeOK
  <1>2. member[o][u] # NoRow
    BY DEF NoRow
  <1>3. member[o][u] \in [role : {"member", "owner"}, accepted : BOOLEAN]
    BY <1>1, <1>2 DEF Row, OrgRole
  <1> QED
    BY <1>3 DEF Accepted

\* Who creates a module of their own namespace, or of their organization's,
\* has a role on it.
LEMMA CreatorMaintains ==
  ASSUME AccessTypeOK, NEW u \in User, NEW m \in Module, m \notin module,
         IsOfNamespace(u, m), CreateModuleRow(u, m), UNCHANGED <<orgVars, teamVars>>
  PROVE  Maintains(u, m)'
  <1> DEFINE o == NamespaceOf[m]
  <1>1. role' = [role EXCEPT ![m] = CreatorsRoles(u, m)]
    BY DEF CreateModuleRow
  <1>2. role \in [Module -> [User -> ModuleRows]]
    BY DEF AccessTypeOK, ModuleRows
  <1>3. role'[m] = CreatorsRoles(u, m)
    BY <1>1, <1>2
  <1>4. CASE o = u
    <2>0. o \notin org
      BY <1>4, AccessConstants DEF AccessTypeOK
    <2>1. CreatorsRoles(u, m) = [role[m] EXCEPT ![u] = Accepted("owner")]
      BY <1>4, <2>0 DEF CreatorsRoles
    <2>2. role'[m][u] = Accepted("owner")
      BY <1>2, <1>3, <2>1
    <2> QED
      BY <2>2 DEF Maintains, HasRole, Accepted, Rank
  <1>5. CASE o # u
    <2>1. o \in org /\ member[o][u].accepted
      BY <1>5 DEF IsOfNamespace, BelongsTo
    <2>2. member[o][u] = Accepted("owner") \/ member[o][u] = Accepted("member")
      BY <2>1, AcceptedMembers
    <2>3. CASE member[o][u] = Accepted("member") /\ access[o] = "none"
      <3>1. CreatorsRoles(u, m) = [role[m] EXCEPT ![u] = Accepted("maintainer")]
        BY <1>5, <2>1, <2>3 DEF CreatorsRoles
      <3>2. role'[m][u] = Accepted("maintainer")
        BY <1>2, <1>3, <3>1
      <3> QED
        BY <3>2 DEF Maintains, HasRole, Accepted, Rank
    <2>4. CASE member[o][u] = Accepted("owner") \/ access[o] # "none"
      <3>1. OrgRank(u, m) >= Rank.maintainer
        BY <2>1, <2>2, <2>4 DEF OrgRank, Rank, Accepted
      <3>2. OrgRank(u, m)' = OrgRank(u, m)
        BY DEF OrgRank, orgVars
      <3> QED
        BY <3>1, <3>2 DEF Maintains, HasRole
    <2> QED
      BY <2>2, <2>3, <2>4
  <1> QED
    BY <1>4, <1>5

\* What the check of its user's role leaves true of an upload: it still
\* creates its module, or may publish the module there is.
RoleOK(u) ==
  /\ u.pc \in {"majors", "majorRole", "namespace"} => u.mod \notin module
  /\ (u.pc \in {"lookup", "store", "commit"} /\ u.by \in account) =>
       IF u.mod \in module THEN Maintains(u.by, u.mod) ELSE IsOfNamespace(u.by, u.mod)

RoleInv == TypeInv /\ \A r \in Upload : RoleOK(upload[r])

\* Nobody gets an account, and a module stays.
LEMMA AccountsGo ==
  ASSUME Next
  PROVE  account' \subseteq account /\ module \subseteq module'
  <1>1. ASSUME NEW r \in Upload, UploadStep(r)
        PROVE  account' = account /\ module \subseteq module'
    BY <1>1 DEF UploadStep, Receive, CheckQuarantine, CheckRole, ReadMajors, CheckMajorRole,
      CheckNamespace, Lookup, StoreZip, Record, CreateModuleRow, RollBack, Reread, Fail, Respond,
      accessVars, tables, moduleVars
  <1>2. ASSUME NEW s \in Session, CheckStep(s)
        PROVE  account' = account
    BY <1>2 DEF CheckStep, Check, CheckSetCollaborator, CheckRemoveCollaborator, CheckSetOrgMember,
      CheckRemoveOrgMember, CheckSetMemberAccess, CheckCreateTeam, CheckDeleteTeam, CheckAddTeamMember,
      CheckRemoveTeamMember, CheckSetTeamModule, CheckRemoveTeamModule, CheckPublish, CheckDeleteAccount,
      tables
  <1>3. ASSUME NEW s \in Session, CommitStep(s)
        PROVE  account' \subseteq account
    BY <1>3 DEF CommitStep, SetCollaborator, RemoveCollaborator, SetOrgMember, RemoveOrgMember,
      SetMemberAccess, CreateTeam, DeleteTeam, AddTeamMember, RemoveTeamMember, SetTeamModule,
      RemoveTeamModule, Publish, CreateModuleRow, DeleteAccount, GiveUp, tables
  <1>4. ASSUME NEW u \in User, UserStep(u)
        PROVE  account' = account
    BY <1>4 DEF UserStep, LeaveModule, AcceptModule, DeclineModule, CreateOrg, LeaveOrg, AcceptOrg,
      DeclineOrg
  <1>5. CASE AccessStep
    <2>1. AccessNext
      BY <1>5 DEF AccessStep
    <2>2. module \subseteq module'
      BY <2>1, ModulesStay
    <2>3. account' \subseteq account
      BY <2>1, <1>2, <1>3, <1>4 DEF AccessNext
    <2> QED
      BY <2>2, <2>3
  <1> QED
    BY <1>1, <1>5 DEF Next, Quarantine, Release, Crash, accessVars, tables, moduleVars

\* A step that leaves the tables alone is judged by the tables there are.
LEMMA SameTables ==
  ASSUME UNCHANGED accessVars, NEW r, RoleOK(upload'[r])
  PROVE  RoleOK(upload[r])'
  BY DEF accessVars, tables, orgVars, moduleVars, teamVars, RoleOK, Maintains, HasRole, OrgRank,
    IsOfNamespace, BelongsTo

\* Where an upload goes when it goes somewhere.
LEMMA Goes ==
  ASSUME PublishingTypeOK, NEW r \in Upload, upload[r] \in Request, NEW pc, GoTo(r, pc)
  PROVE  upload'[r].pc = pc /\ upload'[r].mod = upload[r].mod /\ upload'[r].by = upload[r].by
  <1>1. upload'[r] = [upload[r] EXCEPT !.pc = pc]
    BY DEF GoTo, PublishingTypeOK
  <1> QED
    BY <1>1 DEF Request

\* The steps after which an upload is not past its check, or no longer.
LEMMA Elsewhere ==
  ASSUME PublishingTypeOK, NEW r \in Upload,
         Receive(r) \/ CheckQuarantine(r) \/ Record(r) \/ RollBack(r) \/ Reread(r) \/ Fail(r) \/ Respond(r)
  PROVE  RoleOK(upload[r])'
  <1>1. upload'[r].pc \notin {"majors", "majorRole", "namespace", "lookup", "store", "commit"}
    <2>1. CASE Receive(r)
      BY <2>1 DEF Receive, PublishingTypeOK
    <2>2. CASE Respond(r)
      BY <2>2 DEF Respond, PublishingTypeOK, NoUpload
    <2>3. CASE CheckQuarantine(r) \/ Record(r) \/ RollBack(r) \/ Reread(r) \/ Fail(r)
      <3>1. upload[r] \in Request
        BY <2>3, AtWork DEF CheckQuarantine, Record, RollBack, Reread, Fail, At, Step
      <3>2. \E pc \in {"rejected", "role", "published", "reread", "failed", "already", "conflict"} : GoTo(r, pc)
        BY <2>3 DEF CheckQuarantine, Record, RollBack, Reread, Fail, SameOrConflict
      <3> QED
        BY <3>1, <3>2, Goes
    <2> QED
      BY <2>1, <2>2, <2>3
  <1> QED
    BY <1>1 DEF RoleOK

\* The check of the role, and what follows it, leave true what they found.
LEMMA Checked ==
  ASSUME TypeInv, NEW r \in Upload, RoleOK(upload[r]), UploadsUndisturbed,
         CheckRole(r) \/ ReadMajors(r) \/ CheckMajorRole(r) \/ CheckNamespace(r) \/ Lookup(r) \/ StoreZip(r)
  PROVE  RoleOK(upload[r])'
  <1> USE DEF TypeInv
  <1> DEFINE u == upload[r]
  <1>1. u \in Request
    BY AtWork DEF CheckRole, ReadMajors, CheckMajorRole, CheckNamespace, Lookup, StoreZip, At, Step
  <1>2. UNCHANGED accessVars
    BY DEF CheckRole, ReadMajors, CheckMajorRole, CheckNamespace, Lookup, StoreZip
  <1>3. SUFFICES RoleOK(upload'[r])
    BY <1>2, SameTables
  <1>4. CASE CheckRole(r)
    <2>1. CASE u.mod \notin module
      <3>1. GoTo(r, "majors")
        BY <1>4, <2>1 DEF CheckRole
      <3> QED
        BY <1>1, <2>1, <3>1, Goes DEF RoleOK
    <2>2. CASE u.mod \in module /\ Maintains(u.by, u.mod)
      <3>1. GoTo(r, "lookup")
        BY <1>4, <2>2 DEF CheckRole
      <3> QED
        BY <1>1, <2>2, <3>1, Goes DEF RoleOK
    <2>3. CASE u.mod \in module /\ ~Maintains(u.by, u.mod)
      <3>1. GoTo(r, "rejected")
        BY <1>4, <2>3 DEF CheckRole
      <3> QED
        BY <1>1, <3>1, Goes DEF RoleOK
    <2> QED
      BY <2>1, <2>2, <2>3
  <1>5. CASE ReadMajors(r)
    <2>1. u.mod \notin module
      BY <1>5 DEF ReadMajors, At, RoleOK
    <2>2. upload'[r].pc \in {"namespace", "majorRole"} /\ upload'[r].mod = u.mod
      BY <1>1, <1>5 DEF ReadMajors, PublishingTypeOK, Request
    <2> QED
      BY <2>1, <2>2 DEF RoleOK
  <1>6. CASE CheckMajorRole(r)
    <2>1. u.mod \notin module
      BY <1>6 DEF CheckMajorRole, At, RoleOK
    <2>2. PICK m \in u.majors :
            IF Maintains(u.by, m)
              THEN GoTo(r, "lookup")
              ELSE upload' = [upload EXCEPT ![r].majors = @ \ {m},
                                ![r].pc = IF u.majors = {m} THEN "rejected" ELSE @]
      BY <1>6 DEF CheckMajorRole
    <2>3. CASE Maintains(u.by, m)
      <3>1. upload'[r].pc = "lookup" /\ upload'[r].mod = u.mod /\ upload'[r].by = u.by
        BY <1>1, <2>2, <2>3, Goes
      <3>2. IsOfNamespace(u.by, u.mod)
        BY <1>6, <3>1 DEF CheckMajorRole, At, UploadsUndisturbed
      <3> QED
        BY <2>1, <3>1, <3>2 DEF RoleOK
    <2>4. CASE ~Maintains(u.by, m)
      <3>1. upload'[r].pc \in {"majorRole", "rejected"} /\ upload'[r].mod = u.mod
        BY <1>1, <1>6, <2>2, <2>4 DEF CheckMajorRole, At, PublishingTypeOK, Request
      <3> QED
        BY <2>1, <3>1 DEF RoleOK
    <2> QED
      BY <2>3, <2>4
  <1>7. CASE CheckNamespace(r)
    <2>1. u.mod \notin module
      BY <1>7 DEF CheckNamespace, At, RoleOK
    <2>2. CASE IsOfNamespace(u.by, u.mod)
      <3>1. GoTo(r, "lookup")
        BY <1>7, <2>2 DEF CheckNamespace
      <3> QED
        BY <1>1, <2>1, <2>2, <3>1, Goes DEF RoleOK
    <2>3. CASE ~IsOfNamespace(u.by, u.mod)
      <3>1. GoTo(r, "rejected")
        BY <1>7, <2>3 DEF CheckNamespace
      <3> QED
        BY <1>1, <3>1, Goes DEF RoleOK
    <2> QED
      BY <2>2, <2>3
  <1>8. CASE Lookup(r) \/ StoreZip(r)
    <2>1. PICK pc \in {"already", "conflict", "store", "commit"} : GoTo(r, pc)
      BY <1>8 DEF Lookup, StoreZip, SameOrConflict
    <2>2. u.pc \in {"lookup", "store"}
      BY <1>8 DEF Lookup, StoreZip, At
    <2>3. upload'[r].pc = pc /\ upload'[r].mod = u.mod /\ upload'[r].by = u.by
      BY <1>1, <2>1, Goes
    <2>4. u.by \in account => IF u.mod \in module THEN Maintains(u.by, u.mod) ELSE IsOfNamespace(u.by, u.mod)
      BY <2>2 DEF RoleOK
    <2> QED
      BY <2>3, <2>4 DEF RoleOK
  <1> QED
    BY <1>4, <1>5, <1>6, <1>7, <1>8

\* What an upload found stays true while others are at work.
LEMMA NobodyElse ==
  ASSUME TypeInv, NEW r \in Upload, RoleOK(upload[r]), Next, UploadsUndisturbed, upload'[r] = upload[r]
  PROVE  RoleOK(upload[r])'
  <1> DEFINE u == upload[r]
  <1>1. account' \subseteq account /\ module \subseteq module'
    BY AccountsGo
  <1>2. CASE u.pc \in RoleChecked
    <2>1. u.mod \in module' => u.mod \in module
      BY <1>2 DEF UploadsUndisturbed
    <2>2. u.by \in account' => /\ Maintains(u.by, u.mod) => Maintains(u.by, u.mod)'
                               /\ IsOfNamespace(u.by, u.mod) => IsOfNamespace(u.by, u.mod)'
      BY <1>2 DEF UploadsUndisturbed
    <2>3. ASSUME u.pc \in {"majors", "majorRole", "namespace"}
          PROVE  u.mod \notin module'
      BY <2>1, <2>3 DEF RoleOK
    <2>4. ASSUME u.pc \in {"lookup", "store", "commit"}, u.by \in account'
          PROVE  IF u.mod \in module' THEN Maintains(u.by, u.mod)' ELSE IsOfNamespace(u.by, u.mod)'
      <3>1. IF u.mod \in module THEN Maintains(u.by, u.mod) ELSE IsOfNamespace(u.by, u.mod)
        BY <1>1, <2>4 DEF RoleOK
      <3> QED
        BY <1>1, <2>1, <2>2, <2>4, <3>1
    <2> QED
      BY <2>3, <2>4 DEF RoleOK
  <1>3. CASE u.pc \notin RoleChecked
    BY <1>3 DEF RoleOK, RoleChecked
  <1> QED
    BY <1>2, <1>3

\* Only the transaction answers that the version is published.
LEMMA PublishedByRecord ==
  ASSUME TypeInv, NEW r \in Upload, Next, upload[r].pc = "commit", upload'[r].pc = "published"
  PROVE  Record(r)
  <1> USE DEF TypeInv
  <1>1. upload'[r] # upload[r] /\ upload'[r] # NoUpload
    BY DEF NoUpload
  <1>2. PICK q \in Upload : UploadStep(q)
    BY <1>1 DEF Next, Quarantine, Release, AccessStep, Crash
  <1>3. q = r
    BY <1>1, <1>2 DEF UploadStep, Receive, CheckQuarantine, CheckRole, ReadMajors, CheckMajorRole,
      CheckNamespace, Lookup, StoreZip, Record, RollBack, Reread, Fail, Respond, GoTo, PublishingTypeOK
  <1>4. upload[r] \in Request
    BY AtWork DEF Step
  <1>5. CASE StoreZip(r) \/ Lookup(r) \/ CheckQuarantine(r) \/ CheckRole(r) \/ ReadMajors(r) \/ CheckMajorRole(r)
             \/ CheckNamespace(r) \/ Reread(r) \/ Receive(r) \/ Respond(r)
    BY <1>5 DEF StoreZip, Lookup, CheckQuarantine, CheckRole, ReadMajors, CheckMajorRole, CheckNamespace,
      Reread, Receive, Respond, At, NoUpload, Done
  <1>6. CASE RollBack(r) \/ Fail(r)
    <2>1. \E pc \in {"rejected", "reread", "failed"} : GoTo(r, pc)
      BY <1>6 DEF RollBack, Fail
    <2> QED
      BY <1>4, <2>1, Goes
  <1> QED
    BY <1>2, <1>3, <1>5, <1>6 DEF UploadStep

\* Who records a version has a role on its module from then on.
LEMMA RecordersMaintain ==
  ASSUME TypeInv, NEW r \in Upload, RoleOK(upload[r]), Record(r)
  PROVE  Maintains(upload[r].by, upload[r].mod)'
  <1> USE DEF TypeInv
  <1> DEFINE u == upload[r]
  <1>1. u \in Request /\ u.by \in User /\ u.mod \in Module
    BY AtWork DEF Record, At, Step, Request
  <1>2. upload'[r].mod = u.mod /\ upload'[r].by = u.by
    BY <1>1, Goes DEF Record
  <1>3. IF u.mod \in module THEN Maintains(u.by, u.mod) ELSE IsOfNamespace(u.by, u.mod)
    BY DEF Record, At, RoleOK
  <1>4. CreateModuleRow(u.by, u.mod) /\ UNCHANGED <<orgVars, teamVars>>
    BY DEF Record
  <1>5. ASSUME NEW w \in User, NEW m \in Module, CreateModuleRow(w, m), UNCHANGED <<orgVars, teamVars>>,
               IF m \in module THEN Maintains(w, m) ELSE IsOfNamespace(w, m)
        PROVE  Maintains(w, m)'
    <2>1. CASE m \in module
      BY <1>5, <2>1 DEF CreateModuleRow, Maintains, HasRole, OrgRank, orgVars, teamVars
    <2>2. CASE m \notin module
      BY <1>5, <2>2, CreatorMaintains
    <2> QED
      BY <2>1, <2>2
  <1>6. ASSUME NEW w \in User, NEW m \in Module, w = u.by, m = u.mod
        PROVE  Maintains(w, m)'
    BY <1>3, <1>4, <1>5, <1>6
  <1>7. ASSUME NEW w, NEW m, upload'[r].by = w, upload'[r].mod = m, Maintains(w, m)'
        PROVE  Maintains(upload[r].by, upload[r].mod)'
    BY <1>7 DEF Maintains, HasRole, OrgRank
  <1> QED
    BY <1>1, <1>2, <1>6, <1>7

\* The invariant is inductive while uploads are undisturbed.
LEMMA RoleStep ==
  ASSUME RoleInv, [Next /\ UploadsUndisturbed]_vars
  PROVE  RoleInv'
  <1>1. TypeInv'
    BY NextType DEF RoleInv
  <1>2. ASSUME NEW r \in Upload
        PROVE  RoleOK(upload[r])'
    <2>1. CASE UNCHANGED vars
      <3>1. RoleOK(upload'[r])
        BY <2>1 DEF vars, RoleInv
      <3> QED
        BY <2>1, <3>1, SameTables DEF vars
    <2>2. CASE Next /\ UploadsUndisturbed /\ UploadStep(r)
      BY <2>2, Elsewhere, Checked DEF RoleInv, TypeInv, UploadStep
    <2>3. CASE Next /\ UploadsUndisturbed /\ upload'[r] = upload[r]
      BY <2>3, NobodyElse DEF RoleInv
    <2>4. CASE Crash
      BY <2>4 DEF Crash, NoUpload, RoleOK
    <2>5. ASSUME NEW q \in Upload \ {r}, UploadStep(q)
          PROVE  upload'[r] = upload[r]
      BY <2>5 DEF UploadStep, Receive, CheckQuarantine, CheckRole, ReadMajors, CheckMajorRole,
        CheckNamespace, Lookup, StoreZip, Record, RollBack, Reread, Fail, Respond, GoTo, RoleInv, TypeInv,
        PublishingTypeOK
    <2>6. CASE Next /\ UploadsUndisturbed
      BY <2>2, <2>3, <2>4, <2>5, <2>6 DEF Next, Quarantine, Release, AccessStep
    <2> QED
      BY <2>1, <2>6
  <1> QED
    BY <1>1, <1>2 DEF RoleInv

\* Whoever publishes a version has a role on its module once it is there, as
\* long as nobody comes between the check of their role and the transaction.
THEOREM RolesAreHeld == OrderlySpec => PublishersHoldARole
  <1> DEFINE Held == \A r \in Upload :
               (At(r, "commit") /\ upload'[r].pc = "published") => Maintains(upload[r].by, upload[r].mod)'
  <1>1. PublishingInit => RoleInv
    BY PublishingInitType DEF PublishingInit, RoleInv, RoleOK, NoUpload
  <1>2. RoleInv /\ [Next /\ UploadsUndisturbed]_vars => RoleInv'
    BY RoleStep
  <1>3. ASSUME RoleInv, Next, NEW r \in Upload, At(r, "commit"), upload'[r].pc = "published"
        PROVE  Maintains(upload[r].by, upload[r].mod)'
    BY <1>3, PublishedByRecord, RecordersMaintain DEF RoleInv, At
  <1>4. RoleInv /\ [Next /\ UploadsUndisturbed]_vars => [Held]_vars
    BY <1>3
  <1> QED
    BY <1>1, <1>2, <1>4, PTL DEF OrderlySpec, PublishersHoldARole

-----------------------------------------------------------------------------
(* Publishing implements the registers of WriteOnce.  Contents and Calls   *)
(* are what the refinement mapping makes of the tables and the requests.   *)

Contents == [k \in VersionKey |-> version[k[1]][k[2]].h1]
CallOf(u) ==
  IF u = NoUpload THEN [answer |-> "none"]
  ELSE [key |-> <<u.mod, u.ver>>,
        content |-> H1[u.zip],
        answer |-> IF u.pc \in Done THEN u.pc ELSE "pending"]
Calls == [r \in Upload |-> CallOf(upload[r])]

\* The mapped state of the registers.
LEMMA Mapping ==
  /\ Registers!Init <=> /\ Contents = [k \in VersionKey |-> Empty]
                        /\ Calls = [r \in Upload |-> [answer |-> "none"]]
  /\ Registers!vars = <<Contents, Calls>>
  BY DEF Registers!Init, Registers!vars, Registers!None, Contents, Calls, CallOf

\* The call of a request at work, as it goes to a step or to an answer.
LEMMA CallOfRequest ==
  ASSUME NEW u \in Request
  PROVE  CallOf(u) = [key |-> <<u.mod, u.ver>>, content |-> H1[u.zip],
                      answer |-> IF u.pc \in Done THEN u.pc ELSE "pending"]
  BY DEF CallOf, Request, NoUpload, Step, Done

\* A step that answers nothing changes no call.
LEMMA QuietStep ==
  ASSUME TypeInv, NEW r \in Upload, upload[r].pc \in Step, NEW pc \in Step, GoTo(r, pc), UNCHANGED version
  PROVE  UNCHANGED Registers!vars
  <1> USE DEF TypeInv
  <1>1. upload[r] \in Request
    BY AtWork
  <1>2. [upload[r] EXCEPT !.pc = pc] \in Request
    BY <1>1 DEF Request
  <1>3. CallOf([upload[r] EXCEPT !.pc = pc]) = CallOf(upload[r])
    BY <1>1, <1>2, CallOfRequest DEF Request, Step, Done
  <1>4. upload' = [upload EXCEPT ![r] = [upload[r] EXCEPT !.pc = pc]]
    BY DEF GoTo
  <1>5. Calls' = Calls
    BY <1>3, <1>4 DEF Calls, PublishingTypeOK
  <1>6. Contents' = Contents
    BY DEF Contents
  <1> QED
    BY <1>5, <1>6, Mapping DEF Contents, Calls, CallOf, Registers!vars

\* A step that answers changes the answer of one call.
LEMMA AnswerStep ==
  ASSUME TypeInv, NEW r \in Upload, upload[r].pc \in Step, NEW a \in Done, GoTo(r, a)
  PROVE  /\ Calls[r].answer = "pending"
         /\ Calls[r].key = <<upload[r].mod, upload[r].ver>>
         /\ Calls[r].content = H1[upload[r].zip]
         /\ Calls' = [Calls EXCEPT ![r].answer = a]
         /\ upload[r] \in Request
  <1> USE DEF TypeInv
  <1>1. upload[r] \in Request
    BY AtWork
  <1>2. [upload[r] EXCEPT !.pc = a] \in Request
    BY <1>1 DEF Request
  <1>3. CallOf(upload[r]) = [key |-> <<upload[r].mod, upload[r].ver>>, content |-> H1[upload[r].zip], answer |-> "pending"]
    BY <1>1, CallOfRequest DEF Step, Done
  <1>4. CallOf([upload[r] EXCEPT !.pc = a]) = [CallOf(upload[r]) EXCEPT !.answer = a]
    BY <1>1, <1>2, <1>3, CallOfRequest DEF Request
  <1>5. upload' = [upload EXCEPT ![r] = [upload[r] EXCEPT !.pc = a]]
    BY DEF GoTo
  <1>6. Calls' = [Calls EXCEPT ![r] = [CallOf(upload[r]) EXCEPT !.answer = a]]
    BY <1>4, <1>5 DEF Calls, PublishingTypeOK
  <1>7. Calls[r] = CallOf(upload[r])
    BY DEF Calls
  <1>8. Calls' = [Calls EXCEPT ![r].answer = a]
    BY <1>6, <1>7, Zenon
  <1> QED
    BY <1>1, <1>3, <1>7, <1>8

\* What the register of a version holds.
LEMMA ContentOf ==
  ASSUME TypeInv, NEW u \in Request
  PROVE  /\ <<u.mod, u.ver>> \in VersionKey
         /\ Contents[<<u.mod, u.ver>>] = version[u.mod][u.ver].h1
         /\ IsPublished(u.mod, u.ver) <=> version[u.mod][u.ver].h1 # Empty
  <1>1. version[u.mod][u.ver] \in VersionRow \cup {NoVersion}
    BY DEF TypeInv, PublishingTypeOK, Request
  <1>2. IsPublished(u.mod, u.ver) <=> version[u.mod][u.ver].h1 # Empty
    BY <1>1, PublishingConstants DEF IsPublished, VersionRow, NoVersion
  <1> QED
    BY <1>2 DEF Contents, VersionKey, Request

\* An upload that is answered from the version there is.
LEMMA AnsweredFromRow ==
  ASSUME TypeInv, NEW r \in Upload, upload[r].pc \in Step, Visible(upload[r]),
         GoTo(r, SameOrConflict(upload[r])), UNCHANGED version
  PROVE  Registers!Next
  <1> DEFINE u == upload[r]
             k == <<u.mod, u.ver>>
  <1>1. SameOrConflict(u) \in Done
    BY DEF SameOrConflict, Done
  <1>2. /\ Calls[r].answer = "pending"
        /\ Calls[r].key = k
        /\ Calls[r].content = H1[u.zip]
        /\ Calls' = [Calls EXCEPT ![r].answer = SameOrConflict(u)]
        /\ u \in Request
    BY <1>1, AnswerStep
  <1>3. Contents[k] = version[u.mod][u.ver].h1 /\ Contents[k] # Empty
    BY <1>2, ContentOf DEF Visible
  <1>4. Contents' = Contents
    BY DEF Contents
  <1>5. CASE version[u.mod][u.ver].h1 = H1[u.zip]
    <2>1. Contents[Calls[r].key] = Calls[r].content /\ Calls' = [Calls EXCEPT ![r].answer = "already"]
      BY <1>2, <1>3, <1>5 DEF SameOrConflict
    <2>2. Registers!WrittenAlready(r)
      BY <1>2, <1>4, <2>1 DEF Registers!WrittenAlready, Registers!Pending, Registers!Answer, Contents, Calls, CallOf
    <2> QED
      BY <2>2 DEF Registers!Next
  <1>6. CASE version[u.mod][u.ver].h1 # H1[u.zip]
    <2>1. /\ Contents[Calls[r].key] \notin {Empty, Calls[r].content}
          /\ Calls' = [Calls EXCEPT ![r].answer = "conflict"]
      BY <1>2, <1>3, <1>6 DEF SameOrConflict
    <2>2. Registers!Conflict(r)
      BY <1>2, <1>4, <2>1 DEF Registers!Conflict, Registers!Pending, Registers!Answer, Contents, Calls, CallOf
    <2> QED
      BY <2>2 DEF Registers!Next
  <1> QED
    BY <1>5, <1>6

\* An upload that is refused, or fails.
LEMMA RefusedStep ==
  ASSUME TypeInv, NEW r \in Upload, upload[r].pc \in Step, NEW a \in {"rejected", "failed"}, GoTo(r, a),
         UNCHANGED version
  PROVE  Registers!Next
  <1>1. Calls[r].answer = "pending" /\ Calls' = [Calls EXCEPT ![r].answer = a]
    BY AnswerStep DEF Done
  <1>2. Contents' = Contents
    BY DEF Contents
  <1>3. Registers!Refuse(r)
    BY <1>1, <1>2 DEF Registers!Refuse, Registers!Pending, Registers!Answer, Contents, Calls, CallOf
  <1> QED
    BY <1>3 DEF Registers!Next

\* Recording a version writes its register.
LEMMA WriteStep ==
  ASSUME TypeInv, NEW r \in Upload, Record(r)
  PROVE  Registers!Next
  <1> DEFINE u == upload[r]
             k == <<u.mod, u.ver>>
  <1>1. /\ Calls[r].answer = "pending"
        /\ Calls[r].key = k
        /\ Calls[r].content = H1[u.zip]
        /\ Calls' = [Calls EXCEPT ![r].answer = "published"]
        /\ u \in Request
    BY AnswerStep DEF Record, At, Step, Done
  <1>2. k \in VersionKey /\ Contents[k] = Empty
    BY <1>1, ContentOf DEF Record, StillNew
  <1>3. Contents' = [Contents EXCEPT ![k] = H1[u.zip]]
    <2>1. version' = [version EXCEPT ![u.mod][u.ver] = [h1 |-> H1[u.zip], key |-> KeyOf(u)]]
      BY DEF Record
    <2>2. ASSUME NEW m \in Module, NEW v \in Version
          PROVE  version'[m][v].h1 = IF <<m, v>> = k THEN H1[u.zip] ELSE version[m][v].h1
      BY <1>1, <2>1 DEF TypeInv, PublishingTypeOK, Request
    <2>3. ASSUME NEW x \in VersionKey
          PROVE  version'[x[1]][x[2]].h1 = IF x = k THEN H1[u.zip] ELSE Contents[x]
      <3>1. x = <<x[1], x[2]>> /\ x[1] \in Module /\ x[2] \in Version
        BY DEF VersionKey
      <3>2. Contents[x] = version[x[1]][x[2]].h1
        BY DEF Contents
      <3> QED
        BY <2>2, <3>1, <3>2
    <2>4. Contents' = [x \in VersionKey |-> IF x = k THEN H1[u.zip] ELSE Contents[x]]
      BY <2>3 DEF Contents
    <2> QED
      BY <1>2, <2>4 DEF Contents
  <1>4. Registers!Write(r)
    BY <1>1, <1>2, <1>3 DEF Registers!Write, Registers!Pending, Registers!Answer, Contents, Calls, CallOf
  <1> QED
    BY <1>4 DEF Registers!Next

\* Receiving an upload invokes it.
LEMMA InvokeStep ==
  ASSUME TypeInv, NEW r \in Upload, Receive(r)
  PROVE  Registers!Next
  <1>1. PICK u \in account, m \in Module, v \in Version, z \in ZipFile :
          upload' = [upload EXCEPT ![r] =
            [pc |-> "quarantine", by |-> u, mod |-> m, ver |-> v, zip |-> z, majors |-> {}]]
    BY DEF Receive
  <1> DEFINE req == [pc |-> "quarantine", by |-> u, mod |-> m, ver |-> v, zip |-> z, majors |-> {}]
  <1>2. req \in Request
    BY DEF Request, Step, TypeInv, AccessTypeOK
  <1>3. CallOf(req) = [key |-> <<m, v>>, content |-> H1[z], answer |-> "pending"]
    BY <1>2, CallOfRequest DEF Done
  <1>4. Calls[r] = [answer |-> "none"]
    BY DEF Receive, Calls, CallOf
  <1>5. Calls' = [Calls EXCEPT ![r] = CallOf(req)]
    BY <1>1 DEF Calls, TypeInv, PublishingTypeOK
  <1>6. Contents' = Contents
    BY DEF Receive, storeVars, Contents
  <1>7. Registers!Invoke(r, <<m, v>>, H1[z])
    BY <1>3, <1>4, <1>5, <1>6 DEF Registers!Invoke, Registers!Call, Registers!None, Contents, Calls, CallOf
  <1> QED
    BY <1>7 DEF Registers!Next, VersionKey, H1s

\* Every step of an upload is a step of the registers, or none.
LEMMA UploadStepSimulates ==
  ASSUME TypeInv, NEW r \in Upload, UploadStep(r)
  PROVE  Registers!Next \/ UNCHANGED Registers!vars
  <1>1. ASSUME upload[r].pc \in Step, UNCHANGED version,
               \E pc \in Step \cup {"rejected", "failed"} : GoTo(r, pc)
        PROVE  Registers!Next \/ UNCHANGED Registers!vars
    BY <1>1, QuietStep, RefusedStep
  <1>2. CASE Receive(r)
    BY <1>2, InvokeStep
  <1>3. CASE CheckQuarantine(r) \/ CheckRole(r) \/ CheckNamespace(r) \/ StoreZip(r) \/ Fail(r)
    BY <1>1, <1>3 DEF CheckQuarantine, CheckRole, CheckNamespace, StoreZip, Fail, At, Step, storeVars
  <1>4. ASSUME upload[r].pc \in Step, UNCHANGED version, NEW next \in Request,
               next.pc \in Step \cup {"rejected"}, upload' = [upload EXCEPT ![r] = next],
               next.mod = upload[r].mod, next.ver = upload[r].ver, next.zip = upload[r].zip
        PROVE  Registers!Next \/ UNCHANGED Registers!vars
    <2>1. upload[r] \in Request
      BY <1>4, AtWork DEF TypeInv
    <2>2. /\ CallOf(upload[r]) = [key |-> <<upload[r].mod, upload[r].ver>>, content |-> H1[upload[r].zip],
                                   answer |-> "pending"]
          /\ CallOf(next) = [CallOf(upload[r]) EXCEPT !.answer = IF next.pc \in Done THEN next.pc ELSE "pending"]
      BY <1>4, <2>1, CallOfRequest DEF Step, Done
    <2>3. Contents' = Contents
      BY <1>4 DEF Contents
    <2>4. Calls' = [Calls EXCEPT ![r] = CallOf(next)]
      BY <1>4 DEF Calls, TypeInv, PublishingTypeOK
    <2>5. Calls[r] = CallOf(upload[r])
      BY DEF Calls
    <2>6. CASE next.pc \in Step
      <3>1. CallOf(next) = CallOf(upload[r])
        BY <2>2, <2>6 DEF Step, Done
      <3>2. Calls' = Calls
        BY <2>4, <2>5, <3>1 DEF Calls
      <3> QED
        BY <2>3, <3>2, Mapping DEF Contents, Calls, CallOf, Registers!vars
    <2>7. CASE next.pc = "rejected"
      <3>1. CallOf(next) = [Calls[r] EXCEPT !.answer = "rejected"] /\ Calls[r].answer = "pending"
        BY <2>2, <2>5, <2>7 DEF Done
      <3>2. Calls' = [Calls EXCEPT ![r].answer = "rejected"]
        BY <2>4, <3>1, Zenon
      <3>3. Registers!Refuse(r)
        BY <2>3, <3>1, <3>2 DEF Registers!Refuse, Registers!Pending, Registers!Answer, Contents, Calls, CallOf
      <3> QED
        BY <3>3 DEF Registers!Next
    <2> QED
      BY <1>4, <2>6, <2>7
  <1>5. CASE ReadMajors(r)
    <2> DEFINE found == MajorVersions(upload[r].mod) \ quarantined
               next == [upload[r] EXCEPT !.majors = found, !.pc = IF found = {} THEN "namespace" ELSE "majorRole"]
    <2>1. upload[r] \in Request
      BY <1>5, AtWork DEF ReadMajors, At, Step, TypeInv
    <2>2. /\ next \in Request
          /\ next.pc \in Step
          /\ next.mod = upload[r].mod /\ next.ver = upload[r].ver /\ next.zip = upload[r].zip
      BY <2>1 DEF Request, Step, MajorVersions, TypeInv, AccessTypeOK
    <2>3. upload' = [upload EXCEPT ![r] = next] /\ upload[r].pc \in Step /\ UNCHANGED version
      BY <1>5 DEF ReadMajors, At, Step, storeVars
    <2> HIDE DEF next
    <2> QED
      BY <1>4, <2>2, <2>3
  <1>6. CASE CheckMajorRole(r)
    <2>1. upload[r] \in Request /\ upload[r].pc \in Step /\ upload[r].pc = "majorRole" /\ UNCHANGED version
      BY <1>6, AtWork DEF CheckMajorRole, At, Step, TypeInv, storeVars
    <2>2. PICK m \in upload[r].majors :
            IF Maintains(upload[r].by, m)
              THEN GoTo(r, "lookup")
              ELSE upload' = [upload EXCEPT ![r].majors = @ \ {m},
                                ![r].pc = IF upload[r].majors = {m} THEN "rejected" ELSE @]
      BY <1>6 DEF CheckMajorRole
    <2>3. CASE Maintains(upload[r].by, m)
      BY <1>1, <2>1, <2>2, <2>3 DEF Step
    <2>4. CASE ~Maintains(upload[r].by, m)
      <3> DEFINE next == [upload[r] EXCEPT !.majors = @ \ {m},
                            !.pc = IF upload[r].majors = {m} THEN "rejected" ELSE @]
      <3>1. /\ next \in Request
            /\ next.pc \in Step \cup {"rejected"}
            /\ next.mod = upload[r].mod /\ next.ver = upload[r].ver /\ next.zip = upload[r].zip
        BY <2>1 DEF Request, Done
      <3>2. upload' = [upload EXCEPT ![r] = next]
        BY <2>2, <2>4
      <3> HIDE DEF next
      <3> QED
        BY <1>4, <2>1, <3>1, <3>2
    <2> QED
      BY <2>3, <2>4
  <1>7. CASE Lookup(r)
    <2>1. upload[r].pc \in Step /\ UNCHANGED version
      BY <1>7 DEF Lookup, At, Step, storeVars
    <2>2. CASE Visible(upload[r])
      BY <1>7, <2>1, <2>2, AnsweredFromRow DEF Lookup
    <2>3. CASE ~Visible(upload[r])
      BY <1>1, <1>7, <2>1, <2>3 DEF Lookup, Step
    <2> QED
      BY <2>2, <2>3
  <1>8. CASE Record(r)
    BY <1>8, WriteStep
  <1>9. CASE RollBack(r)
    <2>1. \E pc \in Step \cup {"rejected", "failed"} : GoTo(r, pc)
      BY <1>9 DEF RollBack, Step
    <2> QED
      BY <1>1, <1>9, <2>1 DEF RollBack, At, Step, storeVars
  <1>10. CASE Reread(r)
    <2>1. upload[r].pc \in Step /\ UNCHANGED version
      BY <1>10 DEF Reread, At, Step, storeVars
    <2>2. CASE Visible(upload[r])
      BY <1>10, <2>1, <2>2, AnsweredFromRow DEF Reread
    <2>3. CASE ~Visible(upload[r])
      BY <1>1, <1>10, <2>1, <2>3 DEF Reread
    <2> QED
      BY <2>2, <2>3
  <1>11. CASE Respond(r)
    <2>1. Calls' = [q \in Upload |-> IF q \in {r} THEN [answer |-> "none"] ELSE Calls[q]]
      BY <1>11 DEF Respond, Calls, CallOf, TypeInv, PublishingTypeOK
    <2>2. Contents' = Contents
      BY <1>11 DEF Respond, storeVars, Contents
    <2>3. Registers!Forget({r})
      BY <2>1, <2>2 DEF Registers!Forget, Registers!None, Contents, Calls, CallOf
    <2> QED
      BY <2>3 DEF Registers!Next
  <1> QED
    BY <1>2, <1>3, <1>5, <1>6, <1>7, <1>8, <1>9, <1>10, <1>11 DEF UploadStep

\* Every step of the specification is a step of the registers, or none.
LEMMA StepSimulates ==
  ASSUME TypeInv, [Next]_vars
  PROVE  [Registers!Next]_Registers!vars
  <1>1. ASSUME NEW r \in Upload, UploadStep(r)
        PROVE  [Registers!Next]_Registers!vars
    BY <1>1, UploadStepSimulates
  <1>2. CASE Crash
    <2>1. Calls' = [q \in Upload |-> IF q \in Upload THEN [answer |-> "none"] ELSE Calls[q]]
      BY <1>2 DEF Crash, Calls, CallOf
    <2>2. Contents' = Contents
      BY <1>2 DEF Crash, storeVars, Contents
    <2>3. Registers!Forget(Upload)
      BY <2>1, <2>2 DEF Registers!Forget, Registers!None, Contents, Calls, CallOf
    <2> QED
      BY <2>3 DEF Registers!Next
  <1>3. ASSUME UNCHANGED <<version, upload>>
        PROVE  [Registers!Next]_Registers!vars
    BY <1>3, Mapping DEF Registers!vars
  <1>4. CASE AccessStep \/ UNCHANGED vars \/ \E m \in Module : Quarantine(m) \/ Release(m)
    BY <1>3, <1>4 DEF AccessStep, vars, Quarantine, Release, storeVars
  <1> QED
    BY <1>1, <1>2, <1>4 DEF Next

\* Publishing implements the registers: every version is written at most
\* once, and the answer of an upload is the one a single moment decided.
THEOREM PublishingImplementsRegisters == Spec => ImplementsRegisters
  <1>1. PublishingInit => TypeInv /\ Registers!Init
    <2>1. ASSUME PublishingInit
          PROVE  /\ Contents = [k \in VersionKey |-> Empty]
                 /\ Calls = [r \in Upload |-> [answer |-> "none"]]
      BY <2>1 DEF PublishingInit, Contents, Calls, CallOf, VersionKey, NoVersion
    <2> QED
      BY <2>1, Mapping, PublishingInitType
  <1>2. TypeInv /\ [Next]_vars => TypeInv'
    BY NextType
  <1>3. TypeInv /\ [Next]_vars => [Registers!Next]_Registers!vars
    BY StepSimulates
  <1> QED
    BY <1>1, <1>2, <1>3, PTL DEF Spec, ImplementsRegisters, Registers!Spec

-----------------------------------------------------------------------------
(* The credentials file.                                                   *)

\* A file any command may read.
Sound(f) ==
  /\ f \in CredentialFile
  /\ f.default # NoUrl => f.tokens[f.default] # NoTok /\ Allowed(f.default)
  /\ \A url \in Url : f.tokens[url] \in KnownAt[url] \cup {NoTok}
  /\ \A url \in Url : f.tokens[url] # NoTok => Allowed(url)

\* And what commands that run have read and are about to write.
CommandsAreSound ==
  /\ DOMAIN cmd = Cmd
  /\ \A p \in Cmd :
       /\ cmd[p].pc = "ask" => /\ cmd[p].url \in Url /\ Allowed(cmd[p].url)
                               /\ cmd[p].token \in Tok /\ Sound(cmd[p].old)
       /\ cmd[p].pc = "save" => Sound(cmd[p].new)

RequestsAreSound ==
  \A s \in request : /\ s.url.scheme = "https" \/ s.url.host \in Loopback
                     /\ s.saved => s.token \in KnownAt[s.url]

CredentialsInv == Sound(file) /\ CommandsAreSound /\ RequestsAreSound

\* The registry a command is for may have its token.
LEMMA ResolvedIsAllowed ==
  ASSUME Sound(file), NEW raws \in SUBSET Written, NEW url \in Resolved(raws)
  PROVE  url \in Url /\ Allowed(url)
  <1>1. CASE raws = {}
    BY <1>1 DEF Resolved, Sound, CredentialFile
  <1>2. CASE raws # {}
    <2>1. PICK raw \in raws : Allowed(raw) /\ url = Normalize(raw)
      BY <1>2 DEF Resolved
    <2>2. raw.scheme \in {"https", "http"} /\ raw.host \in Host
      BY CredentialsConstants DEF Spelling
    <2> QED
      BY <2>1, <2>2 DEF Normalize, Allowed, Url
  <1> QED
    BY <1>1, <1>2

\* Saving a confirmed token, and removing one.
LEMMA ChangesAreSound ==
  ASSUME NEW f, Sound(f), NEW url \in Url
  PROVE  /\ Sound(WithoutToken(f, url))
         /\ \A t \in KnownAt[url] : Allowed(url) => Sound(WithToken(f, url, t))
  <1> USE CredentialsConstants DEF CredentialFile
  <1>1. /\ f.default \in Url \cup {NoUrl} /\ f.tokens \in [Url -> Tok \cup {NoTok}]
        /\ f.default # NoUrl => f.tokens[f.default] # NoTok /\ Allowed(f.default)
        /\ \A u \in Url : f.tokens[u] \in KnownAt[u] \cup {NoTok}
        /\ \A u \in Url : f.tokens[u] # NoTok => Allowed(u)
    BY DEF Sound
  <1>2. Sound(WithoutToken(f, url))
    <2> DEFINE d == IF f.default = url THEN NoUrl ELSE f.default
               ts == [f.tokens EXCEPT ![url] = NoTok]
    <2>1. d \in Url \cup {NoUrl} /\ ts \in [Url -> Tok \cup {NoTok}]
      BY <1>1
    <2>2. \A u \in Url : ts[u] = IF u = url THEN NoTok ELSE f.tokens[u]
      BY <1>1
    <2>3. /\ d # NoUrl => ts[d] # NoTok /\ Allowed(d)
          /\ \A u \in Url : ts[u] \in KnownAt[u] \cup {NoTok}
          /\ \A u \in Url : ts[u] # NoTok => Allowed(u)
      BY <1>1, <2>1, <2>2
    <2>4. WithoutToken(f, url) = [default |-> d, tokens |-> ts]
      BY DEF WithoutToken
    <2> HIDE DEF d, ts
    <2> QED
      BY <2>1, <2>3, <2>4 DEF Sound
  <1>3. ASSUME NEW t \in KnownAt[url], Allowed(url) PROVE Sound(WithToken(f, url, t))
    <2> DEFINE ts == [f.tokens EXCEPT ![url] = t]
    <2>1. t \in Tok /\ t # NoTok
      OBVIOUS
    <2>2. ts \in [Url -> Tok \cup {NoTok}] /\ \A u \in Url : ts[u] = IF u = url THEN t ELSE f.tokens[u]
      BY <1>1, <2>1
    <2>3. /\ ts[url] # NoTok
          /\ \A u \in Url : ts[u] \in KnownAt[u] \cup {NoTok}
          /\ \A u \in Url : ts[u] # NoTok => Allowed(u)
      BY <1>1, <1>3, <2>1, <2>2
    <2>4. WithToken(f, url, t) = [default |-> url, tokens |-> ts]
      BY DEF WithToken
    <2> HIDE DEF ts
    <2> QED
      BY <1>3, <2>2, <2>3, <2>4 DEF Sound
  <1> QED
    BY <1>2, <1>3

\* It holds at first.
LEMMA CredentialsInitially == CredentialsInit => CredentialsInv
  BY CredentialsConstants
     DEF CredentialsInit, CredentialsInv, NoFile, NoCmd, Sound, CredentialFile, CommandsAreSound, RequestsAreSound

\* Every step keeps it.
LEMMA CredentialsStep == CredentialsInv /\ [CredentialsNext]_credentialVars => CredentialsInv'
  <1> SUFFICES ASSUME CredentialsInv, [CredentialsNext]_credentialVars PROVE CredentialsInv'
    OBVIOUS
  <1> USE DEF CredentialsInv
  <1> DEFINE Registries == {{}} \cup {{raw} : raw \in Written}
  <1>r. \A raws \in Registries : raws \in SUBSET Written
    OBVIOUS
  <1>1. ASSUME NEW p \in Cmd, NEW raws \in Registries, NEW t \in Tok, BeginLogin(p, raws, t) PROVE CredentialsInv'
    <2>1. PICK url \in Resolved(raws) : cmd' = [cmd EXCEPT ![p] = [pc |-> "ask", url |-> url, token |-> t, old |-> file]]
      BY <1>1 DEF BeginLogin
    <2>2. url \in Url /\ Allowed(url)
      BY <1>r, ResolvedIsAllowed
    <2>3. CommandsAreSound'
      BY <2>1, <2>2 DEF CommandsAreSound
    <2> QED
      BY <1>1, <2>3 DEF BeginLogin, NoRequest, RequestsAreSound
  <1>2. ASSUME NEW p \in Cmd, NEW raws \in Registries, BeginLogout(p, raws) PROVE CredentialsInv'
    <2>1. PICK url \in Resolved(raws) : cmd' = [cmd EXCEPT ![p] = [pc |-> "save", new |-> WithoutToken(file, url)]]
      BY <1>2 DEF BeginLogout
    <2>2. Sound(WithoutToken(file, url))
      BY <1>r, ResolvedIsAllowed, ChangesAreSound
    <2>3. CommandsAreSound'
      BY <2>1, <2>2 DEF CommandsAreSound
    <2> QED
      BY <1>2, <2>3 DEF BeginLogout, NoRequest, RequestsAreSound
  <1>3. ASSUME NEW p \in Cmd, NEW raws \in Registries, UseToken(p, raws) PROVE CredentialsInv'
    <2>1. PICK url \in Resolved(raws) : /\ TokenFor(url) # NoTok
                                        /\ request' = {[url |-> url, token |-> TokenFor(url), saved |-> TRUE]}
      BY <1>3 DEF UseToken
    <2>2. url \in Url /\ Allowed(url) /\ TokenFor(url) \in KnownAt[url]
      BY <1>r, <2>1, ResolvedIsAllowed DEF TokenFor, Sound
    <2>3. RequestsAreSound'
      BY <2>1, <2>2 DEF RequestsAreSound, Allowed
    <2> QED
      BY <1>3, <2>3 DEF UseToken, CommandsAreSound
  <1>4. ASSUME NEW p \in Cmd, AskWho(p) PROVE CredentialsInv'
    <2>1. /\ cmd[p].url \in Url /\ Allowed(cmd[p].url) /\ cmd[p].token \in Tok /\ Sound(cmd[p].old)
          /\ request' = {[url |-> cmd[p].url, token |-> cmd[p].token, saved |-> FALSE]}
      BY <1>4 DEF AskWho, CommandsAreSound
    <2>2. RequestsAreSound'
      BY <2>1 DEF RequestsAreSound, Allowed
    <2>3. CASE cmd[p].token \in KnownAt[cmd[p].url]
      <3>1. Sound(WithToken(cmd[p].old, cmd[p].url, cmd[p].token))
        BY <2>1, <2>3, ChangesAreSound
      <3>2. cmd' = [cmd EXCEPT ![p] = [pc |-> "save", new |-> WithToken(cmd[p].old, cmd[p].url, cmd[p].token)]]
        BY <1>4, <2>3 DEF AskWho
      <3>3. CommandsAreSound'
        BY <3>1, <3>2 DEF CommandsAreSound
      <3> QED
        BY <1>4, <2>2, <3>3 DEF AskWho
    <2>4. CASE cmd[p].token \notin KnownAt[cmd[p].url]
      BY <1>4, <2>2, <2>4 DEF AskWho, CommandEnds, NoCmd, CommandsAreSound
    <2> QED
      BY <2>3, <2>4
  <1>5. ASSUME NEW p \in Cmd, SaveConfig(p) PROVE CredentialsInv'
    BY <1>5 DEF SaveConfig, CommandEnds, NoCmd, NoRequest, CommandsAreSound, RequestsAreSound
  <1>6. ASSUME NEW p \in Cmd, CommandFails(p) PROVE CredentialsInv'
    BY <1>6 DEF CommandFails, CommandEnds, NoCmd, NoRequest, CommandsAreSound, RequestsAreSound
  <1>7. CASE UNCHANGED credentialVars
    BY <1>7 DEF credentialVars, CommandsAreSound, RequestsAreSound
  <1> QED
    BY <1>1, <1>2, <1>3, <1>4, <1>5, <1>6, <1>7 DEF CredentialsNext

\* Tokens go to the registry that gave them, and over https or to this machine.
LEMMA TokensStayHome == CredentialsSpec => []TokensGoHome
  <1>1. CredentialsInv => TokensGoHome
    BY DEF CredentialsInv, Sound, RequestsAreSound, TokensGoHome
  <1> QED
    BY CredentialsInitially, CredentialsStep, <1>1, PTL DEF CredentialsSpec

-----------------------------------------------------------------------------
(* Releases.                                                               *)

\* After its commit is found, a run knows it; after the zip is built, too.
Resolves == {"token", "whoami", "mint", "build", "upload", "sent", "answered", "ok", "checked", "conflict"}
Sending == {"upload", "sent", "answered", "ok", "conflict"}
Job == [pc : {"none", "resolve", "error"} \cup Resolves, run : Nat, version : Tagged \cup {""},
        token : {"own", "workflow", "none"}, dry : BOOLEAN,
        commit : GitCommit \cup {NoCommit}, zip : GitCommit \cup {NoCommit}, stored : GitCommit \cup {NoCommit}]
Path == PathsDeclared
UploadType == [run : Nat, path : Path, version : Tagged, zip : GitCommit, commit : GitCommit]

\* Tags that are there have been named; and nothing is forgotten.
TagsAreNamed ==
  /\ tag \in [Tagged -> GitCommit \cup {NoCommit}]
  /\ \A v \in Tagged : tag[v] # NoCommit => <<v, tag[v]>> \in named

\* What a run has read of its tag's commit is of that commit.
RunOfItsTag(j) ==
  /\ j.pc # "none" => j.version \in Tagged
  /\ j.pc \in Resolves => j.commit \in GitCommit /\ <<j.version, j.commit>> \in named
  /\ j.pc \in Sending => j.zip = j.commit
RunsOfTheirTags == job \in [Runner -> Job] /\ \A p \in Runner : RunOfItsTag(job[p])

\* An upload is of the run whose number it has.
RunsAreNumbered ==
  /\ runs \in Nat
  /\ \A p \in Runner : job[p].run <= runs
  /\ \A p, q \in Runner : job[p].run = job[q].run /\ job[p].run # 0 => p = q
  /\ \A p \in Runner : job[p].pc # "none" => job[p].run # 0
UploadsAreOfRuns ==
  /\ uploads \subseteq UploadType
  /\ \A u \in uploads :
       /\ u.run <= runs /\ u.run # 0
       /\ u.zip = u.commit /\ u.path = ModPathAt[u.commit] /\ <<u.version, u.commit>> \in named
       /\ \A p \in Runner : job[p].run = u.run =>
            job[p].pc \in {"sent", "answered", "ok", "conflict", "error"} /\ (job[p].pc = "sent" => u = UploadOf(job[p]))

\* Releases are made of one commit, and answers tell what was released.
ReleasesAreOfCommits ==
  /\ release \in [Path \X Tagged -> [files : GitCommit \cup {NoCommit}, says : GitCommit \cup {NoCommit}]]
  /\ \A k \in Path \X Tagged : release[k] # NoRelease =>
       /\ release[k].files = release[k].says /\ release[k].says \in GitCommit
       /\ <<k[2], release[k].says>> \in named /\ ModPathAt[release[k].says] = k[1]

AnsweredTruly(j) ==
  LET k == <<ModuleOf(j), j.version>> IN
  /\ j.pc = "answered" => Released(k[1], k[2]) /\ j.stored = release[k].files
  /\ j.pc = "ok" => Released(k[1], k[2]) /\ FilesAt[release[k].files] = FilesAt[j.commit]
  /\ j.pc = "conflict" => Released(k[1], k[2]) /\ FilesAt[release[k].files] # FilesAt[j.commit]

ClientInv ==
  /\ TagsAreNamed /\ RunsOfTheirTags /\ RunsAreNumbered /\ UploadsAreOfRuns /\ ReleasesAreOfCommits
  /\ \A p \in Runner : AnsweredTruly(job[p])

\* What the invariant says is what the command line promises.
LEMMA ClientKeepsItsWord == ClientInv => PublishKeepsItsWord
  <1> SUFFICES ASSUME ClientInv PROVE PublishKeepsItsWord
    OBVIOUS
  <1> USE DEF ClientInv
  <1>1. ReleasesAreTagged
    <2>1. DOMAIN release = Path \X Tagged
      BY DEF ReleasesAreOfCommits
    <2> QED
      BY <2>1 DEF ReleasesAreTagged, ReleasesAreOfCommits, Path
  <1>2. ExitsAreTrue
    <2> SUFFICES ASSUME NEW p \in Runner, RunAt(p, "ok") \/ RunAt(p, "conflict")
                 PROVE  LET j == job[p] IN
                        LET same == FilesAt[release[<<ModuleOf(j), j.version>>].files] = FilesAt[j.commit] IN
                        Released(ModuleOf(j), j.version) /\ (same <=> RunAt(p, "ok"))
      BY DEF ExitsAreTrue
    <2>1. AnsweredTruly(job[p])
      OBVIOUS
    <2> QED
      BY <2>1 DEF AnsweredTruly, RunAt
  <1> QED
    BY <1>1, <1>2 DEF PublishKeepsItsWord

\* A runner without a command.
LEMMA NotRunIsAJob == NotRun \in Job /\ NotRun.pc = "none" /\ NotRun.run = 0
  <1>1. NotRun \in Job
    <2>1. PICK d \in BOOLEAN : NotRun = [pc |-> "none", run |-> 0, version |-> "", token |-> "none", dry |-> d,
           commit |-> NoCommit, zip |-> NoCommit, stored |-> NoCommit]
      BY DEF NotRun
    <2>2. NoCommit \in GitCommit \cup {NoCommit} /\ 0 \in Nat /\ "" \in Tagged \cup {""}
      OBVIOUS
    <2> QED
      BY <2>1, <2>2 DEF Job
  <1> QED
    BY <1>1 DEF NotRun

\* It holds at first.
LEMMA ClientInitially == ClientInit => ClientInv
  <1> SUFFICES ASSUME ClientInit PROVE ClientInv
    OBVIOUS
  <1> USE ClientConstants DEF ClientInit
  <1>1. TagsAreNamed
    BY DEF TagsAreNamed
  <1>3. NotRun \in Job /\ NotRun.pc = "none" /\ NotRun.run = 0
    BY NotRunIsAJob
  <1>4. RunsOfTheirTags
    BY <1>3 DEF RunsOfTheirTags, RunOfItsTag, Resolves, Sending
  <1>5. RunsAreNumbered /\ UploadsAreOfRuns
    BY <1>3 DEF RunsAreNumbered, UploadsAreOfRuns
  <1>6. ReleasesAreOfCommits
    BY DEF ReleasesAreOfCommits, NoRelease, Path
  <1>7. \A p \in Runner : AnsweredTruly(job[p])
    BY <1>3 DEF AnsweredTruly
  <1> QED
    BY <1>1, <1>4, <1>5, <1>6, <1>7 DEF ClientInv

\* A step of one run that sends nothing: what it may change.
LEMMA RunOnlyStep ==
  ASSUME ClientInv, RunOnly, NEW p \in Runner, NEW j,
         job' = [job EXCEPT ![p] = j], j \in Job, RunOfItsTag(j), AnsweredTruly(j),
         job[p].pc # "none", j.run = job[p].run, j.version = job[p].version, j.pc # "none",
         job[p].pc = "sent" => j.pc = "error",
         j.pc = "sent" => job[p].pc = "sent",
         job[p].pc \in {"answered", "ok", "conflict", "error"} => j.pc \in {"answered", "ok", "conflict", "error"}
  PROVE  ClientInv'
  <1> USE DEF ClientInv, RunOnly, repositoryVars
  <1>1. /\ job'[p] = j /\ \A q \in Runner : q # p => job'[q] = job[q]
        /\ job' \in [Runner -> Job]
    BY DEF RunsOfTheirTags
  <1>2. TagsAreNamed' /\ ReleasesAreOfCommits'
    BY DEF TagsAreNamed, ReleasesAreOfCommits
  <1>3. RunOfItsTag(j)' /\ AnsweredTruly(j)'
    BY DEF RunOfItsTag, AnsweredTruly, Released
  <1>4. RunsOfTheirTags'
    BY <1>1 DEF RunsOfTheirTags, RunOfItsTag
  <1>5. RunsAreNumbered'
    BY <1>1 DEF RunsAreNumbered
  <1>6. UploadsAreOfRuns'
    BY <1>1 DEF UploadsAreOfRuns, UploadOf, ModuleOf
  <1>7. \A q \in Runner : AnsweredTruly(job[q])'
    BY <1>1 DEF AnsweredTruly, Released
  <1> QED
    BY <1>2, <1>4, <1>5, <1>6, <1>7

\* A job that only goes on is still of its tag.
LEMMA GoesTo ==
  ASSUME ClientInv, NEW p \in Runner, NEW pc \in {"none", "resolve", "error"} \cup Resolves
  PROVE  LET j == [job[p] EXCEPT !.pc = pc] IN
         /\ j \in Job /\ j.pc = pc /\ j.run = job[p].run /\ j.version = job[p].version
         /\ j.commit = job[p].commit /\ j.zip = job[p].zip /\ j.stored = job[p].stored
  BY DEF ClientInv, RunsOfTheirTags, Job

\* The next statement of a command.
LEMMA RunStepKeepsIt == ASSUME ClientInv, NEW p \in Runner, RunStep(p) PROVE ClientInv'
  <1> USE ClientConstants DEF RunAt
  <1>a. job \in [Runner -> Job] /\ job[p] \in Job /\ RunOfItsTag(job[p]) /\ AnsweredTruly(job[p])
    BY DEF ClientInv, RunsOfTheirTags
  <1>1. ASSUME NEW v \in Tagged, NEW source \in TokensOf[p], NEW dry \in BOOLEAN, NEW byName \in BOOLEAN,
               StartPublish(p, v, source, dry, byName)
        PROVE  ClientInv'
    <2>1. PICK n \in Nat : n = runs + 1
      BY DEF ClientInv, RunsAreNumbered
    <2> DEFINE j == [NotRun EXCEPT !.pc = "resolve", !.run = n, !.version = v, !.token = source, !.dry = dry]
    <2>3. source \in {"own", "workflow", "none"}
      OBVIOUS
    <2>4. j \in Job /\ j.pc = "resolve" /\ j.run = n /\ j.version = v
      BY <2>3, NotRunIsAJob DEF Job
    <2>5. job' = [job EXCEPT ![p] = j] /\ runs' = n
      BY <1>1, <2>1 DEF StartPublish
    <2> HIDE DEF j
    <2>6. job'[p] = j /\ (\A q \in Runner : q # p => job'[q] = job[q]) /\ job' \in [Runner -> Job]
      BY <1>a, <2>4, <2>5
    <2>7. TagsAreNamed' /\ ReleasesAreOfCommits'
      BY <1>1 DEF StartPublish, repositoryVars, ClientInv, TagsAreNamed, ReleasesAreOfCommits
    <2>8. RunsOfTheirTags'
      <3>1. \A q \in Runner : q # p => RunOfItsTag(job[q])'
        BY <1>1, <2>6 DEF StartPublish, repositoryVars, ClientInv, RunsOfTheirTags, RunOfItsTag
      <3>2. RunOfItsTag(job[p])'
        BY <2>4, <2>6 DEF RunOfItsTag, Resolves, Sending
      <3> QED
        BY <2>6, <3>1, <3>2 DEF RunsOfTheirTags
    <2>9. \A q \in Runner : job[q].run \in Nat /\ job[q].run <= runs
      BY DEF ClientInv, RunsAreNumbered, RunsOfTheirTags, Job
    <2>10. RunsAreNumbered'
      BY <2>1, <2>4, <2>5, <2>6, <2>9 DEF ClientInv, RunsAreNumbered
    <2>11. UploadsAreOfRuns'
      <3>1. \A u \in uploads : u.run \in Nat /\ u.run <= runs
        BY DEF ClientInv, UploadsAreOfRuns, UploadType
      <3>2. UNCHANGED <<uploads, named>> /\ UploadsAreOfRuns
        <4>1. UNCHANGED <<uploads, named>>
          BY <1>1 DEF StartPublish, repositoryVars
        <4>2. UploadsAreOfRuns
          BY DEF ClientInv
        <4> QED
          BY <4>1, <4>2
      <3>3. \A u \in uploads : u.run # job'[p].run /\ u.run <= runs'
        <4>1. runs \in Nat
          BY DEF ClientInv, RunsAreNumbered
        <4> QED
          BY <2>1, <2>4, <2>5, <2>6, <3>1, <4>1
      <3>4. \A q \in Runner : q # p => job'[q] = job[q] /\ UploadOf(job[q])' = UploadOf(job[q])
        BY <2>6 DEF UploadOf, ModuleOf
      <3>5. ASSUME NEW u \in uploads', NEW q \in Runner, job'[q].run = u.run
            PROVE  /\ job'[q].pc \in {"sent", "answered", "ok", "conflict", "error"}
                   /\ job'[q].pc = "sent" => u = UploadOf(job[q])'
        <4>1. q # p /\ u \in uploads
          BY <3>2, <3>3, <3>5
        <4> QED
          BY <3>2, <3>4, <3>5, <4>1 DEF UploadsAreOfRuns
      <3>6. UploadType' = UploadType
        BY DEF UploadType
      <3> QED
        BY <3>2, <3>3, <3>5, <3>6 DEF UploadsAreOfRuns
    <2>12. \A q \in Runner : AnsweredTruly(job[q])'
      <3>1. UNCHANGED release /\ \A q \in Runner : AnsweredTruly(job[q])
        BY <1>1 DEF StartPublish, ClientInv
      <3> QED
        BY <2>4, <2>6, <3>1 DEF AnsweredTruly, Released
    <2> QED
      BY <2>7, <2>8, <2>10, <2>11, <2>12 DEF ClientInv
  <1>2. CASE ResolveTag(p)
    <2> DEFINE c == tag[job[p].version]
               j == [job[p] EXCEPT !.pc = IF c = NoCommit THEN "error" ELSE "token", !.commit = c]
    <2>1. job[p].pc = "resolve" /\ job' = [job EXCEPT ![p] = j] /\ RunOnly
      BY <1>a, <1>2 DEF ResolveTag
    <2>2. job[p].version \in Tagged
      BY <1>a, <2>1 DEF RunOfItsTag
    <2>3. c \in GitCommit \cup {NoCommit} /\ (c # NoCommit => <<job[p].version, c>> \in named)
      BY <2>2 DEF ClientInv, TagsAreNamed
    <2>c. PICK pc \in {"error", "token"}, d \in GitCommit \cup {NoCommit} :
            d = c /\ pc = IF c = NoCommit THEN "error" ELSE "token"
      BY <2>3
    <2>4. /\ j \in Job /\ j.run = job[p].run /\ j.version = job[p].version /\ j.commit = c
          /\ j.pc = IF c = NoCommit THEN "error" ELSE "token"
      <3>1. j = [job[p] EXCEPT !.pc = pc, !.commit = d]
        BY <2>c
      <3> HIDE DEF j
      <3>2. j.run = job[p].run /\ j.version = job[p].version /\ j.commit = d /\ j.pc = pc
        BY <1>a, <3>1 DEF Job
      <3>3. j \in Job
        BY <1>a, <3>1 DEF Job, Resolves
      <3> QED
        BY <2>c, <3>2, <3>3
    <2> HIDE DEF j
    <2>5. RunOfItsTag(j) /\ AnsweredTruly(j)
      BY <2>2, <2>3, <2>4 DEF RunOfItsTag, AnsweredTruly, Resolves, Sending
    <2> QED
      BY <2>1, <2>4, <2>5, RunOnlyStep
  <1>3. ASSUME NEW pc \in {"whoami", "mint", "build", "error", "ok"}, RunGoes(p, pc), RunOnly,
               job[p].pc \in {"token", "whoami", "mint", "answered"}, pc = "ok" => job[p].pc = "answered",
               job[p].pc = "answered" => pc \in {"ok", "error"},
               pc = "ok" => FilesAt[job[p].stored] = FilesAt[job[p].zip]
        PROVE  ClientInv'
    <2> DEFINE j == [job[p] EXCEPT !.pc = pc]
    <2>1. /\ j \in Job /\ j.pc = pc /\ j.run = job[p].run /\ j.version = job[p].version
          /\ j.commit = job[p].commit /\ j.zip = job[p].zip /\ j.stored = job[p].stored
      BY GoesTo DEF Resolves
    <2>2. job' = [job EXCEPT ![p] = j]
      BY <1>a, <1>3 DEF RunGoes
    <2> HIDE DEF j
    <2>3. RunOfItsTag(j)
      BY <1>a, <1>3, <2>1 DEF RunOfItsTag, Resolves, Sending
    <2>4. AnsweredTruly(j)
      BY <1>a, <1>3, <2>1, <2>3 DEF AnsweredTruly, ModuleOf, RunOfItsTag, Sending
    <2> QED
      BY <1>3, <2>1, <2>2, <2>3, <2>4, RunOnlyStep
  <1>4. CASE ChooseToken(p) \/ AskWhoami(p) \/ MintToken(p)
    <2>1. PICK pc \in {"whoami", "mint", "build", "error"} : RunGoes(p, pc)
      BY <1>4 DEF ChooseToken, AskWhoami, MintToken
    <2> QED
      BY <1>3, <1>4, <2>1 DEF ChooseToken, AskWhoami, MintToken
  <1>5. CASE Conclude(p)
    BY <1>3, <1>5 DEF Conclude
  <1>6. CASE BuildZip(p)
    <2> DEFINE j == [job[p] EXCEPT !.pc = IF job[p].dry THEN "checked" ELSE "upload", !.zip = job[p].commit]
    <2>1. job[p].pc = "build" /\ job' = [job EXCEPT ![p] = j] /\ RunOnly
      BY <1>a, <1>6 DEF BuildZip
    <2>2. job[p].commit \in GitCommit
      BY <1>a, <2>1 DEF RunOfItsTag, Resolves
    <2>3. /\ j \in Job /\ j.run = job[p].run /\ j.version = job[p].version /\ j.commit = job[p].commit
          /\ j.zip = job[p].commit /\ j.pc \in {"checked", "upload"}
      BY <1>a, <2>2 DEF Job, Resolves
    <2> HIDE DEF j
    <2>4. RunOfItsTag(j) /\ AnsweredTruly(j)
      BY <1>a, <2>1, <2>3 DEF RunOfItsTag, AnsweredTruly, Resolves, Sending
    <2> QED
      BY <2>1, <2>3, <2>4, RunOnlyStep
  <1>7. CASE SendUpload(p)
    <2> DEFINE j == [job[p] EXCEPT !.pc = "sent"]
               u == UploadOf(job[p])
    <2>1. job[p].pc = "upload" /\ job' = [job EXCEPT ![p] = j] /\ uploads' = uploads \cup {u}
      BY <1>a, <1>7 DEF SendUpload, RunGoes
    <2>2. /\ job[p].commit \in GitCommit /\ <<job[p].version, job[p].commit>> \in named /\ job[p].zip = job[p].commit
          /\ job[p].version \in Tagged /\ job[p].run \in Nat /\ job[p].run # 0 /\ job[p].run <= runs
      BY <1>a, <2>1 DEF RunOfItsTag, Resolves, Sending, ClientInv, RunsAreNumbered, Job
    <2>3. /\ j \in Job /\ j.pc = "sent" /\ j.run = job[p].run /\ j.version = job[p].version
          /\ j.commit = job[p].commit /\ j.zip = job[p].zip /\ j.stored = job[p].stored
      BY GoesTo DEF Resolves
    <2>4. /\ u \in UploadType /\ u.run = job[p].run /\ u.version = job[p].version /\ u.commit = job[p].commit
          /\ u.zip = job[p].commit /\ u.path = ModPathAt[job[p].commit]
      BY <2>2 DEF UploadOf, UploadType, ModuleOf, PathsDeclared, Path
    <2>5. UploadOf(j) = u
      BY <2>3 DEF UploadOf, ModuleOf
    <2>6. \A w \in uploads : w.run # job[p].run
      BY <2>1 DEF ClientInv, UploadsAreOfRuns
    <2> HIDE DEF j, u
    <2>7. job'[p] = j /\ (\A q \in Runner : q # p => job'[q] = job[q]) /\ job' \in [Runner -> Job]
      BY <1>a, <2>1, <2>3
    <2>8. TagsAreNamed' /\ ReleasesAreOfCommits'
      BY <1>7 DEF SendUpload, repositoryVars, ClientInv, TagsAreNamed, ReleasesAreOfCommits
    <2>9. RunsOfTheirTags'
      <3>1. \A q \in Runner : q # p => RunOfItsTag(job[q])'
        BY <1>7, <2>7 DEF SendUpload, repositoryVars, ClientInv, RunsOfTheirTags, RunOfItsTag
      <3>2. RunOfItsTag(job[p])'
        BY <1>7, <2>2, <2>3, <2>7 DEF SendUpload, repositoryVars, RunOfItsTag, Resolves, Sending
      <3> QED
        BY <2>7, <3>1, <3>2 DEF RunsOfTheirTags
    <2>10. RunsAreNumbered'
      BY <1>7, <2>3, <2>2, <2>7 DEF SendUpload, ClientInv, RunsAreNumbered
    <2>11. UploadsAreOfRuns'
      <3>1. \A q \in Runner : q # p => job'[q] = job[q] /\ job[q].run # job[p].run
        BY <2>2, <2>7 DEF ClientInv, RunsAreNumbered
      <3>2. \A q \in Runner : job'[q].run = u.run => q = p
        BY <2>4, <3>1
      <3>3. \A w \in uploads : \A q \in Runner : job'[q].run = w.run =>
              job'[q].pc \in {"sent", "answered", "ok", "conflict", "error"} /\ (job'[q].pc = "sent" => w = UploadOf(job'[q]))
        <4>1. \A w \in uploads : \A q \in Runner : job[q].run = w.run =>
                job[q].pc \in {"sent", "answered", "ok", "conflict", "error"} /\ (job[q].pc = "sent" => w = UploadOf(job[q]))
          BY DEF ClientInv, UploadsAreOfRuns
        <4>2. job'[p].run = job[p].run
          BY <2>3, <2>7
        <4> QED
          BY <2>6, <2>7, <4>1, <4>2
      <3>4. uploads' \subseteq UploadType /\ runs' = runs /\ named' = named
        BY <1>7, <2>1, <2>4 DEF SendUpload, repositoryVars, ClientInv, UploadsAreOfRuns
      <3>5. \A w \in uploads : /\ w.run <= runs /\ w.run # 0
                               /\ w.zip = w.commit /\ w.path = ModPathAt[w.commit] /\ <<w.version, w.commit>> \in named
        BY DEF ClientInv, UploadsAreOfRuns
      <3>6. job'[p].pc = "sent" /\ UploadOf(job'[p]) = u
        BY <2>3, <2>5, <2>7
      <3>7. ASSUME NEW w \in uploads'
            PROVE
              /\ w.run <= runs' /\ w.run # 0
              /\ w.zip = w.commit /\ w.path = ModPathAt[w.commit] /\ <<w.version, w.commit>> \in named'
              /\ \A q \in Runner : job'[q].run = w.run =>
                   /\ job'[q].pc \in {"sent", "answered", "ok", "conflict", "error"}
                   /\ job'[q].pc = "sent" => w = UploadOf(job'[q])
        <4>1. CASE w = u
          BY <2>2, <2>4, <3>2, <3>4, <3>6, <4>1
        <4>2. CASE w \in uploads
          BY <3>3, <3>4, <3>5, <4>2
        <4> QED
          BY <2>1, <4>1, <4>2
      <3>8. \A q \in Runner : UploadOf(job[q])' = UploadOf(job'[q])
        BY DEF UploadOf, ModuleOf
      <3> QED
        BY <3>4, <3>7, <3>8 DEF UploadsAreOfRuns
    <2>12. \A q \in Runner : AnsweredTruly(job[q])'
      BY <1>7, <2>3, <2>7 DEF SendUpload, ClientInv, AnsweredTruly, Released
    <2> QED
      BY <2>8, <2>9, <2>10, <2>11, <2>12 DEF ClientInv
  <1>8. CASE GiveUpUpload(p)
    <2> DEFINE j == [job[p] EXCEPT !.pc = "error"]
    <2>1. /\ job[p].pc = "sent" /\ job' = [job EXCEPT ![p] = j] /\ uploads' \subseteq uploads
          /\ UNCHANGED <<tag, head, named, moves, release, runs>>
      BY <1>a, <1>8 DEF GiveUpUpload, RunGoes, repositoryVars
    <2>2. /\ j \in Job /\ j.pc = "error" /\ j.run = job[p].run /\ j.version = job[p].version
      BY GoesTo
    <2> HIDE DEF j
    <2>3. job'[p] = j /\ (\A q \in Runner : q # p => job'[q] = job[q]) /\ job' \in [Runner -> Job]
      BY <1>a, <2>1, <2>2
    <2>4. TagsAreNamed' /\ ReleasesAreOfCommits'
      BY <2>1 DEF ClientInv, TagsAreNamed, ReleasesAreOfCommits
    <2>5. RunsOfTheirTags'
      <3>1. \A q \in Runner : q # p => RunOfItsTag(job[q])'
        BY <2>1, <2>3 DEF ClientInv, RunsOfTheirTags, RunOfItsTag
      <3>2. RunOfItsTag(job[p])'
        BY <1>a, <2>1, <2>2, <2>3 DEF RunOfItsTag, Resolves, Sending
      <3> QED
        BY <2>3, <3>1, <3>2 DEF RunsOfTheirTags
    <2>6. RunsAreNumbered'
      BY <2>1, <2>2, <2>3 DEF ClientInv, RunsAreNumbered
    <2>7. UploadsAreOfRuns'
      BY <2>1, <2>2, <2>3 DEF ClientInv, UploadsAreOfRuns, UploadOf, ModuleOf
    <2>8. \A q \in Runner : AnsweredTruly(job[q])'
      BY <2>1, <2>2, <2>3 DEF ClientInv, AnsweredTruly, Released
    <2> QED
      BY <2>4, <2>5, <2>6, <2>7, <2>8 DEF ClientInv
  <1> QED
    BY <1>1, <1>2, <1>4, <1>5, <1>6, <1>7, <1>8 DEF RunStep

\* The registry answers an upload: whoever waits for it learns what is
\* released, and nothing that was released changes.
LEMMA AnswerKeepsIt ==
  ASSUME ClientInv, NEW u \in uploads, NEW pc \in {"answered", "conflict", "error"},
         NEW stored \in GitCommit \cup {NoCommit},
         AnswerRuns(u, pc, stored), Handled(u),
         ReleasesAreOfCommits', \A k \in Path \X Tagged : release[k] # NoRelease => release'[k] = release[k],
         pc = "answered" => Released(u.path, u.version)' /\ stored = release'[<<u.path, u.version>>].files,
         pc = "conflict" => Released(u.path, u.version)' /\ FilesAt[release'[<<u.path, u.version>>].files] # FilesAt[u.commit]
  PROVE  ClientInv'
  <1> DEFINE Answered(p) ==
        /\ job[p].pc = "sent" /\ u = UploadOf(job[p])
        /\ job'[p].pc = pc /\ job'[p].stored = stored
        /\ job'[p].run = job[p].run /\ job'[p].version = job[p].version
        /\ job'[p].commit = job[p].commit /\ job'[p].zip = job[p].zip
  <1>1. /\ job' \in [Runner -> Job]
        /\ \A p \in Runner : job'[p] = job[p] \/ Answered(p)
    <2>1. ASSUME NEW p \in Runner PROVE job'[p] \in Job /\ (job'[p] = job[p] \/ Answered(p))
      <3>1. job[p] \in Job
        BY DEF ClientInv, RunsOfTheirTags
      <3>2. CASE job[p].pc = "sent" /\ job[p].run = u.run
        <4>1. job'[p] = [job[p] EXCEPT !.pc = pc, !.stored = stored]
          BY <3>2 DEF AnswerRuns, RunAt
        <4>2. u = UploadOf(job[p])
          BY <3>2 DEF ClientInv, UploadsAreOfRuns
        <4> QED
          BY <3>1, <3>2, <4>1, <4>2 DEF Job, Resolves
      <3>3. CASE ~(job[p].pc = "sent" /\ job[p].run = u.run)
        BY <3>1, <3>3 DEF AnswerRuns, RunAt
      <3> QED
        BY <3>2, <3>3
    <2>2. job' = [p \in Runner |-> job'[p]]
      BY DEF AnswerRuns
    <2> QED
      BY <2>1, <2>2
  <1> HIDE DEF Answered
  <1>2. /\ uploads' = uploads \ {u}
        /\ UNCHANGED <<tag, head, named, moves, runs>>
    BY DEF Handled, repositoryVars
  <1>3. TagsAreNamed'
    BY <1>2 DEF ClientInv, TagsAreNamed
  <1>4. ASSUME NEW p \in Runner PROVE RunOfItsTag(job[p])' /\ AnsweredTruly(job[p])'
    <2>1. RunOfItsTag(job[p]) /\ AnsweredTruly(job[p])
      BY DEF ClientInv, RunsOfTheirTags
    <2>2. CASE job'[p] = job[p]
      <3>1. RunOfItsTag(job[p])'
        BY <1>2, <2>1, <2>2 DEF RunOfItsTag
      <3>2. job[p].pc \in {"answered", "ok", "conflict"} => <<ModuleOf(job[p]), job[p].version>> \in Path \X Tagged
        BY <2>1 DEF RunOfItsTag, Resolves, ModuleOf, Path, PathsDeclared
      <3>3. AnsweredTruly(job[p])'
        BY <2>1, <2>2, <3>2 DEF AnsweredTruly, Released, ModuleOf
      <3> QED
        BY <3>1, <3>3
    <2>3. CASE Answered(p)
      <3>1. /\ job[p].version \in Tagged /\ job[p].commit \in GitCommit /\ job[p].zip = job[p].commit
            /\ <<job[p].version, job[p].commit>> \in named
        BY <2>1, <2>3 DEF Answered, RunOfItsTag, Resolves, Sending
      <3>2. RunOfItsTag(job[p])'
        BY <1>2, <2>3, <3>1 DEF Answered, RunOfItsTag
      <3>3. u.path = ModPathAt[job[p].commit] /\ u.version = job[p].version /\ u.commit = job[p].commit
        BY <2>3 DEF Answered, UploadOf, ModuleOf
      <3>4. AnsweredTruly(job[p])'
        BY <2>3, <3>3 DEF Answered, AnsweredTruly, ModuleOf, Released
      <3> QED
        BY <3>2, <3>4
    <2> QED
      BY <1>1, <2>2, <2>3
  <1>5. RunsOfTheirTags'
    BY <1>1, <1>4 DEF RunsOfTheirTags
  <1>6. \A p \in Runner : job'[p].run = job[p].run
    BY <1>1 DEF Answered
  <1>7. RunsAreNumbered'
    BY <1>1, <1>2, <1>6 DEF ClientInv, RunsAreNumbered, Answered
  <1>8. UploadsAreOfRuns'
    BY <1>1, <1>2, <1>6 DEF ClientInv, UploadsAreOfRuns, Answered, UploadOf, ModuleOf
  <1> QED
    BY <1>3, <1>4, <1>5, <1>7, <1>8 DEF ClientInv

\* The registry's work on an upload, which may be of a run that has ended.
LEMMA RegistryKeepsIt == ASSUME ClientInv, NEW u \in uploads, HandleUpload(u) \/ RefuseUpload(u) PROVE ClientInv'
  <1> DEFINE k == <<u.path, u.version>>
  <1>1. /\ u.path \in Path /\ u.version \in Tagged /\ u.zip \in GitCommit /\ u.commit = u.zip
        /\ u.path = ModPathAt[u.commit] /\ <<u.version, u.commit>> \in named
    BY DEF ClientInv, UploadsAreOfRuns, UploadType
  <1>2. ReleasesAreOfCommits /\ k \in Path \X Tagged
    BY <1>1 DEF ClientInv
  <1>3. CASE RefuseUpload(u)
    <2>1. ReleasesAreOfCommits'
      BY <1>2, <1>3 DEF RefuseUpload, Handled, repositoryVars, ReleasesAreOfCommits
    <2> QED
      BY <1>3, <2>1, AnswerKeepsIt DEF RefuseUpload
  <1>4. CASE HandleUpload(u) /\ Released(u.path, u.version)
    <2>1. /\ release' = release /\ Handled(u)
          /\ AnswerRuns(u, IF FilesAt[release[k].files] = FilesAt[u.zip] THEN "answered" ELSE "conflict", release[k].files)
      BY <1>4 DEF HandleUpload
    <2>2. ReleasesAreOfCommits'
      BY <1>2, <2>1 DEF Handled, repositoryVars, ReleasesAreOfCommits
    <2>3. release[k].files \in GitCommit \cup {NoCommit} /\ release[k] # NoRelease
      BY <1>2, <1>4 DEF ReleasesAreOfCommits, Released
    <2>4. CASE FilesAt[release[k].files] = FilesAt[u.zip]
      BY <2>1, <2>2, <2>3, <2>4, AnswerKeepsIt DEF Released
    <2>5. CASE FilesAt[release[k].files] # FilesAt[u.zip]
      BY <1>1, <2>1, <2>2, <2>3, <2>5, AnswerKeepsIt DEF Released
    <2> QED
      BY <2>4, <2>5
  <1>5. CASE HandleUpload(u) /\ ~Released(u.path, u.version)
    <2> DEFINE new == [files |-> u.zip, says |-> u.commit]
    <2>1. release' = [release EXCEPT ![k] = new] /\ Handled(u) /\ AnswerRuns(u, "answered", u.zip)
      BY <1>5 DEF HandleUpload
    <2>2. /\ release'[k] = new /\ \A i \in Path \X Tagged : i # k => release'[i] = release[i]
          /\ release' \in [Path \X Tagged -> [files : GitCommit \cup {NoCommit}, says : GitCommit \cup {NoCommit}]]
      BY <1>1, <1>2, <2>1 DEF ReleasesAreOfCommits
    <2>3. new # NoRelease
      BY <1>1, ClientConstants DEF NoRelease
    <2>4. release[k] = NoRelease
      BY <1>5 DEF Released
    <2>5. ReleasesAreOfCommits'
      <3>1. named' = named /\ k[1] = u.path /\ k[2] = u.version
        BY <2>1 DEF Handled, repositoryVars
      <3>2. \A i \in Path \X Tagged : release[i] # NoRelease =>
              /\ release[i].files = release[i].says /\ release[i].says \in GitCommit
              /\ <<i[2], release[i].says>> \in named /\ ModPathAt[release[i].says] = i[1]
        BY <1>2 DEF ReleasesAreOfCommits
      <3>3. new.files = u.commit /\ new.says = u.commit
        BY <1>1
      <3> HIDE DEF k, new
      <3>4. ASSUME NEW i \in Path \X Tagged, release'[i] # NoRelease
            PROVE  /\ release'[i].files = release'[i].says /\ release'[i].says \in GitCommit
                   /\ <<i[2], release'[i].says>> \in named' /\ ModPathAt[release'[i].says] = i[1]
        <4>1. CASE i = k
          BY <1>1, <2>2, <3>1, <3>3, <4>1
        <4>2. CASE i # k
          BY <2>2, <3>1, <3>2, <3>4, <4>2
        <4> QED
          BY <4>1, <4>2
      <3> QED
        BY <2>2, <3>4 DEF ReleasesAreOfCommits, NoRelease
    <2>6. Released(u.path, u.version)' /\ release'[k].files = u.zip
      BY <2>2, <2>3 DEF Released
    <2> QED
      BY <1>1, <2>1, <2>2, <2>4, <2>5, <2>6, AnswerKeepsIt
  <1> QED
    BY <1>3, <1>4, <1>5

\* Somebody works in the repository: no run and no release changes.
LEMMA RepositoryKeepsIt ==
  ASSUME ClientInv, TagsAreNamed', UNCHANGED <<release, job, uploads, runs>>, named \subseteq named'
  PROVE  ClientInv'
  <1> USE DEF ClientInv
  <1>1. RunsOfTheirTags'
    BY DEF RunsOfTheirTags, RunOfItsTag
  <1>2. RunsAreNumbered'
    BY DEF RunsAreNumbered
  <1>3. UploadsAreOfRuns'
    BY DEF UploadsAreOfRuns, UploadOf, ModuleOf
  <1>4. ReleasesAreOfCommits' /\ \A p \in Runner : AnsweredTruly(job[p])'
    BY DEF ReleasesAreOfCommits, AnsweredTruly, Released, ModuleOf
  <1> QED
    BY <1>1, <1>2, <1>3, <1>4

\* Every step keeps it.
LEMMA ClientStep == ClientInv /\ [ClientNext]_clientVars => ClientInv'
  <1> SUFFICES ASSUME ClientInv, [ClientNext]_clientVars PROVE ClientInv'
    OBVIOUS
  <1>1. ASSUME NEW v \in Tagged, NEW c \in GitCommit, MoveTag(v, c) PROVE ClientInv'
    <2>1. TagsAreNamed' /\ named \subseteq named'
      BY <1>1 DEF MoveTag, ClientInv, TagsAreNamed
    <2> QED
      BY <1>1, <2>1, RepositoryKeepsIt DEF MoveTag
  <1>2. ASSUME NEW c \in GitCommit, CheckOut(c) PROVE ClientInv'
    BY <1>2, RepositoryKeepsIt DEF CheckOut, ClientInv, TagsAreNamed
  <1>3. CASE UNCHANGED clientVars
    BY <1>3, RepositoryKeepsIt DEF clientVars, repositoryVars, ClientInv, TagsAreNamed
  <1> QED
    BY <1>1, <1>2, <1>3, RunStepKeepsIt, RegistryKeepsIt DEF ClientNext

\* "gopherdex publish", run anywhere and any number of times while tags move
\* and answers are lost, and the commands that share the credentials file:
\* a release is made from one commit that its tag has named; the outcome of
\* a run is what the registry has; the default registry has a token; and a
\* token goes to the registry that confirmed it, never in the clear.
THEOREM CommandLineKeeps == CommandLineSpec => []CommandLineKeepsItsWord
  <1>1. ClientSpec => []PublishKeepsItsWord
    BY ClientInitially, ClientStep, ClientKeepsItsWord, PTL DEF ClientSpec
  <1> QED
    BY <1>1, TokensStayHome, PTL DEF CommandLineSpec, CommandLineKeepsItsWord
=============================================================================

---------------------------- MODULE AccessProofs ----------------------------
(***************************************************************************)
(* Theorems about Access, for any users, organizations, modules, teams and *)
(* handlers.  The type invariant comes first; the two properties that an   *)
(* owner remains need it, and that nobody deletes an account: the run that *)
(* lets users delete their accounts refutes them otherwise.  That access   *)
(* is agreed to needs what teams have to do with their organizations.      *)
(***************************************************************************)
EXTENDS Access, TLAPS

OrgRows == Row(OrgRole) \cup {NoRow}
ModuleRows == Row(ModuleRole) \cup {NoRow}

\* An upsert gives a row, invited or accepted, of the role it sets.
LEMMA UpsertType ==
  ASSUME NEW Roles, NEW row \in Row(Roles) \cup {NoRow}, NEW r \in Roles
  PROVE  Upsert(row, r) \in Row(Roles)
  <1>1. CASE row \in Row(Roles)
    BY <1>1 DEF Upsert, Row
  <1>2. CASE row = NoRow
    <2>1. row \in [role : {"none"}, accepted : BOOLEAN]
      BY <1>2 DEF NoRow
    <2> QED
      BY <2>1 DEF Upsert, Row
  <1> QED
    BY <1>1, <1>2

\* An invitation becomes an accepted row of the same role.
LEMMA AcceptType ==
  ASSUME NEW Roles, NEW row \in Row(Roles) \cup {NoRow}, row.role # "none"
  PROVE  [row EXCEPT !.accepted = TRUE] \in Row(Roles)
  <1>1. row \in Row(Roles)
    BY DEF NoRow
  <1> QED
    BY <1>1 DEF Row

\* Deleting a membership, with its triggers, keeps the tables well formed.
LEMMA LeaveTablesType ==
  ASSUME AccessTypeOK, NEW o \in Org, NEW u \in User, LeaveTables(o, u)
  PROVE  /\ member' \in [Org -> [User -> OrgRows]]
         /\ teamMember' \in [Team -> SUBSET User]
         /\ role' \in [Module -> [User -> ModuleRows]]
  <1>1. member' \in [Org -> [User -> OrgRows]]
    BY DEF LeaveTables, AccessTypeOK, OrgRows
  <1>2. teamMember' \in [Team -> SUBSET User]
    BY DEF LeaveTables, AccessTypeOK
  <1>3. role' \in [Module -> [User -> ModuleRows]]
    BY DEF LeaveTables, AccessTypeOK, ModuleRows
  <1> QED
    BY <1>1, <1>2, <1>3

\* What a handler leaves in its session is an operation.
LEMMA CheckType ==
  ASSUME AccessTypeOK, NEW s \in Session, CheckStep(s)
  PROVE  AccessTypeOK'
  <1> USE DEF Check, Operation, AccessTypeOK, tables, orgVars, moduleVars, teamVars
  <1>1. CASE CheckSetCollaborator(s)
    BY <1>1 DEF CheckSetCollaborator
  <1>2. CASE CheckRemoveCollaborator(s)
    BY <1>2 DEF CheckRemoveCollaborator
  <1>3. CASE CheckSetOrgMember(s)
    BY <1>3 DEF CheckSetOrgMember
  <1>4. CASE CheckRemoveOrgMember(s)
    BY <1>4 DEF CheckRemoveOrgMember
  <1>5. CASE CheckSetMemberAccess(s)
    BY <1>5 DEF CheckSetMemberAccess
  <1>6. CASE CheckCreateTeam(s)
    BY <1>6 DEF CheckCreateTeam
  <1>7. CASE CheckDeleteTeam(s)
    BY <1>7 DEF CheckDeleteTeam
  <1>8. CASE CheckAddTeamMember(s)
    BY <1>8 DEF CheckAddTeamMember
  <1>9. CASE CheckRemoveTeamMember(s)
    BY <1>9 DEF CheckRemoveTeamMember
  <1>10. CASE CheckSetTeamModule(s)
    BY <1>10 DEF CheckSetTeamModule
  <1>11. CASE CheckRemoveTeamModule(s)
    BY <1>11 DEF CheckRemoveTeamModule
  <1>12. CASE CheckPublish(s)
    BY <1>12 DEF CheckPublish
  <1>13. CASE CheckDeleteAccount(s)
    BY <1>13 DEF CheckDeleteAccount
  <1> QED
    BY <1>1, <1>2, <1>3, <1>4, <1>5, <1>6, <1>7, <1>8, <1>9, <1>10, <1>11, <1>12, <1>13 DEF CheckStep

\* Creating a module keeps the tables well formed.
LEMMA CreateModuleType ==
  ASSUME AccessTypeOK, NEW u \in User, NEW m \in Module, CreateModuleRow(u, m)
  PROVE  module' \subseteq Module /\ role' \in [Module -> [User -> ModuleRows]]
  <1>1. Accepted("owner") \in ModuleRows /\ Accepted("maintainer") \in ModuleRows
    BY DEF Accepted, ModuleRows, Row, ModuleRole
  <1>2. CreatorsRoles(u, m) \in [User -> ModuleRows]
    BY <1>1 DEF CreatorsRoles, AccessTypeOK, ModuleRows
  <1> QED
    BY <1>2 DEF CreateModuleRow, AccessTypeOK, ModuleRows

\* A handler that commits, or gives up, keeps the tables well formed.
LEMMA CommitType ==
  ASSUME AccessTypeOK, NEW s \in Session, CommitStep(s)
  PROVE  AccessTypeOK'
  <1> DEFINE op == session[s]
  <1>0. /\ op \in Operation \cup {Idle}
        /\ Idle \in Operation \cup {Idle}
    BY DEF AccessTypeOK
  <1>1. CASE SetCollaborator(s)
    <2>1. op \in [op : {"SetCollaborator"}, by : User, mod : Module, user : User, role : ModuleRole]
      BY <1>0, <1>1 DEF SetCollaborator, Commit, Operation, Idle
    <2>2. Upsert(role[op.mod][op.user], op.role) \in ModuleRows
      BY <2>1, UpsertType DEF AccessTypeOK, ModuleRows
    <2> QED
      BY <1>1, <2>1, <2>2 DEF SetCollaborator, Commit, AccessTypeOK, ModuleRows, orgVars, teamVars
  <1>2. CASE RemoveCollaborator(s)
    <2>1. op \in [op : {"RemoveCollaborator"}, by : User, mod : Module, user : User]
      BY <1>0, <1>2 DEF RemoveCollaborator, Commit, Operation, Idle
    <2> QED
      BY <1>2, <2>1 DEF RemoveCollaborator, Commit, AccessTypeOK, orgVars, teamVars
  <1>3. CASE SetOrgMember(s)
    <2>1. op \in [op : {"SetOrgMember"}, by : User, org : Org, user : User, role : OrgRole]
      BY <1>0, <1>3 DEF SetOrgMember, Commit, Operation, Idle
    <2>2. /\ member[op.org][op.user] \in Row(OrgRole) \cup {NoRow}
          /\ op.role \in OrgRole
      BY <2>1 DEF AccessTypeOK
    <2>3. Upsert(member[op.org][op.user], op.role) \in OrgRows
      BY <2>2, UpsertType DEF OrgRows
    <2> QED
      BY <1>3, <2>1, <2>3 DEF SetOrgMember, Commit, AccessTypeOK, OrgRows, moduleVars, teamVars
  <1>4. CASE RemoveOrgMember(s)
    <2>1. op \in [op : {"RemoveOrgMember"}, by : User, org : Org, user : User]
      BY <1>0, <1>4 DEF RemoveOrgMember, Commit, Operation, Idle
    <2>2. /\ member' \in [Org -> [User -> OrgRows]]
          /\ teamMember' \in [Team -> SUBSET User]
          /\ role' \in [Module -> [User -> ModuleRows]]
      BY <1>4, <2>1, LeaveTablesType DEF RemoveOrgMember
    <2> QED
      BY <1>4, <2>1, <2>2 DEF RemoveOrgMember, Commit, AccessTypeOK, OrgRows, ModuleRows
  <1>5. CASE SetMemberAccess(s)
    <2>1. op \in [op : {"SetMemberAccess"}, by : User, org : Org, access : {"maintainer", "none"}]
      BY <1>0, <1>5 DEF SetMemberAccess, Commit, Operation, Idle
    <2> QED
      BY <1>5, <2>1 DEF SetMemberAccess, Commit, AccessTypeOK, moduleVars, teamVars
  <1>6. CASE CreateTeam(s)
    <2>1. op \in [op : {"CreateTeam"}, by : User, org : Org]
      BY <1>0, <1>6 DEF CreateTeam, Commit, Operation, Idle
    <2> QED
      BY <1>6, <2>1 DEF CreateTeam, Commit, AccessTypeOK, orgVars, moduleVars
  <1>7. CASE DeleteTeam(s)
    BY <1>0, <1>7 DEF DeleteTeam, Commit, AccessTypeOK, orgVars, moduleVars
  <1>8. CASE AddTeamMember(s)
    <2>1. op \in [op : {"AddTeamMember", "RemoveTeamMember"}, by : User, team : Team, user : User]
      BY <1>0, <1>8 DEF AddTeamMember, Commit, Operation, Idle
    <2> QED
      BY <1>8, <2>1 DEF AddTeamMember, Commit, AccessTypeOK, orgVars, moduleVars
  <1>9. CASE RemoveTeamMember(s)
    <2>1. op \in [op : {"AddTeamMember", "RemoveTeamMember"}, by : User, team : Team, user : User]
      BY <1>0, <1>9 DEF RemoveTeamMember, Commit, Operation, Idle
    <2> QED
      BY <1>9, <2>1 DEF RemoveTeamMember, Commit, AccessTypeOK, orgVars, moduleVars
  <1>10. CASE SetTeamModule(s)
    <2>1. op \in [op : {"SetTeamModule"}, by : User, team : Team, mod : Module, role : ModuleRole]
      BY <1>0, <1>10 DEF SetTeamModule, Commit, Operation, Idle
    <2> QED
      BY <1>10, <2>1 DEF SetTeamModule, Commit, AccessTypeOK, orgVars, moduleVars
  <1>11. CASE RemoveTeamModule(s)
    <2>1. op \in [op : {"RemoveTeamModule"}, by : User, team : Team, mod : Module]
      BY <1>0, <1>11 DEF RemoveTeamModule, Commit, Operation, Idle
    <2> QED
      BY <1>11, <2>1 DEF RemoveTeamModule, Commit, AccessTypeOK, orgVars, moduleVars
  <1>12. CASE Publish(s)
    <2>1. op \in [op : {"Publish"}, by : User, mod : Module]
      BY <1>0, <1>12 DEF Publish, Commit, Operation, Idle
    <2>2. module' \subseteq Module /\ role' \in [Module -> [User -> ModuleRows]]
      BY <1>12, <2>1, CreateModuleType DEF Publish
    <2> QED
      BY <1>12, <2>1, <2>2 DEF Publish, Commit, AccessTypeOK, ModuleRows, orgVars, teamVars
  <1>13. CASE DeleteAccount(s)
    <2>1. op \in [op : {"DeleteAccount"}, by : User]
      BY <1>0, <1>13 DEF DeleteAccount, Commit, Operation, Idle
    <2> QED
      BY <1>13, <2>1 DEF DeleteAccount, Commit, AccessTypeOK
  <1>14. CASE GiveUp(s)
    BY <1>0, <1>14 DEF GiveUp, AccessTypeOK, tables, orgVars, moduleVars, teamVars
  <1> QED
    BY <1>1, <1>2, <1>3, <1>4, <1>5, <1>6, <1>7, <1>8, <1>9, <1>10, <1>11, <1>12, <1>13, <1>14
    DEF CommitStep

\* Handlers that are one statement or one transaction do so too.
LEMMA UserType ==
  ASSUME AccessTypeOK, NEW u \in User, UserStep(u)
  PROVE  AccessTypeOK'
  <1>1. ASSUME NEW m \in Module, LeaveModule(u, m) \/ DeclineModule(u, m)
        PROVE  AccessTypeOK'
    <2>1. role' = [role EXCEPT ![m] = [role[m] EXCEPT ![u] = NoRow]]
      BY <1>1 DEF LeaveModule, DeclineModule
    <2>2. UNCHANGED <<account, orgVars, module, teamVars, session>>
      BY <1>1 DEF LeaveModule, DeclineModule
    <2> QED
      BY <2>1, <2>2 DEF AccessTypeOK, orgVars, teamVars
  <1>2. ASSUME NEW m \in Module, AcceptModule(u, m)
        PROVE  AccessTypeOK'
    <2>1. [role[m][u] EXCEPT !.accepted = TRUE] \in ModuleRows
      <3>1. role[m][u] \in Row(ModuleRole) \cup {NoRow} /\ role[m][u].role # "none"
        BY <1>2 DEF AcceptModule, AccessTypeOK
      <3> QED
        BY <3>1, AcceptType DEF ModuleRows
    <2>2. role' = [role EXCEPT ![m] = [role[m] EXCEPT ![u] = [role[m][u] EXCEPT !.accepted = TRUE]]]
      BY <1>2 DEF AcceptModule, AccessTypeOK
    <2> QED
      BY <1>2, <2>1, <2>2 DEF AcceptModule, AccessTypeOK, ModuleRows, orgVars, teamVars
  <1>3. ASSUME NEW o \in Org, CreateOrg(u, o)
        PROVE  AccessTypeOK'
    <2>1. Accepted("owner") \in Row(OrgRole)
      BY DEF Accepted, Row, OrgRole
    <2> QED
      BY <1>3, <2>1 DEF CreateOrg, AccessTypeOK, moduleVars, teamVars
  <1>4. ASSUME NEW o \in Org, LeaveOrg(u, o) \/ DeclineOrg(u, o)
        PROVE  AccessTypeOK'
    <2>1. /\ member' \in [Org -> [User -> OrgRows]]
          /\ teamMember' \in [Team -> SUBSET User]
          /\ role' \in [Module -> [User -> ModuleRows]]
      BY <1>4, LeaveTablesType DEF LeaveOrg, DeclineOrg
    <2> QED
      BY <1>4, <2>1 DEF LeaveOrg, DeclineOrg, AccessTypeOK, OrgRows, ModuleRows
  <1>5. ASSUME NEW o \in Org, AcceptOrg(u, o)
        PROVE  AccessTypeOK'
    <2>1. [member[o][u] EXCEPT !.accepted = TRUE] \in OrgRows
      <3>1. member[o][u] \in Row(OrgRole) \cup {NoRow} /\ member[o][u].role # "none"
        BY <1>5 DEF AcceptOrg, AccessTypeOK
      <3> QED
        BY <3>1, AcceptType DEF OrgRows
    <2>2. member' = [member EXCEPT ![o] = [member[o] EXCEPT ![u] = [member[o][u] EXCEPT !.accepted = TRUE]]]
      BY <1>5 DEF AcceptOrg, AccessTypeOK
    <2> QED
      BY <1>5, <2>1, <2>2 DEF AcceptOrg, AccessTypeOK, OrgRows, moduleVars, teamVars
  <1> QED
    BY <1>1, <1>2, <1>3, <1>4, <1>5 DEF UserStep

\* Every step of the tables keeps them well formed.
LEMMA AccessStepType ==
  AccessTypeOK /\ [AccessNext]_accessVars => AccessTypeOK'
  <1> SUFFICES ASSUME AccessTypeOK, [AccessNext]_accessVars
               PROVE  AccessTypeOK'
    OBVIOUS
  <1>1. CASE AccessNext
    BY <1>1, CheckType, CommitType, UserType DEF AccessNext
  <1>2. CASE UNCHANGED accessVars
    BY <1>2 DEF AccessTypeOK, accessVars, tables, orgVars, moduleVars, teamVars
  <1> QED
    BY <1>1, <1>2

\* The tables start well formed.
LEMMA AccessInitType == Init => AccessTypeOK
  BY DEF Init, AccessTypeOK, NoRow

\* The tables stay well formed, and every session holds an operation.
THEOREM AccessTypes == AccessSpec => []AccessTypeOK
  <1> QED
    BY AccessInitType, AccessStepType, PTL DEF AccessSpec

-----------------------------------------------------------------------------
(* Owners.  Where no user deletes their account, no session is about to.   *)

NoDeletion == \A s \in Session : session[s].op # "DeleteAccount"

\* At first no handler is deleting an account.
LEMMA NoDeletionInit == Init => NoDeletion
  BY DEF Init, NoDeletion, Idle

\* Where nobody may delete an account no handler ever is.
LEMMA NoDeletionStep ==
  ASSUME "DeleteAccount" \notin Operations, AccessTypeOK, NoDeletion, [AccessNext]_accessVars
  PROVE  NoDeletion'
  <1>1. CASE UNCHANGED session
    BY <1>1 DEF NoDeletion
  <1>2. ASSUME NEW s \in Session, NEW op, op.op \in Operations,
               session' = [session EXCEPT ![s] = op]
        PROVE  NoDeletion'
    BY <1>2 DEF NoDeletion, AccessTypeOK
  <1>3. ASSUME NEW s \in Session, session' = [session EXCEPT ![s] = Idle]
        PROVE  NoDeletion'
    BY <1>3 DEF NoDeletion, AccessTypeOK, Idle
  <1>4. ASSUME NEW s \in Session, CheckStep(s)
        PROVE  \E op : Check(s, op)
    BY <1>4 DEF CheckStep, CheckSetCollaborator, CheckRemoveCollaborator, CheckSetOrgMember,
      CheckRemoveOrgMember, CheckSetMemberAccess, CheckCreateTeam, CheckDeleteTeam, CheckAddTeamMember,
      CheckRemoveTeamMember, CheckSetTeamModule, CheckRemoveTeamModule, CheckPublish, CheckDeleteAccount
  <1>5. ASSUME NEW s \in Session, CommitStep(s)
        PROVE  session' = [session EXCEPT ![s] = Idle]
    BY <1>5 DEF CommitStep, Commit, SetCollaborator, RemoveCollaborator, SetOrgMember, RemoveOrgMember,
      SetMemberAccess, CreateTeam, DeleteTeam, AddTeamMember, RemoveTeamMember, SetTeamModule,
      RemoveTeamModule, Publish, DeleteAccount, GiveUp
  <1>6. ASSUME NEW u \in User, UserStep(u)
        PROVE  UNCHANGED session
    BY <1>6 DEF UserStep, LeaveModule, AcceptModule, DeclineModule, CreateOrg, LeaveOrg, AcceptOrg, DeclineOrg
  <1>7. CASE UNCHANGED accessVars
    BY <1>1, <1>7 DEF accessVars
  <1> QED
    BY <1>1, <1>2, <1>3, <1>4, <1>5, <1>6, <1>7 DEF AccessNext, Check

\* Handlers that touch neither the organizations nor their members.
LEMMA MembersUntouched ==
  ASSUME NEW s \in Session, CommitStep(s), NoDeletion,
         ~SetOrgMember(s), ~RemoveOrgMember(s)
  PROVE  UNCHANGED <<org, member>>
  BY DEF CommitStep, Commit, NoDeletion, SetCollaborator, RemoveCollaborator, SetMemberAccess, CreateTeam,
    DeleteTeam, AddTeamMember, RemoveTeamMember, SetTeamModule, RemoveTeamModule, Publish, DeleteAccount,
    GiveUp, tables, orgVars

\* Every transaction leaves each organization an owner: who takes one away
\* looks for another in the same transaction.
LEMMA OrgsHaveAnOwnerStep ==
  ASSUME AccessTypeOK, NoDeletion, OrgsHaveAnOwner, [AccessNext]_accessVars
  PROVE  OrgsHaveAnOwner'
  <1>1. CASE UNCHANGED <<org, member>>
    BY <1>1 DEF OrgsHaveAnOwner, OrgHasOwner, KeepsAnOrgOwner
  <1>2. ASSUME NEW o \in Org, UNCHANGED org, KeepsAnOrgOwner(member', o),
               \A p \in Org \ {o} : member'[p] = member[p]
        PROVE  OrgsHaveAnOwner'
    BY <1>2 DEF OrgsHaveAnOwner, OrgHasOwner, KeepsAnOrgOwner, AccessTypeOK
  <1>3. ASSUME NEW s \in Session, SetOrgMember(s)
        PROVE  OrgsHaveAnOwner'
    <2>1. session[s].org \in Org
      BY <1>3 DEF SetOrgMember, Commit, AccessTypeOK, Operation, Idle
    <2> QED
      BY <1>2, <1>3, <2>1 DEF SetOrgMember, AccessTypeOK
  <1>4. ASSUME NEW s \in Session, RemoveOrgMember(s)
        PROVE  OrgsHaveAnOwner'
    <2>1. session[s].org \in Org
      BY <1>4 DEF RemoveOrgMember, Commit, AccessTypeOK, Operation, Idle
    <2> QED
      BY <1>2, <1>4, <2>1 DEF RemoveOrgMember, LeaveTables, AccessTypeOK
  <1>5. ASSUME NEW s \in Session, CheckStep(s)
        PROVE  UNCHANGED <<org, member>>
    BY <1>5 DEF CheckStep, Check, CheckSetCollaborator, CheckRemoveCollaborator, CheckSetOrgMember,
      CheckRemoveOrgMember, CheckSetMemberAccess, CheckCreateTeam, CheckDeleteTeam, CheckAddTeamMember,
      CheckRemoveTeamMember, CheckSetTeamModule, CheckRemoveTeamModule, CheckPublish, CheckDeleteAccount,
      tables, orgVars
  <1>6. ASSUME NEW u \in User, NEW m \in Module, LeaveModule(u, m) \/ AcceptModule(u, m) \/ DeclineModule(u, m)
        PROVE  UNCHANGED <<org, member>>
    BY <1>6 DEF LeaveModule, AcceptModule, DeclineModule, orgVars
  <1>7. ASSUME NEW u \in User, NEW o \in Org, CreateOrg(u, o)
        PROVE  OrgsHaveAnOwner'
    BY <1>7 DEF CreateOrg, OrgsHaveAnOwner, OrgHasOwner, KeepsAnOrgOwner, AccessTypeOK
  <1>8. ASSUME NEW u \in User, NEW o \in Org, LeaveOrg(u, o)
        PROVE  OrgsHaveAnOwner'
    BY <1>2, <1>8 DEF LeaveOrg, LeaveTables, AccessTypeOK
  <1>9. ASSUME NEW u \in User, NEW o \in Org, AcceptOrg(u, o) \/ DeclineOrg(u, o)
        PROVE  OrgsHaveAnOwner'
    \* Neither takes an accepted owner away.
    <2>1. member[o][u] # Accepted("owner")
      BY <1>9 DEF AcceptOrg, DeclineOrg, Accepted
    <2>2. /\ UNCHANGED org
          /\ \A p \in Org, w \in User : <<p, w>> # <<o, u>> => member'[p][w] = member[p][w]
      BY <1>9 DEF AcceptOrg, DeclineOrg, LeaveTables, AccessTypeOK
    <2>3. ASSUME NEW p \in Org, KeepsAnOrgOwner(member, p)
          PROVE  KeepsAnOrgOwner(member', p)
      <3>1. PICK w \in User : member[p][w] = Accepted("owner")
        BY <2>3 DEF KeepsAnOrgOwner
      <3>2. <<p, w>> # <<o, u>>
        BY <2>1, <3>1
      <3> QED
        BY <2>2, <3>1, <3>2 DEF KeepsAnOrgOwner
    <2>4. org \subseteq Org
      BY DEF AccessTypeOK
    <2> QED
      BY <2>2, <2>3, <2>4 DEF OrgsHaveAnOwner, OrgHasOwner, KeepsAnOrgOwner
  <1>10. CASE UNCHANGED accessVars
    BY <1>1, <1>10 DEF accessVars, tables, orgVars
  <1>11. ASSUME NEW s \in Session, CommitStep(s)
         PROVE  OrgsHaveAnOwner'
    BY <1>1, <1>3, <1>4, <1>11, MembersUntouched
  <1>12. ASSUME NEW u \in User, UserStep(u)
         PROVE  OrgsHaveAnOwner'
    BY <1>1, <1>6, <1>7, <1>8, <1>9, <1>12 DEF UserStep
  <1> QED
    BY <1>1, <1>5, <1>10, <1>11, <1>12 DEF AccessNext

\* An organization never loses its last owner, however many handlers demote,
\* remove and leave at once -- as long as nobody deletes their account.
THEOREM OrgsKeepAnOwner ==
  ASSUME "DeleteAccount" \notin Operations
  PROVE  AccessSpec => []OrgsHaveAnOwner
  <1>1. Init => AccessTypeOK /\ NoDeletion /\ OrgsHaveAnOwner
    BY AccessInitType, NoDeletionInit DEF Init, OrgsHaveAnOwner
  <1>2. AccessTypeOK /\ NoDeletion /\ OrgsHaveAnOwner /\ [AccessNext]_accessVars
          => (AccessTypeOK /\ NoDeletion /\ OrgsHaveAnOwner)'
    BY AccessStepType, NoDeletionStep, OrgsHaveAnOwnerStep
  <1> QED
    BY <1>1, <1>2, PTL DEF AccessSpec

-----------------------------------------------------------------------------
\* What a session holds when it commits.
LEMMA Holds ==
  ASSUME AccessTypeOK, NEW s \in Session
  PROVE  /\ session[s].op = "AddTeamMember" => session[s].team \in Team /\ session[s].user \in User
         /\ session[s].op = "SetTeamModule" => session[s].team \in Team /\ session[s].mod \in Module /\ session[s].role \in ModuleRole
         /\ session[s].op = "RemoveTeamMember" => session[s].team \in Team /\ session[s].user \in User
         /\ session[s].op = "RemoveTeamModule" => session[s].team \in Team /\ session[s].mod \in Module
         /\ session[s].op = "DeleteTeam" => session[s].team \in Team
         /\ session[s].op = "CreateTeam" => session[s].org \in Org
         /\ session[s].op \in {"SetOrgMember", "RemoveOrgMember"} => session[s].org \in Org /\ session[s].user \in User
         /\ session[s].op = "SetOrgMember" => session[s].role \in OrgRole
         /\ session[s].op = "DeleteAccount" => session[s].by \in User
  BY DEF AccessTypeOK, Operation, Idle

\* A step that only gives rows to m's users, or checks what it leaves them.
LEMMA OwnerKeptStep ==
  ASSUME AccessTypeOK, NoDeletion, [AccessNext]_accessVars,
         NEW m \in module, NamespaceOf[m] \in User, HasOwner(m)
  PROVE  HasOwner(m)'
  <1>0. /\ m \in Module
        /\ NamespaceOf[m] \notin Org
        /\ \E w \in User : role[m][w] = Accepted("owner")
    BY AccessConstants DEF AccessTypeOK, HasOwner, KeepsAnOwner
  <1>1. ASSUME role'[m] = role[m]
        PROVE  HasOwner(m)'
    BY <1>0, <1>1 DEF HasOwner, KeepsAnOwner
  <1>2. ASSUME NEW o \in Org, NEW u \in User, LeaveTables(o, u)
        PROVE  role'[m] = role[m]
    BY <1>0, <1>2 DEF LeaveTables
  <1>3. ASSUME NEW n \in Module, NEW r, UNCHANGED org, role' = [role EXCEPT ![n] = r], KeepsAnOwner(role', n)
        PROVE  HasOwner(m)'
    BY <1>0, <1>1, <1>3 DEF HasOwner, KeepsAnOwner, AccessTypeOK
  <1>4. ASSUME NEW s \in Session, CheckStep(s)
        PROVE  role' = role
    BY <1>4 DEF CheckStep, Check, CheckSetCollaborator, CheckRemoveCollaborator, CheckSetOrgMember,
      CheckRemoveOrgMember, CheckSetMemberAccess, CheckCreateTeam, CheckDeleteTeam, CheckAddTeamMember,
      CheckRemoveTeamMember, CheckSetTeamModule, CheckRemoveTeamModule, CheckPublish, CheckDeleteAccount,
      tables, moduleVars
  <1>5. ASSUME NEW s \in Session, SetCollaborator(s) \/ RemoveCollaborator(s)
        PROVE  HasOwner(m)'
    <2>1. session[s].mod \in Module
      <3>1. CASE SetCollaborator(s)
        <4>1. session[s] \in Operation \cup {Idle} /\ session[s].op = "SetCollaborator"
          BY <3>1 DEF SetCollaborator, Commit, AccessTypeOK
        <4> QED
          BY <4>1 DEF Operation, Idle
      <3>2. CASE RemoveCollaborator(s)
        <4>1. session[s] \in Operation \cup {Idle} /\ session[s].op = "RemoveCollaborator"
          BY <3>2 DEF RemoveCollaborator, Commit, AccessTypeOK
        <4> QED
          BY <4>1 DEF Operation, Idle
      <3> QED
        BY <1>5, <3>1, <3>2
    <2>2. UNCHANGED org /\ KeepsAnOwner(role', session[s].mod)
      BY <1>5 DEF SetCollaborator, RemoveCollaborator, orgVars
    <2>3. \E r : role' = [role EXCEPT ![session[s].mod] = r]
      BY <1>5 DEF SetCollaborator, RemoveCollaborator
    <2> QED
      BY <1>3, <2>1, <2>2, <2>3
  <1>6. ASSUME NEW s \in Session, RemoveOrgMember(s)
        PROVE  HasOwner(m)'
    <2>1. session[s].org \in Org /\ session[s].user \in User
      BY <1>6, Holds DEF RemoveOrgMember, Commit
    <2> QED
      BY <1>1, <1>2, <1>6, <2>1 DEF RemoveOrgMember
  <1>7. ASSUME NEW s \in Session, Publish(s)
        PROVE  HasOwner(m)'
    <2>1. session[s].mod \in Module
      <3>1. session[s] \in Operation \cup {Idle} /\ session[s].op = "Publish"
        BY <1>7 DEF Publish, Commit, AccessTypeOK
      <3> QED
        BY <3>1 DEF Operation, Idle
    <2> QED
      BY <1>1, <1>7, <2>1 DEF Publish, CreateModuleRow, AccessTypeOK
  <1>8. ASSUME NEW s \in Session, CommitStep(s), ~SetCollaborator(s), ~RemoveCollaborator(s),
               ~RemoveOrgMember(s), ~Publish(s)
        PROVE  role' = role
    BY <1>8 DEF CommitStep, Commit, NoDeletion, SetOrgMember, SetMemberAccess, CreateTeam,
      DeleteTeam, AddTeamMember, RemoveTeamMember, SetTeamModule, RemoveTeamModule, DeleteAccount,
      GiveUp, tables, moduleVars
  <1>9. ASSUME NEW u \in User, NEW n \in Module, LeaveModule(u, n)
        PROVE  HasOwner(m)'
    BY <1>3, <1>9 DEF LeaveModule, orgVars
  <1>10. ASSUME NEW u \in User, NEW n \in Module, AcceptModule(u, n) \/ DeclineModule(u, n)
         PROVE  HasOwner(m)'
    \* Neither takes an accepted owner away.
    <2>1. role[n][u] # Accepted("owner")
      BY <1>10 DEF AcceptModule, DeclineModule, Accepted
    <2>2. \A w \in User : <<m, w>> # <<n, u>> => role'[m][w] = role[m][w]
      BY <1>0, <1>10 DEF AcceptModule, DeclineModule, AccessTypeOK
    <2> QED
      BY <1>0, <2>1, <2>2 DEF HasOwner, KeepsAnOwner
  <1>11. ASSUME NEW u \in User, NEW o \in Org, CreateOrg(u, o) \/ AcceptOrg(u, o)
         PROVE  role' = role
    BY <1>11 DEF CreateOrg, AcceptOrg, moduleVars
  <1>12. ASSUME NEW u \in User, NEW o \in Org, LeaveOrg(u, o) \/ DeclineOrg(u, o)
         PROVE  role'[m] = role[m]
    BY <1>2, <1>12 DEF LeaveOrg, DeclineOrg
  <1>13. CASE UNCHANGED accessVars
    BY <1>1, <1>13 DEF accessVars, tables, moduleVars
  <1>14. ASSUME NEW s \in Session, CommitStep(s)
         PROVE  HasOwner(m)'
    BY <1>1, <1>5, <1>6, <1>7, <1>8, <1>14
  <1>15. ASSUME NEW u \in User, UserStep(u)
         PROVE  HasOwner(m)'
    BY <1>1, <1>9, <1>10, <1>11, <1>12, <1>15 DEF UserStep
  <1> QED
    BY <1>1, <1>4, <1>13, <1>14, <1>15 DEF AccessNext

\* A module of a personal namespace never loses its last accepted owner, as
\* long as nobody deletes their account.
THEOREM PersonalModulesKeepAnOwner ==
  ASSUME "DeleteAccount" \notin Operations
  PROVE  AccessSpec => PersonalModulesKeepTheirOwner
  <1>1. Init => AccessTypeOK /\ NoDeletion
    BY AccessInitType, NoDeletionInit
  <1>2. AccessTypeOK /\ NoDeletion /\ [AccessNext]_accessVars => (AccessTypeOK /\ NoDeletion)'
    BY AccessStepType, NoDeletionStep
  <1>3. AccessTypeOK /\ NoDeletion /\ [AccessNext]_accessVars
          => [\A m \in module :
                (NamespaceOf[m] \in User /\ HasOwner(m)) => HasOwner(m)']_accessVars
    BY OwnerKeptStep
  <1> QED
    BY <1>1, <1>2, <1>3, PTL DEF AccessSpec, PersonalModulesKeepTheirOwner

-----------------------------------------------------------------------------
(* Access is agreed to.  A team's members belong to its organization, and  *)
(* its modules are that organization's: that is so for the rows, and for   *)
(* what a handler is about to write into them while nobody disturbs it.    *)

Joining(s) == session[s].op = "AddTeamMember"
Granting(s) == session[s].op = "SetTeamModule"

TeamsAreOfTheirOrg ==
  /\ \A t \in Team, u \in User : u \in teamMember[t] => BelongsTo(u, teamOrg[t])
  /\ \A t \in Team, m \in Module :
       teamModule[t][m] # "none" => teamOrg[t] \in Org /\ NamespaceOf[m] = teamOrg[t]

GrantsAreOfTheirOrg ==
  \A s \in Session :
    /\ Joining(s) => BelongsTo(session[s].user, teamOrg[session[s].team])
    /\ Granting(s) => /\ teamOrg[session[s].team] \in Org
                      /\ NamespaceOf[session[s].mod] = teamOrg[session[s].team]

TeamInv == AccessTypeOK /\ TeamsAreOfTheirOrg /\ GrantsAreOfTheirOrg

\* There are no teams at first.
LEMMA TeamInvInit == Init => TeamInv
  BY AccessInitType DEF Init, TeamInv, TeamsAreOfTheirOrg, GrantsAreOfTheirOrg, Joining, Granting, Idle

\* What the invariant is for: access comes from a role, or from the
\* organization.
LEMMA AgreedTo ==
  TeamInv => AccessIsAccepted
  <1> SUFFICES ASSUME TeamInv, NEW u \in User, NEW m \in module, Maintains(u, m), ~role[m][u].accepted
               PROVE  BelongsTo(u, NamespaceOf[m])
    BY DEF AccessIsAccepted
  <1>1. m \in Module
    BY DEF TeamInv, AccessTypeOK
  <1>2. CASE \E t \in Team : u \in teamMember[t] /\ Rank[teamModule[t][m]] >= Rank.maintainer
    <2>1. PICK t \in Team : u \in teamMember[t] /\ Rank[teamModule[t][m]] >= Rank.maintainer
      BY <1>2
    <2>2. teamModule[t][m] # "none"
      BY <2>1 DEF Rank
    <2> QED
      BY <1>1, <2>1, <2>2 DEF TeamInv, TeamsAreOfTheirOrg
  <1>3. CASE OrgRank(u, m) >= Rank.maintainer
    BY <1>3 DEF OrgRank, Rank, BelongsTo, Accepted
  <1> QED
    BY <1>2, <1>3 DEF Maintains, HasRole

\* A step that leaves the memberships, or only adds to them, and no team.
LEMMA TeamsStay ==
  ASSUME TeamInv, org \subseteq org', UNCHANGED <<teamOrg, teamMember, teamModule>>,
         \A o \in Org, u \in User : member[o][u].accepted => member'[o][u].accepted
  PROVE  /\ TeamsAreOfTheirOrg'
         /\ \A o \in Org \cup {NoOrg}, u \in User : BelongsTo(u, o) => BelongsTo(u, o)'
  BY DEF TeamInv, AccessTypeOK, TeamsAreOfTheirOrg, BelongsTo

\* Somebody's row in an organization is deleted with its triggers.
LEMMA LeavingTeams ==
  ASSUME TeamInv, NEW o \in Org, NEW u \in User, LeaveTables(o, u),
         UNCHANGED <<org, teamOrg, teamModule>>
  PROVE  TeamsAreOfTheirOrg'
  <1>1. ASSUME NEW t \in Team, NEW w \in User, w \in teamMember'[t]
        PROVE  BelongsTo(w, teamOrg[t])'
    <2>1. w \in teamMember[t] /\ ~(teamOrg[t] = o /\ w = u)
      BY <1>1 DEF LeaveTables, TeamInv, AccessTypeOK
    <2>2. BelongsTo(w, teamOrg[t])
      BY <2>1 DEF TeamInv, TeamsAreOfTheirOrg
    <2>3. member'[teamOrg[t]][w] = member[teamOrg[t]][w]
      BY <2>1, <2>2 DEF LeaveTables, TeamInv, AccessTypeOK, BelongsTo
    <2> QED
      BY <2>2, <2>3 DEF BelongsTo
  <1> QED
    BY <1>1 DEF TeamInv, TeamsAreOfTheirOrg

\* A transaction keeps every team within its organization.
LEMMA TeamsCommit ==
  ASSUME TeamInv, NEW s \in Session, CommitStep(s)
  PROVE  TeamsAreOfTheirOrg'
  <1> DEFINE op == session[s]
  <1>0. AccessTypeOK
    BY DEF TeamInv
  <1>1. CASE UNCHANGED <<org, member, teamOrg, teamMember, teamModule>>
    BY <1>1, TeamsStay
  <1>2. CASE SetOrgMember(s)
    <2>1. op.org \in Org /\ op.user \in User /\ op.role \in OrgRole
      BY <1>0, <1>2, Holds DEF SetOrgMember, Commit
    <2>2. Upsert(member[op.org][op.user], op.role).accepted = member[op.org][op.user].accepted
      <3>1. member[op.org][op.user] \in Row(OrgRole) \cup {NoRow}
        BY <1>0, <2>1 DEF AccessTypeOK
      <3> QED
        BY <3>1 DEF Upsert, Row, NoRow
    <2>3. \A o \in Org, u \in User : member[o][u].accepted => member'[o][u].accepted
      BY <1>0, <1>2, <2>1, <2>2 DEF SetOrgMember, AccessTypeOK
    <2> QED
      BY <1>2, <2>3, TeamsStay DEF SetOrgMember, teamVars
  <1>3. CASE RemoveOrgMember(s)
    <2>1. op.org \in Org /\ op.user \in User
      BY <1>0, <1>3, Holds DEF RemoveOrgMember, Commit
    <2> QED
      BY <1>3, <2>1, LeavingTeams DEF RemoveOrgMember
  <1>4. CASE CreateTeam(s)
    <2>1. op.org \in Org
      BY <1>0, <1>4, Holds DEF CreateTeam, Commit
    <2>2. PICK t \in Team : /\ \A x \in UsedTeams : x < t
                            /\ teamOrg' = [teamOrg EXCEPT ![t] = op.org]
      BY <1>4 DEF CreateTeam
    <2>3. teamOrg[t] = NoOrg
      BY <2>2 DEF UsedTeams, Team
    <2>4. teamMember[t] = {} /\ \A m \in Module : teamModule[t][m] = "none"
      BY <1>0, <2>3, AccessConstants DEF TeamInv, TeamsAreOfTheirOrg, BelongsTo, AccessTypeOK
    <2>5. UNCHANGED <<org, member, teamMember, teamModule>>
      BY <1>4 DEF CreateTeam, orgVars
    <2> QED
      BY <1>0, <2>2, <2>4, <2>5 DEF TeamInv, TeamsAreOfTheirOrg, BelongsTo, AccessTypeOK
  <1>5. CASE DeleteTeam(s)
    <2>1. op.team \in Team
      BY <1>0, <1>5, Holds DEF DeleteTeam, Commit
    <2>2. UNCHANGED <<org, member>>
      BY <1>5 DEF DeleteTeam, orgVars
    <2> QED
      BY <1>0, <1>5, <2>1, <2>2 DEF DeleteTeam, TeamInv, TeamsAreOfTheirOrg, BelongsTo, AccessTypeOK
  <1>6. CASE AddTeamMember(s)
    <2>1. op.team \in Team /\ op.user \in User /\ BelongsTo(op.user, teamOrg[op.team])
      BY <1>0, <1>6, Holds DEF AddTeamMember, Commit, TeamInv, GrantsAreOfTheirOrg, Joining
    <2>2. UNCHANGED <<org, member, teamOrg, teamModule>>
      BY <1>6 DEF AddTeamMember, orgVars
    <2> QED
      BY <1>0, <1>6, <2>1, <2>2 DEF AddTeamMember, TeamInv, TeamsAreOfTheirOrg, BelongsTo, AccessTypeOK
  <1>7. CASE RemoveTeamMember(s)
    <2>1. op.team \in Team
      BY <1>0, <1>7, Holds DEF RemoveTeamMember, Commit
    <2>2. UNCHANGED <<org, member, teamOrg, teamModule>>
      BY <1>7 DEF RemoveTeamMember, orgVars
    <2> QED
      BY <1>0, <1>7, <2>1, <2>2 DEF RemoveTeamMember, TeamInv, TeamsAreOfTheirOrg, BelongsTo, AccessTypeOK
  <1>8. CASE SetTeamModule(s)
    <2>1. op.team \in Team /\ op.mod \in Module /\ teamOrg[op.team] \in Org /\ NamespaceOf[op.mod] = teamOrg[op.team]
      BY <1>0, <1>8, Holds DEF SetTeamModule, Commit, TeamInv, GrantsAreOfTheirOrg, Granting
    <2>2. UNCHANGED <<org, member, teamOrg, teamMember>>
      BY <1>8 DEF SetTeamModule, orgVars
    <2> QED
      BY <1>0, <1>8, <2>1, <2>2 DEF SetTeamModule, TeamInv, TeamsAreOfTheirOrg, BelongsTo, AccessTypeOK
  <1>9. CASE RemoveTeamModule(s)
    <2>1. op.team \in Team /\ op.mod \in Module
      BY <1>0, <1>9, Holds DEF RemoveTeamModule, Commit
    <2>2. UNCHANGED <<org, member, teamOrg, teamMember>>
      BY <1>9 DEF RemoveTeamModule, orgVars
    <2> QED
      BY <1>0, <1>9, <2>1, <2>2 DEF RemoveTeamModule, TeamInv, TeamsAreOfTheirOrg, BelongsTo, AccessTypeOK
  <1>10. CASE DeleteAccount(s)
    <2>1. op.by \in User
      BY <1>0, <1>10, Holds DEF DeleteAccount, Commit
    <2>2. UNCHANGED <<org, teamOrg, teamModule>>
      BY <1>10 DEF DeleteAccount
    <2>3. ASSUME NEW t \in Team, NEW w \in User, w \in teamMember'[t]
          PROVE  BelongsTo(w, teamOrg[t])'
      <3>1. w \in teamMember[t] /\ w # op.by
        BY <1>0, <1>10, <2>3 DEF DeleteAccount, AccessTypeOK
      <3>2. BelongsTo(w, teamOrg[t])
        BY <3>1 DEF TeamInv, TeamsAreOfTheirOrg
      <3>3. member'[teamOrg[t]][w] = member[teamOrg[t]][w]
        BY <1>0, <1>10, <3>1, <3>2 DEF DeleteAccount, AccessTypeOK, BelongsTo
      <3> QED
        BY <2>2, <3>2, <3>3 DEF BelongsTo
    <2> QED
      BY <2>2, <2>3 DEF TeamInv, TeamsAreOfTheirOrg
  <1>11. CASE SetCollaborator(s) \/ RemoveCollaborator(s) \/ SetMemberAccess(s) \/ Publish(s) \/ GiveUp(s)
    BY <1>1, <1>11 DEF SetCollaborator, RemoveCollaborator, SetMemberAccess, Publish, GiveUp, tables, orgVars, teamVars
  <1> QED
    BY <1>2, <1>3, <1>4, <1>5, <1>6, <1>7, <1>8, <1>9, <1>10, <1>11 DEF CommitStep

\* So does a handler that is one transaction or one statement.
LEMMA TeamsUser ==
  ASSUME TeamInv, NEW u \in User, UserStep(u)
  PROVE  TeamsAreOfTheirOrg'
  <1>0. AccessTypeOK
    BY DEF TeamInv
  <1>1. ASSUME NEW m \in Module, LeaveModule(u, m) \/ AcceptModule(u, m) \/ DeclineModule(u, m)
        PROVE  TeamsAreOfTheirOrg'
    BY <1>1, TeamsStay DEF LeaveModule, AcceptModule, DeclineModule, orgVars, teamVars
  <1>2. ASSUME NEW o \in Org, CreateOrg(u, o) \/ AcceptOrg(u, o)
        PROVE  TeamsAreOfTheirOrg'
    <2>1. \A p \in Org, w \in User : member[p][w].accepted => member'[p][w].accepted
      <3>1. CASE CreateOrg(u, o)
        BY <1>0, <3>1 DEF CreateOrg, AccessTypeOK, Accepted
      <3>2. CASE AcceptOrg(u, o)
        <4>1. member[o][u] \in Row(OrgRole) \cup {NoRow}
          BY <1>0 DEF AccessTypeOK
        <4>2. [member[o][u] EXCEPT !.accepted = TRUE].accepted
          BY <4>1 DEF Row, NoRow
        <4>3. member' = [member EXCEPT ![o] = [member[o] EXCEPT ![u] = [member[o][u] EXCEPT !.accepted = TRUE]]]
          BY <1>0, <3>2 DEF AcceptOrg, AccessTypeOK
        <4> QED
          BY <1>0, <4>2, <4>3 DEF AccessTypeOK
      <3> QED
        BY <1>2, <3>1, <3>2
    <2> QED
      BY <1>2, <2>1, TeamsStay DEF CreateOrg, AcceptOrg, teamVars
  <1>3. ASSUME NEW o \in Org, LeaveOrg(u, o) \/ DeclineOrg(u, o)
        PROVE  TeamsAreOfTheirOrg'
    BY <1>3, LeavingTeams DEF LeaveOrg, DeclineOrg
  <1> QED
    BY <1>1, <1>2, <1>3 DEF UserStep

\* A step deletes no organization and no module.
LEMMA NothingGoes ==
  ASSUME [AccessNext]_accessVars
  PROVE  org \subseteq org' /\ module \subseteq module'
  <1>1. ASSUME NEW s \in Session, CheckStep(s)
        PROVE  UNCHANGED <<org, module>>
    BY <1>1 DEF CheckStep, Check, CheckSetCollaborator, CheckRemoveCollaborator, CheckSetOrgMember,
      CheckRemoveOrgMember, CheckSetMemberAccess, CheckCreateTeam, CheckDeleteTeam, CheckAddTeamMember,
      CheckRemoveTeamMember, CheckSetTeamModule, CheckRemoveTeamModule, CheckPublish, CheckDeleteAccount,
      tables, orgVars, moduleVars
  <1>2. ASSUME NEW s \in Session, CommitStep(s), ~Publish(s)
        PROVE  UNCHANGED <<org, module>>
    BY <1>2 DEF CommitStep, SetCollaborator, RemoveCollaborator, SetOrgMember, RemoveOrgMember,
      SetMemberAccess, CreateTeam, DeleteTeam, AddTeamMember, RemoveTeamMember, SetTeamModule,
      RemoveTeamModule, DeleteAccount, GiveUp, tables, orgVars, moduleVars
  <1>3. ASSUME NEW s \in Session, Publish(s)
        PROVE  org' = org /\ module \subseteq module'
    BY <1>3 DEF Publish, CreateModuleRow, orgVars
  <1>4. ASSUME NEW u \in User, UserStep(u)
        PROVE  org \subseteq org' /\ module' = module
    BY <1>4 DEF UserStep, LeaveModule, AcceptModule, DeclineModule, CreateOrg, LeaveOrg, AcceptOrg, DeclineOrg,
      orgVars, moduleVars
  <1>5. CASE UNCHANGED accessVars
    BY <1>5 DEF accessVars, tables, orgVars, moduleVars
  <1> QED
    BY <1>1, <1>2, <1>3, <1>4, <1>5 DEF AccessNext

\* A grant that waits is not disturbed; one that is read now is of now.
LEMMA GrantsStep ==
  ASSUME TeamInv, AccessTypeOK', AccessNext, GrantsUndisturbed
  PROVE  GrantsAreOfTheirOrg'
  <1>0. AccessTypeOK
    BY DEF TeamInv
  <1>1. org \subseteq org'
    BY NothingGoes DEF TeamInv
  <1>2. ASSUME NEW s \in Session, session'[s] = session[s]
        PROVE  /\ Joining(s)' => BelongsTo(session[s].user, teamOrg[session[s].team])'
               /\ Granting(s)' => (teamOrg[session[s].team] \in Org /\ NamespaceOf[session[s].mod] = teamOrg[session[s].team])'
    BY <1>1, <1>2 DEF GrantsUndisturbed, TeamInv, GrantsAreOfTheirOrg, Joining, Granting, BelongsTo
  <1>3. ASSUME NEW s \in Session, CheckStep(s)
        PROVE  /\ \A x \in Session \ {s} : session'[x] = session[x]
               /\ UNCHANGED tables
               /\ Joining(s)' => BelongsTo(session'[s].user, teamOrg[session'[s].team])
               /\ Granting(s)' => teamOrg[session'[s].team] \in Org /\ NamespaceOf[session'[s].mod] = teamOrg[session'[s].team]
    <2>1. CASE CheckAddTeamMember(s)
      BY <1>0, <2>1 DEF CheckAddTeamMember, Check, Joining, Granting, AccessTypeOK
    <2>2. CASE CheckSetTeamModule(s)
      BY <1>0, <2>2 DEF CheckSetTeamModule, Check, Joining, Granting, AccessTypeOK, OwnsTeam, OwnsOrg
    <2>3. CASE ~CheckAddTeamMember(s) /\ ~CheckSetTeamModule(s)
      BY <1>0, <1>3, <2>3 DEF CheckStep, Check, CheckSetCollaborator, CheckRemoveCollaborator, CheckSetOrgMember,
        CheckRemoveOrgMember, CheckSetMemberAccess, CheckCreateTeam, CheckDeleteTeam,
        CheckRemoveTeamMember, CheckRemoveTeamModule, CheckPublish, CheckDeleteAccount, Joining, Granting, AccessTypeOK
    <2> QED
      BY <2>1, <2>2, <2>3
  <1>4. ASSUME NEW s \in Session, CommitStep(s)
        PROVE  session' = [session EXCEPT ![s] = Idle]
    BY <1>4 DEF CommitStep, Commit, SetCollaborator, RemoveCollaborator, SetOrgMember, RemoveOrgMember,
      SetMemberAccess, CreateTeam, DeleteTeam, AddTeamMember, RemoveTeamMember, SetTeamModule,
      RemoveTeamModule, Publish, DeleteAccount, GiveUp
  <1>5. ASSUME NEW u \in User, UserStep(u)
        PROVE  UNCHANGED session
    BY <1>5 DEF UserStep, LeaveModule, AcceptModule, DeclineModule, CreateOrg, LeaveOrg, AcceptOrg, DeclineOrg
  <1>6. SUFFICES ASSUME NEW x \in Session
                 PROVE  /\ Joining(x)' => BelongsTo(session[x].user, teamOrg[session[x].team])'
                        /\ Granting(x)' => (teamOrg[session[x].team] \in Org /\ NamespaceOf[session[x].mod] = teamOrg[session[x].team])'
    BY DEF GrantsAreOfTheirOrg
  <1>7. CASE session'[x] = session[x]
    BY <1>2, <1>7
  <1>8. CASE session'[x] # session[x]
    <2>1. PICK s \in Session : CheckStep(s) \/ CommitStep(s)
      BY <1>5, <1>8 DEF AccessNext
    <2>2. CASE CheckStep(s)
      BY <1>3, <1>8, <2>2 DEF tables, orgVars, teamVars, BelongsTo
    <2>3. CASE CommitStep(s)
      BY <1>0, <1>4, <1>8, <2>3 DEF AccessTypeOK, Joining, Granting, Idle
    <2> QED
      BY <2>1, <2>2, <2>3
  <1> QED
    BY <1>7, <1>8

\* Every step keeps it, of handlers that are not overtaken.
LEMMA TeamInvStep ==
  TeamInv /\ [AccessNext /\ GrantsUndisturbed]_accessVars => TeamInv'
  <1> SUFFICES ASSUME TeamInv, [AccessNext /\ GrantsUndisturbed]_accessVars
               PROVE  TeamInv'
    OBVIOUS
  <1>1. AccessTypeOK'
    BY AccessStepType DEF TeamInv
  <1>2. CASE UNCHANGED accessVars
    BY <1>1, <1>2 DEF TeamInv, TeamsAreOfTheirOrg, GrantsAreOfTheirOrg, Joining, Granting, BelongsTo, accessVars, tables,
      orgVars, teamVars
  <1>3. CASE AccessNext /\ GrantsUndisturbed
    <2>1. ASSUME NEW s \in Session, CheckStep(s)
          PROVE  UNCHANGED tables
      BY <2>1 DEF CheckStep, Check, CheckSetCollaborator, CheckRemoveCollaborator, CheckSetOrgMember,
        CheckRemoveOrgMember, CheckSetMemberAccess, CheckCreateTeam, CheckDeleteTeam, CheckAddTeamMember,
        CheckRemoveTeamMember, CheckSetTeamModule, CheckRemoveTeamModule, CheckPublish, CheckDeleteAccount
    <2>2. ASSUME UNCHANGED tables
          PROVE  TeamsAreOfTheirOrg'
      BY <2>2, TeamsStay DEF tables, orgVars, teamVars
    <2>3. TeamsAreOfTheirOrg'
      BY <1>3, <2>1, <2>2, TeamsCommit, TeamsUser DEF AccessNext
    <2> QED
      BY <1>1, <1>3, <2>3, GrantsStep DEF TeamInv
  <1> QED
    BY <1>2, <1>3

\* Who loses their membership loses the rows that hang on it.
LEMMA LeavingTakesRoles ==
  ASSUME TeamInv, [AccessNext]_accessVars, NEW o \in org, NEW u \in User,
         member[o][u].accepted, member'[o][u] = NoRow,
         NEW m \in module, NamespaceOf[m] = o
  PROVE  ~role'[m][u].accepted /\ ~BelongsTo(u, o)'
  <1>0. AccessTypeOK /\ m \in Module /\ o \in Org /\ ~NoRow.accepted
    BY DEF TeamInv, AccessTypeOK, NoRow
  <1>1. ASSUME NEW p \in Org, NEW w \in User, LeaveTables(p, w)
        PROVE  role'[m][u] = NoRow
    <2>1. p = o /\ w = u
      BY <1>0, <1>1 DEF LeaveTables, AccessTypeOK
    <2> QED
      BY <1>0, <1>1, <2>1 DEF LeaveTables, AccessTypeOK
  <1>2. member'[o][u] # member[o][u] /\ member' # member
    BY <1>0
  <1>3. ASSUME NEW s \in Session, SetOrgMember(s)
        PROVE  FALSE
    <2>1. session[s].org \in Org /\ session[s].user \in User /\ session[s].role \in OrgRole
      BY <1>0, <1>3, Holds DEF SetOrgMember, Commit
    <2>2. session[s].org = o /\ session[s].user = u
      BY <1>0, <1>2, <1>3, <2>1 DEF SetOrgMember, AccessTypeOK
    <2>3. member'[o][u] = Upsert(member[o][u], session[s].role)
      BY <1>0, <1>3, <2>2 DEF SetOrgMember, AccessTypeOK
    <2>4. member[o][u] \in Row(OrgRole) \cup {NoRow}
      BY <1>0 DEF AccessTypeOK
    <2>5. member'[o][u] \in Row(OrgRole)
      BY <2>1, <2>3, <2>4, UpsertType
    <2> QED
      BY <2>5 DEF Row, NoRow, OrgRole
  <1>4. ASSUME NEW s \in Session, RemoveOrgMember(s)
        PROVE  role'[m][u] = NoRow
    <2>1. session[s].org \in Org /\ session[s].user \in User
      BY <1>0, <1>4, Holds DEF RemoveOrgMember, Commit
    <2> QED
      BY <1>1, <1>4, <2>1 DEF RemoveOrgMember
  <1>5. ASSUME NEW s \in Session, DeleteAccount(s)
        PROVE  role'[m][u] = NoRow
    <2>1. session[s].by \in User
      BY <1>0, <1>5, Holds DEF DeleteAccount, Commit
    <2>2. session[s].by = u
      BY <1>0, <1>2, <1>5, <2>1 DEF DeleteAccount, AccessTypeOK
    <2> QED
      BY <1>0, <1>5, <2>2 DEF DeleteAccount, AccessTypeOK
  <1>6. ASSUME NEW s \in Session, CommitStep(s), ~SetOrgMember(s), ~RemoveOrgMember(s), ~DeleteAccount(s)
        PROVE  member' = member
    BY <1>6 DEF CommitStep, Commit, SetCollaborator, RemoveCollaborator, SetMemberAccess, CreateTeam,
      DeleteTeam, AddTeamMember, RemoveTeamMember, SetTeamModule, RemoveTeamModule, Publish, GiveUp, tables, orgVars
  <1>7. ASSUME NEW s \in Session, CheckStep(s)
        PROVE  member' = member
    BY <1>7 DEF CheckStep, Check, CheckSetCollaborator, CheckRemoveCollaborator, CheckSetOrgMember,
      CheckRemoveOrgMember, CheckSetMemberAccess, CheckCreateTeam, CheckDeleteTeam, CheckAddTeamMember,
      CheckRemoveTeamMember, CheckSetTeamModule, CheckRemoveTeamModule, CheckPublish, CheckDeleteAccount,
      tables, orgVars
  <1>8. ASSUME NEW w \in User, NEW n \in Module, LeaveModule(w, n) \/ AcceptModule(w, n) \/ DeclineModule(w, n)
        PROVE  member' = member
    BY <1>8 DEF LeaveModule, AcceptModule, DeclineModule, orgVars
  <1>9. ASSUME NEW w \in User, NEW p \in Org, CreateOrg(w, p)
        PROVE  FALSE
    BY <1>0, <1>2, <1>9 DEF CreateOrg, AccessTypeOK
  <1>10. ASSUME NEW w \in User, NEW p \in Org, AcceptOrg(w, p)
         PROVE  FALSE
    <2>1. ~member[p][w].accepted
      BY <1>10 DEF AcceptOrg
    <2>2. <<p, w>> # <<o, u>>
      BY <2>1
    <2> QED
      BY <1>0, <1>2, <1>10, <2>2 DEF AcceptOrg, AccessTypeOK
  <1>11. ASSUME NEW w \in User, NEW p \in Org, LeaveOrg(w, p) \/ DeclineOrg(w, p)
         PROVE  role'[m][u] = NoRow
    BY <1>1, <1>11 DEF LeaveOrg, DeclineOrg
  <1>12. ~UNCHANGED accessVars
    BY <1>2 DEF accessVars, tables, orgVars
  <1>13. ASSUME NEW s \in Session, CommitStep(s)
         PROVE  role'[m][u] = NoRow
    BY <1>2, <1>3, <1>4, <1>5, <1>6, <1>13
  <1>14. ASSUME NEW w \in User, UserStep(w)
         PROVE  role'[m][u] = NoRow
    BY <1>2, <1>8, <1>9, <1>10, <1>11, <1>14 DEF UserStep
  <1>15. role'[m][u] = NoRow
    <2>1. AccessNext
      BY <1>12
    <2>2. ~\E s \in Session : CheckStep(s)
      BY <1>2, <1>7
    <2> QED
      BY <1>13, <1>14, <2>1, <2>2 DEF AccessNext
  <1> QED
    BY <1>0, <1>15 DEF BelongsTo

\* Nobody has access that they, or their membership, did not agree to, and who
\* leaves an organization has none any more: for any handlers at the same
\* time, as long as no membership or team changes between what a handler read
\* and the row it grants a team.
THEOREM AccessStaysAgreedTo == UndisturbedSpec => AccessIsAgreedTo
  <1> DEFINE Left == \A o \in org, u \in User :
                       (member[o][u].accepted /\ member'[o][u] = NoRow)
                         => \A m \in module : NamespaceOf[m] = o => ~Maintains(u, m)'
  <1>1. TeamInv /\ TeamInv' /\ [AccessNext]_accessVars => [Left]_accessVars
    <2> SUFFICES ASSUME TeamInv, TeamInv', AccessNext, NEW o \in org, NEW u \in User,
                        member[o][u].accepted, member'[o][u] = NoRow,
                        NEW m \in module, NamespaceOf[m] = o
                 PROVE  ~Maintains(u, m)'
      BY DEF accessVars
    <2>1. ~role'[m][u].accepted /\ ~BelongsTo(u, o)'
      BY LeavingTakesRoles
    <2>2. m \in module'
      BY NothingGoes
    <2>3. AccessIsAccepted'
      BY AgreedTo, PTL
    <2> QED
      BY <2>1, <2>2, <2>3 DEF AccessIsAccepted
  <1>2. [AccessNext /\ GrantsUndisturbed]_accessVars => [AccessNext]_accessVars
    OBVIOUS
  <1>3. UndisturbedSpec => []TeamInv
    BY TeamInvInit, TeamInvStep, PTL DEF UndisturbedSpec
  <1>4. UndisturbedSpec => [][Left]_accessVars
    BY <1>1, <1>2, <1>3, PTL DEF UndisturbedSpec
  <1>5. UndisturbedSpec => []AccessIsAccepted
    BY <1>3, AgreedTo, PTL
  <1> QED
    BY <1>4, <1>5 DEF AccessIsAgreedTo, LeavingRemovesAccess
=============================================================================

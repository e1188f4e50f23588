------------------------------- MODULE Access -------------------------------
(***************************************************************************)
(* Who may do what: roles on modules, organizations, their members and     *)
(* invitations, teams, and the deletion of accounts.  The state is that of *)
(* the registry's tables; a handler of the website is a session that first *)
(* reads what the request needs (is the user an owner, does the invitee    *)
(* have an account) and later, in one immediate transaction, makes the     *)
(* change.  Between the two, other handlers run.                           *)
(*                                                                         *)
(* A row of org_members or module_roles is an invitation until its user    *)
(* accepts it.  Users are identified with their usernames, which are never *)
(* given out twice; teams are identified with their row ids, which SQLite  *)
(* does give out again.                                                    *)
(***************************************************************************)
EXTENDS Integers, FiniteSets

CONSTANTS User,         \* accounts, named by their usernames
          Org,          \* the names organizations may take
          Module,       \* module paths
          MaxTeam,      \* bound: the largest row id of a team
          TeamLimit,    \* teams an organization may have (100 in the code)
          Session,      \* handlers that may be at work at the same time
          NamespaceOf,  \* the namespace of a module path: a user or an organization
          FamilyOf,     \* the path of a module without its /vN suffix
          Operations,   \* what the users of this instance do
          NoOrg         \* the organization of a team id that is not in use

Team == 1..MaxTeam

ASSUME AccessConstants ==
  /\ MaxTeam \in Nat
  /\ TeamLimit \in Nat
  /\ User \cap Org = {}
  /\ NamespaceOf \in [Module -> User \cup Org]
  /\ NoOrg \notin Org

VARIABLES account,     \* table users
          org,         \* table organizations
          member,      \* table org_members
          access,      \* organizations.member_access
          module,      \* table modules
          role,        \* table module_roles
          teamOrg,     \* table teams
          teamMember,  \* table team_members
          teamModule,  \* table team_modules
          session      \* what each handler has checked and is about to commit

orgVars == <<org, member, access>>
moduleVars == <<module, role>>
teamVars == <<teamOrg, teamMember, teamModule>>
tables == <<account, orgVars, moduleVars, teamVars>>
accessVars == <<tables, session>>

-----------------------------------------------------------------------------
(* Rows.  The row of somebody who has none is NoRow.                       *)

ModuleRole == {"maintainer", "owner"}
OrgRole == {"member", "owner"}
Rank == [none |-> 0, maintainer |-> 1, owner |-> 2]

NoRow == [role |-> "none", accepted |-> FALSE]
Invited(r) == [role |-> r, accepted |-> FALSE]
Accepted(r) == [role |-> r, accepted |-> TRUE]
Row(roles) == [role : roles, accepted : BOOLEAN]

\* INSERT ... ON CONFLICT DO UPDATE SET role: a new row is an invitation, an
\* accepted one stays accepted.
Upsert(row, r) == [row EXCEPT !.role = r]

Idle == [op |-> "idle"]

Operation ==
  [op : {"SetCollaborator"}, by : User, mod : Module, user : User, role : ModuleRole]
  \cup [op : {"RemoveCollaborator"}, by : User, mod : Module, user : User]
  \cup [op : {"SetOrgMember"}, by : User, org : Org, user : User, role : OrgRole]
  \cup [op : {"RemoveOrgMember"}, by : User, org : Org, user : User]
  \cup [op : {"SetMemberAccess"}, by : User, org : Org, access : {"maintainer", "none"}]
  \cup [op : {"CreateTeam"}, by : User, org : Org]
  \cup [op : {"DeleteTeam"}, by : User, team : Team]
  \cup [op : {"AddTeamMember", "RemoveTeamMember"}, by : User, team : Team, user : User]
  \cup [op : {"SetTeamModule"}, by : User, team : Team, mod : Module, role : ModuleRole]
  \cup [op : {"RemoveTeamModule"}, by : User, team : Team, mod : Module]
  \cup [op : {"Publish"}, by : User, mod : Module]
  \cup [op : {"DeleteAccount"}, by : User]

-----------------------------------------------------------------------------
(* What a role lets its holder do.                                         *)

OrgRank(u, m) ==
  LET o == NamespaceOf[m]
  IN  IF o \in org
        THEN CASE member[o][u] = Accepted("owner") -> Rank.owner
               [] member[o][u] = Accepted("member") /\ access[o] # "none" -> Rank.maintainer
               [] OTHER -> Rank.none
        ELSE Rank.none

\* Mutant: a role is a role before it is accepted.
HasInvitedRole(u, m, want) ==
  \/ Rank[role[m][u].role] >= want
  \/ \E t \in Team : u \in teamMember[t] /\ Rank[teamModule[t][m]] >= want
  \/ OrgRank(u, m) >= want

\* The role of u on m is at least the one ranked want: through a role of
\* their own, a team, or the organization the module belongs to.
HasRole(u, m, want) ==
  \/ role[m][u].accepted /\ Rank[role[m][u].role] >= want
  \/ \E t \in Team : u \in teamMember[t] /\ Rank[teamModule[t][m]] >= want
  \/ OrgRank(u, m) >= want

Maintains(u, m) == HasRole(u, m, Rank.maintainer)
Owns(u, m) == HasRole(u, m, Rank.owner)
OwnsOrg(u, o) == o \in org /\ member[o][u] = Accepted("owner")
BelongsTo(u, o) == o \in org /\ member[o][u].accepted
IsOfNamespace(u, m) == NamespaceOf[m] = u \/ BelongsTo(u, NamespaceOf[m])
OwnsTeam(u, t) == teamOrg[t] # NoOrg /\ OwnsOrg(u, teamOrg[t])

\* The major versions of m there are modules of.
MajorVersions(m) == {n \in module : FamilyOf[n] = FamilyOf[m]}

MayPublish(u, m) ==
  \/ m \in module /\ Maintains(u, m)
  \/ /\ m \notin module
     /\ IF MajorVersions(m) # {}
          THEN \E n \in MajorVersions(m) : Maintains(u, n)
          ELSE IsOfNamespace(u, m)

\* Mutant: an invited owner is counted.
KeepsSomeOwner(r, m) == NamespaceOf[m] \in org \/ \E u \in User : r[m][u].role = "owner"

\* keepAnOwner, on the rows r a transaction is about to leave behind.
KeepsAnOwner(r, m) == NamespaceOf[m] \in org \/ \E u \in User : r[m][u] = Accepted("owner")
\* keepAnOrgOwner, on the rows r a transaction is about to leave behind.
KeepsAnOrgOwner(r, o) == \E u \in User : r[o][u] = Accepted("owner")

-----------------------------------------------------------------------------
(* Handlers.  Check is the part of one that only reads; the operation it   *)
(* leaves in the session is carried out by a Commit, or given up.          *)

Check(s, op) ==
  /\ session[s] = Idle
  /\ op.op \in Operations
  /\ op.by \in account
  /\ session' = [session EXCEPT ![s] = op]
  /\ UNCHANGED tables

\* The transaction of session s begins.  It names the user it acts for in the
\* audit log, which has a foreign key, so the account must still exist.
Commit(s, kind) ==
  /\ session[s].op = kind
  /\ session[s].by \in account
  /\ session' = [session EXCEPT ![s] = Idle]

\* A transaction rolls back: what it found refuses the change, its request
\* was cancelled, or the server went down.
GiveUp(s) ==
  /\ session[s] # Idle
  /\ session' = [session EXCEPT ![s] = Idle]
  /\ UNCHANGED tables

\* Mutant: without the trigger on direct roles.
LeaveTeams(o, u) ==
  /\ member' = [member EXCEPT ![o][u] = NoRow]
  /\ teamMember' = [t \in Team |-> IF teamOrg[t] = o THEN teamMember[t] \ {u} ELSE teamMember[t]]
  /\ role' = role

\* Deleting the row of u in org_members, with the triggers of that table:
\* u leaves the organization's teams and loses direct roles on its modules.
LeaveTables(o, u) ==
  /\ member' = [member EXCEPT ![o][u] = NoRow]
  /\ teamMember' = [t \in Team |-> IF teamOrg[t] = o THEN teamMember[t] \ {u} ELSE teamMember[t]]
  /\ role' = [m \in Module |->
                IF m \in module /\ NamespaceOf[m] = o
                  THEN [role[m] EXCEPT ![u] = NoRow] ELSE role[m]]

-----------------------------------------------------------------------------
(* Roles on a module.                                                      *)

CheckSetCollaborator(s) ==
  \E u \in User, m \in module, w \in account, r \in ModuleRole :
    /\ Owns(u, m)
    /\ Check(s, [op |-> "SetCollaborator", by |-> u, mod |-> m, user |-> w, role |-> r])

SetCollaborator(s) ==
  LET op == session[s] IN
  /\ Commit(s, "SetCollaborator")
  /\ op.user \in account
  /\ role' = [role EXCEPT ![op.mod][op.user] = Upsert(@, op.role)]
  /\ KeepsAnOwner(role', op.mod)
  /\ UNCHANGED <<account, orgVars, module, teamVars>>

CheckRemoveCollaborator(s) ==
  \E u \in User, m \in module, w \in User :
    /\ Owns(u, m)
    /\ Check(s, [op |-> "RemoveCollaborator", by |-> u, mod |-> m, user |-> w])

RemoveCollaborator(s) ==
  LET op == session[s] IN
  /\ Commit(s, "RemoveCollaborator")
  /\ role[op.mod][op.user] # NoRow
  /\ role' = [role EXCEPT ![op.mod][op.user] = NoRow]
  /\ KeepsAnOwner(role', op.mod)
  /\ UNCHANGED <<account, orgVars, module, teamVars>>

\* LeaveModule does everything in its transaction.
LeaveModule(u, m) ==
  /\ "LeaveModule" \in Operations
  /\ u \in account
  /\ m \in module
  /\ role[m][u] # NoRow
  /\ role' = [role EXCEPT ![m][u] = NoRow]
  /\ KeepsAnOwner(role', m)
  /\ UNCHANGED <<account, orgVars, module, teamVars, session>>

\* An invitation is answered by one statement.
AcceptModule(u, m) ==
  /\ role[m][u].role # "none"
  /\ ~role[m][u].accepted
  /\ role' = [role EXCEPT ![m][u].accepted = TRUE]
  /\ UNCHANGED <<account, orgVars, module, teamVars, session>>

DeclineModule(u, m) ==
  /\ role[m][u].role # "none"
  /\ ~role[m][u].accepted
  /\ role' = [role EXCEPT ![m][u] = NoRow]
  /\ UNCHANGED <<account, orgVars, module, teamVars, session>>

-----------------------------------------------------------------------------
(* Organizations.                                                          *)

CreateOrg(u, o) ==
  /\ "CreateOrg" \in Operations
  /\ u \in account
  /\ o \notin org
  /\ org' = org \cup {o}
  /\ member' = [member EXCEPT ![o][u] = Accepted("owner")]
  /\ access' = [access EXCEPT ![o] = "maintainer"]
  /\ UNCHANGED <<account, moduleVars, teamVars, session>>

CheckSetOrgMember(s) ==
  \E u \in User, o \in org, w \in account, r \in OrgRole :
    /\ OwnsOrg(u, o)
    /\ Check(s, [op |-> "SetOrgMember", by |-> u, org |-> o, user |-> w, role |-> r])

SetOrgMember(s) ==
  LET op == session[s] IN
  /\ Commit(s, "SetOrgMember")
  /\ op.user \in account
  /\ member' = [member EXCEPT ![op.org][op.user] = Upsert(@, op.role)]
  /\ KeepsAnOrgOwner(member', op.org)
  /\ UNCHANGED <<account, org, access, moduleVars, teamVars>>

CheckRemoveOrgMember(s) ==
  \E u \in User, o \in org, w \in User :
    /\ OwnsOrg(u, o)
    /\ Check(s, [op |-> "RemoveOrgMember", by |-> u, org |-> o, user |-> w])

RemoveOrgMember(s) ==
  LET op == session[s] IN
  /\ Commit(s, "RemoveOrgMember")
  /\ member[op.org][op.user] # NoRow
  /\ LeaveTables(op.org, op.user)
  /\ KeepsAnOrgOwner(member', op.org)
  /\ UNCHANGED <<account, org, access, module, teamOrg, teamModule>>

\* LeaveOrg does everything in its transaction.
LeaveOrg(u, o) ==
  /\ "LeaveOrg" \in Operations
  /\ u \in account
  /\ o \in org
  /\ member[o][u] # NoRow
  /\ LeaveTables(o, u)
  /\ KeepsAnOrgOwner(member', o)
  /\ UNCHANGED <<account, org, access, module, teamOrg, teamModule, session>>

AcceptOrg(u, o) ==
  /\ member[o][u].role # "none"
  /\ ~member[o][u].accepted
  /\ member' = [member EXCEPT ![o][u].accepted = TRUE]
  /\ UNCHANGED <<account, org, access, moduleVars, teamVars, session>>

\* Declining deletes the row, which fires the triggers of org_members.
DeclineOrg(u, o) ==
  /\ member[o][u].role # "none"
  /\ ~member[o][u].accepted
  /\ LeaveTables(o, u)
  /\ UNCHANGED <<account, org, access, module, teamOrg, teamModule, session>>

CheckSetMemberAccess(s) ==
  \E u \in User, o \in org, a \in {"maintainer", "none"} :
    /\ OwnsOrg(u, o)
    /\ Check(s, [op |-> "SetMemberAccess", by |-> u, org |-> o, access |-> a])

SetMemberAccess(s) ==
  LET op == session[s] IN
  /\ Commit(s, "SetMemberAccess")
  /\ access' = [access EXCEPT ![op.org] = op.access]
  /\ UNCHANGED <<account, org, member, moduleVars, teamVars>>

-----------------------------------------------------------------------------
(* Teams.                                                                  *)

TeamsOf(o) == {t \in Team : teamOrg[t] = o}
UsedTeams == {t \in Team : teamOrg[t] # NoOrg}

CheckCreateTeam(s) ==
  \E u \in User, o \in org :
    /\ OwnsOrg(u, o)
    /\ Cardinality(TeamsOf(o)) < TeamLimit
    /\ Check(s, [op |-> "CreateTeam", by |-> u, org |-> o])

\* SQLite gives a new row the id after the largest one in the table.
CreateTeam(s) ==
  /\ Commit(s, "CreateTeam")
  /\ \E t \in Team :
       /\ \A x \in UsedTeams : x < t
       /\ t = 1 \/ t - 1 \in UsedTeams
       /\ teamOrg' = [teamOrg EXCEPT ![t] = session[s].org]
  /\ UNCHANGED <<account, orgVars, moduleVars, teamMember, teamModule>>

CheckDeleteTeam(s) ==
  \E u \in User, t \in Team :
    /\ OwnsTeam(u, t)
    /\ Check(s, [op |-> "DeleteTeam", by |-> u, team |-> t])

DeleteTeam(s) ==
  LET t == session[s].team IN
  /\ Commit(s, "DeleteTeam")
  /\ teamOrg' = [teamOrg EXCEPT ![t] = NoOrg]
  /\ teamMember' = [teamMember EXCEPT ![t] = {}]
  /\ teamModule' = [teamModule EXCEPT ![t] = [m \in Module |-> "none"]]
  /\ UNCHANGED <<account, orgVars, moduleVars>>

\* That w belongs to the organization is read before the transaction.
CheckAddTeamMember(s) ==
  \E u \in User, t \in Team, w \in account :
    /\ OwnsTeam(u, t)
    /\ BelongsTo(w, teamOrg[t])
    /\ Check(s, [op |-> "AddTeamMember", by |-> u, team |-> t, user |-> w])

AddTeamMember(s) ==
  LET op == session[s] IN
  /\ Commit(s, "AddTeamMember")
  /\ op.user \in account
  /\ teamOrg[op.team] # NoOrg
  /\ teamMember' = [teamMember EXCEPT ![op.team] = @ \cup {op.user}]
  /\ UNCHANGED <<account, orgVars, moduleVars, teamOrg, teamModule>>

CheckRemoveTeamMember(s) ==
  \E u \in User, t \in Team, w \in User :
    /\ OwnsTeam(u, t)
    /\ Check(s, [op |-> "RemoveTeamMember", by |-> u, team |-> t, user |-> w])

RemoveTeamMember(s) ==
  LET op == session[s] IN
  /\ Commit(s, "RemoveTeamMember")
  /\ op.user \in teamMember[op.team]
  /\ teamMember' = [teamMember EXCEPT ![op.team] = @ \ {op.user}]
  /\ UNCHANGED <<account, orgVars, moduleVars, teamOrg, teamModule>>

CheckSetTeamModule(s) ==
  \E u \in User, t \in Team, m \in module, r \in ModuleRole :
    /\ OwnsTeam(u, t)
    /\ NamespaceOf[m] = teamOrg[t]
    /\ Check(s, [op |-> "SetTeamModule", by |-> u, team |-> t, mod |-> m, role |-> r])

SetTeamModule(s) ==
  LET op == session[s] IN
  /\ Commit(s, "SetTeamModule")
  /\ teamOrg[op.team] # NoOrg
  /\ teamModule' = [teamModule EXCEPT ![op.team][op.mod] = op.role]
  /\ UNCHANGED <<account, orgVars, moduleVars, teamOrg, teamMember>>

CheckRemoveTeamModule(s) ==
  \E u \in User, t \in Team, m \in Module :
    /\ OwnsTeam(u, t)
    /\ Check(s, [op |-> "RemoveTeamModule", by |-> u, team |-> t, mod |-> m])

RemoveTeamModule(s) ==
  LET op == session[s] IN
  /\ Commit(s, "RemoveTeamModule")
  /\ teamModule[op.team][op.mod] # "none"
  /\ teamModule' = [teamModule EXCEPT ![op.team][op.mod] = "none"]
  /\ UNCHANGED <<account, orgVars, moduleVars, teamOrg, teamMember>>

-----------------------------------------------------------------------------
(* Publishing, as far as it concerns roles, and deleting an account.       *)

\* Mutant: a member gets no role on the module they create.
OwnersRoles(u, m) ==
  IF NamespaceOf[m] = u THEN [role[m] EXCEPT ![u] = Accepted("owner")] ELSE role[m]

\* The rows of module_roles for m once u has created it.  The first publisher
\* of a module in a personal namespace owns it; a member who creates one
\* where members get no access without a team maintains it.
CreatorsRoles(u, m) ==
  LET o == NamespaceOf[m] IN
  CASE o = u -> [role[m] EXCEPT ![u] = Accepted("owner")]
    [] o \in org /\ member[o][u] = Accepted("member") /\ access[o] = "none" ->
         [role[m] EXCEPT ![u] = Accepted("maintainer")]
    [] OTHER -> role[m]

CreateModuleRow(u, m) ==
  /\ module' = module \cup {m}
  /\ role' = IF m \in module THEN role ELSE [role EXCEPT ![m] = CreatorsRoles(u, m)]

CheckPublish(s) ==
  \E u \in User, m \in Module :
    /\ MayPublish(u, m)
    /\ Check(s, [op |-> "Publish", by |-> u, mod |-> m])

Publish(s) ==
  /\ Commit(s, "Publish")
  /\ CreateModuleRow(session[s].by, session[s].mod)
  /\ UNCHANGED <<account, orgVars, teamVars>>

\* Mutant: an invited owner counts as another owner.
SoleNamedOwner(u, o) ==
  OwnsOrg(u, o) /\ \A w \in User \ {u} : member[o][w].role # "owner"

SoleOrgOwner(u, o) ==
  OwnsOrg(u, o) /\ \A w \in User \ {u} : member[o][w] # Accepted("owner")

CheckDeleteAccount(s) ==
  \E u \in User :
    /\ \A o \in org : ~SoleOrgOwner(u, o)
    /\ Check(s, [op |-> "DeleteAccount", by |-> u])

\* Everything that refers to the user goes with the row, except modules.
DeleteAccount(s) ==
  LET u == session[s].by IN
  /\ Commit(s, "DeleteAccount")
  /\ account' = account \ {u}
  /\ member' = [o \in Org |-> [member[o] EXCEPT ![u] = NoRow]]
  /\ role' = [m \in Module |-> [role[m] EXCEPT ![u] = NoRow]]
  /\ teamMember' = [t \in Team |-> teamMember[t] \ {u}]
  /\ UNCHANGED <<org, access, module, teamOrg, teamModule>>

-----------------------------------------------------------------------------
Init ==
  /\ account = User
  /\ org = {}
  /\ member = [o \in Org |-> [u \in User |-> NoRow]]
  /\ access = [o \in Org |-> "maintainer"]
  /\ module = {}
  /\ role = [m \in Module |-> [u \in User |-> NoRow]]
  /\ teamOrg = [t \in Team |-> NoOrg]
  /\ teamMember = [t \in Team |-> {}]
  /\ teamModule = [t \in Team |-> [m \in Module |-> "none"]]
  /\ session = [s \in Session |-> Idle]

\* A handler reads what it needs.
CheckStep(s) ==
  \/ CheckSetCollaborator(s)
  \/ CheckRemoveCollaborator(s)
  \/ CheckSetOrgMember(s)
  \/ CheckRemoveOrgMember(s)
  \/ CheckSetMemberAccess(s)
  \/ CheckCreateTeam(s)
  \/ CheckDeleteTeam(s)
  \/ CheckAddTeamMember(s)
  \/ CheckRemoveTeamMember(s)
  \/ CheckSetTeamModule(s)
  \/ CheckRemoveTeamModule(s)
  \/ CheckPublish(s)
  \/ CheckDeleteAccount(s)

\* A handler commits, or fails to.
CommitStep(s) ==
  \/ SetCollaborator(s)
  \/ RemoveCollaborator(s)
  \/ SetOrgMember(s)
  \/ RemoveOrgMember(s)
  \/ SetMemberAccess(s)
  \/ CreateTeam(s)
  \/ DeleteTeam(s)
  \/ AddTeamMember(s)
  \/ RemoveTeamMember(s)
  \/ SetTeamModule(s)
  \/ RemoveTeamModule(s)
  \/ Publish(s)
  \/ DeleteAccount(s)
  \/ GiveUp(s)

\* Handlers that are one transaction or one statement.
UserStep(u) ==
  \/ \E m \in Module : LeaveModule(u, m) \/ AcceptModule(u, m) \/ DeclineModule(u, m)
  \/ \E o \in Org : CreateOrg(u, o) \/ LeaveOrg(u, o) \/ AcceptOrg(u, o) \/ DeclineOrg(u, o)

AccessNext ==
  \/ \E s \in Session : CheckStep(s) \/ CommitStep(s)
  \/ \E u \in User : UserStep(u)

AccessSpec == Init /\ [][AccessNext]_accessVars

\* Nobody joins or leaves an organization, and no team comes or goes, while a
\* handler is between what it read and the row it grants a team: the gap that
\* AddTeamMember and SetTeamModule leave open.
GrantsUndisturbed ==
  \A s \in Session :
    (session[s].op \in {"AddTeamMember", "SetTeamModule"} /\ session'[s] = session[s])
      => UNCHANGED <<member, teamOrg>>

UndisturbedSpec == Init /\ [][AccessNext /\ GrantsUndisturbed]_accessVars

-----------------------------------------------------------------------------
(* Properties.                                                             *)

AccessTypeOK ==
  /\ account \subseteq User
  /\ org \subseteq Org
  /\ member \in [Org -> [User -> Row(OrgRole) \cup {NoRow}]]
  /\ access \in [Org -> {"maintainer", "none"}]
  /\ module \subseteq Module
  /\ role \in [Module -> [User -> Row(ModuleRole) \cup {NoRow}]]
  /\ teamOrg \in [Team -> Org \cup {NoOrg}]
  /\ teamMember \in [Team -> SUBSET User]
  /\ teamModule \in [Team -> [Module -> ModuleRole \cup {"none"}]]
  /\ session \in [Session -> Operation \cup {Idle}]

HasOwner(m) == \E u \in User : role[m][u] = Accepted("owner")
OrgHasOwner(o) == \E u \in User : member[o][u] = Accepted("owner")

\* An organization always has an owner who accepted, however its owners
\* demote, remove and leave each other at the same time (keepAnOrgOwner).
OrgsHaveAnOwner == \A o \in org : OrgHasOwner(o)

\* A module of a personal namespace that has an owner who accepted keeps one,
\* whatever its owners do to each other at the same time (keepAnOwner).
PersonalModulesKeepTheirOwner ==
  [][\A m \in module :
       (NamespaceOf[m] \in User /\ HasOwner(m)) => HasOwner(m)']_accessVars

\* README: "A module always keeps at least one owner who has accepted."
ModulesHaveAnOwner == \A m \in module : NamespaceOf[m] \in org \/ HasOwner(m)

\* Nobody has access to a module without having agreed to it: they accepted a
\* role on the module (or created it), or they belong to its organization.
AccessIsAccepted ==
  \A u \in User, m \in module :
    Maintains(u, m) => role[m][u].accepted \/ BelongsTo(u, NamespaceOf[m])

\* Removing a member, or leaving, removes all access to the organization's
\* modules: through its teams, and the direct roles too.
LeavingRemovesAccess ==
  [][\A o \in org, u \in User :
       (member[o][u].accepted /\ member'[o][u] = NoRow)
         => \A m \in module : NamespaceOf[m] = o => ~Maintains(u, m)']_accessVars

\* Access is agreed to, and lasts no longer than its user stays: true of
\* UndisturbedSpec, and so with one handler at a time.
AccessIsAgreedTo == []AccessIsAccepted /\ LeavingRemovesAccess

=============================================================================

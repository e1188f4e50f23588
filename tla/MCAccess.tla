------------------------------ MODULE MCAccess ------------------------------
(***************************************************************************)
(* Instances of Access.  A behaviour is in one of the modes:               *)
(*   "sequential"  every operation on the organization acme and its module *)
(*                 lib, with nothing between a check and its commit        *)
(*   "owners"      two handlers at a time: what the owners of acme, and of *)
(*                 a module of u1's namespace, do to each other            *)
(*   "deletion"    u1 owns acme; members are added, accounts deleted       *)
(*   "major"       releases of a module of u1's, and its next version      *)
(***************************************************************************)
EXTENDS Access

CONSTANTS Modes, u1, u2, acme, lib, own, ownV2, s1

VARIABLE mode

InstanceNamespace == [m \in Module |-> IF m = lib THEN acme ELSE u1]
InstanceFamily == [m \in Module |-> IF m = lib THEN lib ELSE own]

OwnerOperations == {"CreateOrg", "SetOrgMember", "RemoveOrgMember", "LeaveOrg"}
ModuleOperations == {"Publish", "SetCollaborator", "RemoveCollaborator", "LeaveModule"}
TeamOperations == {"CreateTeam", "DeleteTeam", "AddTeamMember", "RemoveTeamMember", "SetTeamModule", "RemoveTeamModule"}

Ownership == OwnerOperations \cup ModuleOperations
AllOperations == Ownership \cup TeamOperations \cup {"SetMemberAccess", "DeleteAccount"}

\* u1 owns the organization acme.
OrgInit ==
  /\ account = User
  /\ org = {acme}
  /\ member = [o \in Org |-> [u \in User |-> IF o = acme /\ u = u1 THEN Accepted("owner") ELSE NoRow]]
  /\ access = [o \in Org |-> "maintainer"]
  /\ module = {}
  /\ role = [m \in Module |-> [u \in User |-> NoRow]]
  /\ teamOrg = [t \in Team |-> NoOrg]
  /\ teamMember = [t \in Team |-> {}]
  /\ teamModule = [t \in Team |-> [m \in Module |-> "none"]]
  /\ session = [s \in Session |-> Idle]

\* One handler at a time: nothing happens between a check and its commit.
OneAtATime ==
  \/ CheckStep(s1) \/ CommitStep(s1)
  \/ session[s1] = Idle /\ \E u \in User : UserStep(u)

\* The handlers do these operations, on these modules.
Only(operations, modules) ==
  /\ module' \subseteq modules
  /\ \A s \in Session :
       /\ session'[s].op \in operations \cup {"idle"}
       /\ "mod" \in DOMAIN session'[s] => session'[s].mod \in modules

MCInit == mode \in Modes /\ IF mode = "deletion" THEN OrgInit ELSE Init

MCNext ==
  /\ mode' = mode
  /\ \/ mode = "sequential" /\ OneAtATime /\ GrantsUndisturbed /\ Only(AllOperations, {lib})
     \/ mode = "owners" /\ AccessNext /\ Only(Ownership, {own})
     \/ mode = "deletion" /\ AccessNext /\ Only({"SetOrgMember", "DeleteAccount"}, {})
     \/ mode = "major" /\ AccessNext /\ Only({"Publish", "SetCollaborator"}, {own, ownV2})

MCSpec == MCInit /\ [][MCNext]_<<mode, accessVars>>
=============================================================================

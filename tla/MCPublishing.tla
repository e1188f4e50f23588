---------------------------- MODULE MCPublishing ----------------------------
(***************************************************************************)
(* Instances of Publishing.  A behaviour is in one of the modes:           *)
(*   "upload"  two uploads of one version of u1's module own, by u1: z1    *)
(*             and z2 are two archives of the same files, z3 one of others *)
(*   "roles"   one upload at a time to an organization whose members have  *)
(*             no access without a team; quarantines, accounts deleted;    *)
(*             two versions of one module and one of the other             *)
(*   "race"    two uploads to a module of that organization                *)
(*   "major"   one upload at a time, of two major versions of a module     *)
(***************************************************************************)
EXTENDS Publishing

CONSTANTS Modes, u1, u2, acme, own, retry, z1, z3, v1, r1

VARIABLE mode

InstanceNamespace == [m \in Module |-> IF m = own THEN u1 ELSE acme]
InstanceFamily == [m \in Module |-> IF m = own THEN own ELSE retry]
InstanceH1 == [z \in ZipFile |-> IF z = z3 THEN "h1:other" ELSE "h1:same"]
InstanceSha == [z \in ZipFile |-> z]

\* An organization where members get no access without a team: u1 owns it,
\* the others are members.
OrgInit ==
  /\ account = User
  /\ org = {acme}
  /\ member = [o \in Org |-> [u \in User |-> Accepted(IF u = u1 THEN "owner" ELSE "member")]]
  /\ access = [o \in Org |-> "none"]
  /\ module = {}
  /\ role = [m \in Module |-> [u \in User |-> NoRow]]
  /\ teamOrg = [t \in Team |-> NoOrg]
  /\ teamMember = [t \in Team |-> {}]
  /\ teamModule = [t \in Team |-> [m \in Module |-> "none"]]
  /\ session = [s \in Session |-> Idle]

MCInit ==
  /\ mode \in Modes
  /\ IF mode = "upload" THEN Init ELSE OrgInit
  /\ quarantined = {}
  /\ version = [m \in Module |-> [v \in Version |-> NoVersion]]
  /\ blob = [k \in BlobKey |-> Empty]
  /\ upload = [r \in Upload |-> NoUpload]

\* Uploads are of these.
Only(modules, versions, zips) ==
  \A r \in Upload : upload'[r] # NoUpload =>
    upload'[r].mod \in modules /\ upload'[r].ver \in versions /\ upload'[r].zip \in zips

By(u) == \A r \in Upload : upload'[r] # NoUpload => upload'[r].by = u
OneVersionOfOthers ==
  \A r \in Upload : upload'[r] # NoUpload => upload'[r].mod = retry \/ upload'[r].ver = v1
OneUpload == \A r \in Upload \ {r1} : upload'[r] = NoUpload
NothingDeleted == session' = [s \in Session |-> Idle]

MCNext ==
  /\ mode' = mode
  /\ Next
  /\ CASE mode = "upload" -> Only({own}, {v1}, ZipFile) /\ By(u1) /\ NothingDeleted
       [] mode = "roles" -> Only(Module \ {own}, Version, {z1}) /\ OneUpload /\ OneVersionOfOthers /\ UploadsUndisturbed
       [] mode = "race" -> Only({retry}, Version, {z1}) /\ NothingDeleted
       [] mode = "major" -> Only(Module \ {own}, {v1}, {z1}) /\ OneUpload /\ NothingDeleted

MCVars == <<mode, vars>>
MCSpec == MCInit /\ [][MCNext]_MCVars
=============================================================================

----------------------------- MODULE MCRegistry -----------------------------
(***************************************************************************)
(* Small instances of what is published, listed, read and reviewed, and of *)
(* the command line that publishes it: a behaviour works in one of the     *)
(* modes of MCPublishing or in one of the parts below.                     *)
(***************************************************************************)
EXTENDS MCPublishing, Registry, TLC

CONSTANTS p1path, p2path, dep, shell, workflow, commit1, commit2, commit3, hosted1, local1, t1, t2

CatalogParts == {"client", "credentials", "catalog", "paths", "typos", "gomod", "moderation"}

textVars == <<versionsVars, typosVars, goModVars>>
catalogPartVars == <<clientVars, credentialVars, catalogVars, textVars, moderationVars>>

\* Two commits with the same files but for go.mod's module, and one with
\* others; a shell with a token or none, and a workflow.
InstanceModPaths == commit1 :> "m" @@ commit2 :> "m" @@ commit3 :> "n"
InstanceFiles == commit1 :> 1 @@ commit2 :> 2 @@ commit3 :> 1
InstanceTokens == shell :> {"own", "none"} @@ workflow :> {"workflow"}

\* Both spellings of one registry, and http where it is allowed and where not.
InstanceWritten ==
  {[scheme |-> "https", host |-> hosted1, slash |-> slash] : slash \in BOOLEAN}
    \cup {[scheme |-> "http", host |-> host, slash |-> FALSE] : host \in Host}

\* A registry of this machine and another one know one token each.
InstanceKnownAt == [url \in Url |-> IF url.host = local1 THEN {t1} ELSE {t2}]

\* The second module is the first one's next major version, or its directory.
InstanceBases == p1path :> p1path @@ p2path :> p1path

\* Numbers of more than one digit, every kind of identifier, what may follow
\* a "+", and numbers that are not well formed.
Ver(nums, pre, plus) == [nums |-> nums, pre |-> pre, plus |-> plus]
OneTen == <<<<1>>, <<1, 0>>, <<0>>>>
InstanceVersions ==
  {Ver(<<<<1>>, <<9>>, <<0>>>>, <<>>, ""), Ver(<<<<1, 0>>, <<0>>, <<0>>>>, <<<<0>>, <<10>>>>, ""),
   Ver(<<<<1>>, <<0, 1>>, <<0>>>>, <<>>, ""), Ver(<<<<2>>, <<0>>, <<0>>>>, <<<<10>>>>, "other")}
    \cup {Ver(OneTen, <<>>, plus) : plus \in {"", "incompatible"}}
    \cup {Ver(OneTen, pre, "") : pre \in {<<<<10>>>>, <<<<9>>>>, <<<<1, 0>>>>, <<<<10>>, <<2>>>>, <<<<10, -1>>>>}}

InstanceCapital == [x \in Small |-> CHOOSE y \in Big : TRUE]

\* Lines of every kind, and three comments that matter.
InstanceLines ==
  {[fields |-> f, comment |-> ""] : f \in {<<>>, <<"module", "x">>, <<"module", "x", "y">>, <<"require", "(">>,
     <<"require", "x", "y">>, <<"x", "y">>, <<")">>, <<"retract", "x">>, <<"retract">>, <<"go">>}}
    \cup {[fields |-> <<>>, comment |-> "Deprecated:"], [fields |-> <<"x", "y">>, comment |-> "indirect"],
          [fields |-> <<"retract", "x">>, comment |-> "text"]}

CatalogPartsInit ==
  /\ ClientInit /\ CredentialsInit /\ CatalogInit /\ ModerationInit
  /\ VersionsInit /\ TyposInit /\ GoModInit

\* A step of one part.
CatalogPartsNext(part) ==
  /\ IF part = "client" THEN ClientNext ELSE UNCHANGED clientVars
  /\ IF part = "credentials" THEN CredentialsNext ELSE UNCHANGED credentialVars
  /\ IF part = "catalog" THEN CatalogNext ELSE UNCHANGED catalogVars
  /\ IF part = "moderation" THEN ModerationNext ELSE UNCHANGED moderationVars
  /\ IF part = "paths" THEN VersionsNext ELSE UNCHANGED versionsVars
  /\ IF part = "typos" THEN TyposNext ELSE UNCHANGED typosVars
  /\ IF part = "gomod" THEN GoModNext ELSE UNCHANGED goModVars

-----------------------------------------------------------------------------
registryVars == <<MCVars, catalogPartVars>>

RegistryInit ==
  /\ MCInit
  /\ CatalogPartsInit
  /\ mode = "client" \/ head = commit1
  /\ mode = "catalog" \/ versionRows = <<>>

RegistryNext ==
  IF mode \in CatalogParts
  THEN CatalogPartsNext(mode) /\ UNCHANGED MCVars
  ELSE MCNext /\ UNCHANGED catalogPartVars

MCRegistrySpec == RegistryInit /\ [][RegistryNext]_registryVars
=============================================================================

SPECIFICATION MCSpec
CONSTANTS
  Modes = {"major"}
  u1 = u1
  u2 = u2
  acme = acme
  lib = lib
  own = own
  ownV2 = ownV2
  s1 = s1
  NoOrg = NoOrg
  User = {u1, u2}
  Org = {}
  Module = {own, ownV2}
  MaxTeam = 0
  TeamLimit = 0
  Session = {s1}
  NamespaceOf <- InstanceNamespace
  FamilyOf <- InstanceFamily
  Operations <- AllOperations
CHECK_DEADLOCK FALSE
INVARIANT ModulesHaveAnOwner

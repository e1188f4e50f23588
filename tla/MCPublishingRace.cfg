SPECIFICATION MCSpec
CONSTANTS
  Modes = {"race"}
  u1 = u1
  u2 = u2
  acme = acme
  own = own
  retry = retry
  z1 = z1
  z3 = z3
  v1 = v1
  r1 = r1
  User = {u1, u2, u3}
  Org = {acme}
  Module = {retry}
  MaxTeam = 0
  TeamLimit = 0
  Session = {}
  NamespaceOf <- InstanceNamespace
  FamilyOf <- InstanceFamily
  Operations = {}
  NoOrg = NoOrg
  Upload = {r1, r2}
  Version = {v1, v2}
  ZipFile = {z1}
  H1 <- InstanceH1
  Sha <- InstanceSha
  Empty = Empty
CHECK_DEADLOCK FALSE
PROPERTY PublishersHoldARole

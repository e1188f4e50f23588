SPECIFICATION MCAccountsSpec
CONSTANTS
  Parts = {"setup"}
  Modes = {"sequential", "owners"}
  u1 = u1
  u2 = u2
  acme = acme
  lib = lib
  own = own
  ownV2 = ownV2
  s1 = s1
  NoOrg = NoOrg
  User = {u1, u2}
  Org = {acme}
  Module = {lib, own}
  MaxTeam = 1
  TeamLimit = 1
  Session = {s1, s2}
  NamespaceOf <- InstanceNamespace
  FamilyOf <- InstanceFamily
  Operations <- AllOperations
  b1 = b1
  b2 = b2
  r1 = r1
  r2 = r2
  r3 = r3
  x1 = x1
  i1 = i1
  e1 = e1
  o1 = o1
  o2 = o2
  None = None
  Browser = {b1, b2}
  Request = {r1, r2, r3}
  BrowserOf <- InstanceBrowserOf
  LoginSession = {s3, s4}
  Challenge = {c1}
  Ceremony = {w1}
  ResetLink = {l1}
  AppSecret = {x1, x2}
  Passkey = {k1, k2}
  RecoveryCode = {y1}
  MaxCodeAttempts = 2
  MaxCodeFailures = 1
  MaxPasskeys = 1
  MaxStep = 2
  Name = {n1, n2}
  Address = {a1, a2}
  LinkSecret = {v1, v2, v3}
  Handler = {h1, h2}
  Nowhere = Nowhere
  Publicist = {u1}
  Mod = {m1}
  NoEnv = NoEnv
  Env = {NoEnv, e1}
  IdToken = {i1, i2}
  Claims <- InstanceClaims
  OwnerId = {o1, o2}
  Caller = {d1, d2}
  ApiToken = {t1, t2}
  MaxPublisher = 1
  MaxPublishers = 1
  MaxTokens = 1
  Leeway = 1
  KeepUse = 1
  MaxNow = 3
  Unpinned = Unpinned
SYMMETRY InstanceSymmetry
CHECK_DEADLOCK FALSE
INVARIANT CodesAreNotReused

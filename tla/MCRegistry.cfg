SPECIFICATION MCRegistrySpec
CONSTANTS
  Modes = {"upload", "roles", "client", "credentials", "catalog", "paths", "typos", "gomod", "moderation"}
  u1 = u1
  u2 = u2
  acme = acme
  own = own
  retry = retry
  z1 = z1
  z3 = z3
  v1 = v1
  r1 = r1
  User = {u1, u2}
  Org = {acme}
  Module = {own, retry, retryV2}
  MaxTeam = 0
  TeamLimit = 0
  Session = {s1}
  NamespaceOf <- InstanceNamespace
  FamilyOf <- InstanceFamily
  Operations = {"Quarantine", "DeleteAccount"}
  NoOrg = NoOrg
  Upload = {r1, r2}
  Version = {v1, v2}
  ZipFile = {z1, z2, z3}
  H1 <- InstanceH1
  Sha <- InstanceSha
  Empty = Empty
  GitCommit = {commit1, commit2, commit3}
  commit1 = commit1
  commit2 = commit2
  commit3 = commit3
  shell = shell
  workflow = workflow
  Tagged = {"v1"}
  ModPathAt <- InstanceModPaths
  FilesAt <- InstanceFiles
  Runner = {shell, workflow}
  TokensOf <- InstanceTokens
  MaxRuns = 2
  MaxMoves = 2
  NoCommit = NoCommit
  Host = {hosted1, local1}
  Loopback = {local1}
  hosted1 = hosted1
  local1 = local1
  Tok = {t1, t2}
  t1 = t1
  t2 = t2
  KnownAt <- InstanceKnownAt
  Written <- InstanceWritten
  Cmd = {cmd1, cmd2}
  NoUrl = NoUrl
  NoTok = NoTok
  ListedPath = {p1path, p2path}
  p1path = p1path
  p2path = p2path
  dep = dep
  BaseOf <- InstanceBases
  GoMods = {{}, {dep}, {p1path, dep}}
  MaxRows = 3
  MaxChecks = 2
  MaxFills = 2
  Small = {"a"}
  Big = {"A"}
  Capital <- InstanceCapital
  Marks = {"!", "/", ".", "-", "@"}
  MaxText = 5
  RawVersion <- InstanceVersions
  MaxListed = 3
  Char = {1, 2}
  MaxName = 5
  ShortName = 2
  LongName = 4
  Line <- InstanceLines
  MaxLines = 4
  Shelf = {shelf1}
  Reporter = {reader1}
  Admin = {admin1, admin2}
  Registry = Registry
  MaxReports = 2
  MaxFlagged = 1
  MaxReviews = 2
CHECK_DEADLOCK FALSE
INVARIANTS
  RegistryTypeOK
  VersionsHaveTheirZip
  CommandLineKeepsItsWord
  CatalogIsTrue
  TextsMeanOneThing
PROPERTIES
  VersionsAreImmutable
  ImplementsRegisters
  NothingPublishedUnderReview
  PublishersHoldARole
  DecisionsAreKept

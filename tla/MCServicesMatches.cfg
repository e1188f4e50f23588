SPECIFICATION MCServicesSpec
CONSTANTS
  Parts = {"pages"}
  ModPath = {lib, ext}
  OurPath = {lib}
  StorePath = {lib}
  Reader = {a1}
  MaxOpen = 1
  NotCached = NotCached
  Kid = {kid1, kid2}
  KeysTTL = 2
  RefetchEvery = 1
  MaxTime = 4
  Client = {c1, c2, c3}
  Limit = 1
  Span = 3
  SweepEvery = 1
  SweepAbove = 1
  MaxKeys = 2
  LastMoment = 7
  MaxTries = 3
  Key = {g1, g2}
  g1 = g1
  Asker = {q1, q2}
  SizeOf <- InstanceSizes
  MaxEntries = 2
  MaxBytes = 3
  MaxCachedBody = 2
  CacheTTL = 1
  Slowest = 1
  LastTick = 4
  Releases = 1
  Ranked = {1, 2, 3}
  Word = {"a", "b"}
  PerPage = {1, 2}
  Document <- InstanceDocuments
  ZipKey = {z1, z2}
  Keep = 1
  LastBackup = 2
  MaxStops = 1
  Program = {p1, p2, p3}
  Knows <- InstanceKnows
  MaxKills = 2
  Hosted = {m1, m2}
  Editor = {h1, h2}
  Form = {{}}
  TopVersion = 3
  YearLength = 2
  MaxSecond = 5
  MaxAdvisories = 2
  MaxChanges = 2
CHECK_DEADLOCK FALSE
INVARIANT MatchesAreFound

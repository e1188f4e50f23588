SPECIFICATION MCDerivedSpec
CONSTANTS
  Parts = {"requests", "releases", "overlaps", "downloads", "listings", "upstream", "stopping", "zips"}
  retry = retry
  lib = lib
  h2 = h2
  Path = {retry, lib}
  Version = {1, 2, 3}
  Prerelease = {3}
  Handler = {h1, h2}
  Backfill = Backfill
  Failures = TRUE
  MaxRestart = 1
  NoEntry = NoEntry
  Module = {retry, lib}
  MaxDay = 3
  Window = 2
  MaxCount = 3
  MaxFail = 1
  MaxCrash = 1
  Loader = {l1, l2}
  MaxChanges = 3
  MaxLoadFails = 2
  Page = {p1, p2}
  MaxModified = 2
  MaxGetFails = 1
  Conn = {c1, c2}
  Attempts = 2
  MaxServed = 2
  MaxLost = 1
  ModPath = {lib, ext}
  OurPath = {lib}
  StorePath = {lib}
  Reader = {a1, a2}
  MaxOpen = 1
  NotCached = NotCached
CHECK_DEADLOCK FALSE
INVARIANTS
  DerivedTypeOK
  RequestsAreIndexed
  CountedOnce
  RecentNeverTooLow
  RecentOnceRefreshed
PROPERTIES
  PublishedIsFound
  CountsAreWritten
  ListingsBecomeCurrent
  CopyKeepsUp
  StopsInOrder
  SlotsComeBack

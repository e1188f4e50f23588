SPECIFICATION MCDerivedSpec
CONSTANTS
  Parts = {"review"}
  retry = retry
  lib = lib
  h2 = h2
  Path = {retry, lib}
  Version = {1}
  Prerelease = {}
  Handler = {h1, h2}
  Backfill = Backfill
  Failures = FALSE
  MaxRestart = 0
  NoEntry = NoEntry
  Module = {retry}
  MaxDay = 1
  Window = 1
  MaxCount = 0
  MaxFail = 0
  MaxCrash = 0
  Loader = {l1}
  MaxChanges = 0
  MaxLoadFails = 0
  Page = {p1}
  MaxModified = 1
  MaxGetFails = 0
  Conn = {c1}
  Attempts = 1
  MaxServed = 0
  MaxLost = 0
  ModPath = {lib}
  OurPath = {lib}
  StorePath = {}
  Reader = {a1}
  MaxOpen = 1
  NotCached = NotCached
CHECK_DEADLOCK FALSE
INVARIANT HiddenFromSearch

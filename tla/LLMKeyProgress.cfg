\* Short epochs, failed calls and saves, crashes that end: what must eventually happen.
CONSTANTS
  u1 = u1  h1 = h1  h2 = h2  k1 = k1  k2 = k2
  None = None
  UIDs = {u1}
  Hotkeys = {h1}
  Keys = {k1}
  Owner <- SingleKey
  Kinds = {"ok", "fail", "malformed", "inactive"}
  EpochLength = 4
  Gaps = {3}
  MinCalls = 1
  MinGraded = 1
  ReliabilityFloorPct = 50
  QualityFloorPct = 35
  Faults = {"epoch", "relay", "reports", "roster", "save", "death", "crash"}
  MaxRows = 1
  MaxBlock = 6
SPECIFICATION FairSpec
PROPERTIES RowsAreConsumed EpochIsFollowed DeadKeysStopEarning EpochChangeKeepsWork

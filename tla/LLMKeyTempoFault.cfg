\* The tempo read may fail while the epoch start is readable.
CONSTANTS
  u1 = u1  h1 = h1  h2 = h2  k1 = k1  k2 = k2
  None = None
  UIDs = {u1}
  Hotkeys = {h1}
  Keys = {k1}
  Owner <- SingleKey
  Kinds = {"ok"}
  EpochLength = 4
  Gaps = {4}
  MinCalls = 2
  MinGraded = 2
  ReliabilityFloorPct = 50
  QualityFloorPct = 35
  Faults = {"tempo"}
  MaxRows = 1
  MaxBlock = 4
SPECIFICATION Spec
PROPERTY EpochChangeKeepsWork

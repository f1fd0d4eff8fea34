\* Windows and kills: sibling keys, a hotkey that leaves and returns, failed calls, crashes.
CONSTANTS
  u1 = u1  h1 = h1  h2 = h2  k1 = k1  k2 = k2
  None = None
  UIDs = {u1}
  Hotkeys = {h1, h2}
  Keys = {k1, k2}
  Owner <- SiblingKeys
  Kinds = {"ok", "fatal"}
  EpochLength = 4
  Gaps = {4}
  MinCalls = 2
  MinGraded = 2
  ReliabilityFloorPct = 50
  QualityFloorPct = 35
  Faults = {"reports", "relay", "roster", "weights", "crash"}
  MaxRows = 2
  MaxBlock = 9
SPECIFICATION Spec
INVARIANTS TypeOK CountedOnce PaysPrecedingEpoch PaidInOneEpoch DeadKeysHoldNoSuccess WeightsAreEarned
PROPERTIES EpochChangeKeepsWork
SYMMETRY SiblingSymmetry

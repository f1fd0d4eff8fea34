\* One miner's evaluations, with every failure of a call, restarts and crashes.
CONSTANTS
  None = None  good = good  bad = bad
  Agents = {good, bad}
  Valid = {good}
  Documents <- SomeDocuments
  Deeds <- SomeDeeds
  Faults = {"refuse", "late", "net", "http", "log", "file", "port", "miner", "crash"}
  MaxRuns = 2
  MaxEvents = 2
SPECIFICATION FairSpec
INVARIANTS TypeOK BlobsOpen RewardsAreProven NothingLeftBehind UnscoredIsOurFault SealedBlobsOpen
PROPERTIES EvaluationsFinish
\* The evaluations are bounded: after the last one only the miner moves.
CHECK_DEADLOCK FALSE

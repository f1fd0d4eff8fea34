\* Docker commands that exit with an error, and an agent that would do well.
CONSTANTS
  None = None  good = good  bad = bad
  Agents = {good}
  Valid = {good}
  Documents <- SomeDocuments
  Deeds <- SomeDeeds
  Faults = {"refuse"}
  MaxRuns = 1
  MaxEvents = 1
SPECIFICATION Spec
INVARIANT OutagesAreNotScored
CHECK_DEADLOCK FALSE

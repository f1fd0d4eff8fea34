\* Two miners' uids, one of them a validator's at first; a registration, an axon
\* change, a crash or a failed query.
CONSTANTS
  v = v  peer = peer  a = a  b = b  c1 = c1  c2 = c2
  None = None
  UIDs = {0, 1, 2}
  BurnUid = 0
  BurnPct = 50
  MinAllowed = 1
  LimitNum = 3
  LimitDen = 5
  U16Max = 60
  DustDen = 92
  Hotkeys = {v, peer, a, b}
  Self = v
  Validators = {v, peer}
  Holders <- TwoValidators
  Categories = {c1}
  Full = 2
  Rewards = {0, 2}
  Interval = 1
  Freshness = 0
  Budget = 0
  Faults = {"ask", "raise", "crash"}
  MaxRoundTicks = 1
  MaxEvents = 1
SPECIFICATION FairSpec
INVARIANTS TypeOK ScoresAreBacked MarketIsEarned IdleStateIsSaved
PROPERTIES RoundEndsFresh WeightsAreEarned RoundsFinish IdleMinersStopEarning

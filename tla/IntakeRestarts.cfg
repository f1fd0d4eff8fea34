\* Two servers share the queue; they die and come back, and writes fail.
CONSTANTS
  m1 = m1  m2 = m2  p1 = p1  p2 = p2  p3 = p3  p4 = p4  p5 = p5  p6 = p6  a1 = a1  a2 = a2
  c1 = c1  c2 = c2  w1 = w1  w2 = w2
  None = None
  Miners = {m1, m2}
  Packages = {p1}
  Agents = {a1}
  AgentOf <- OneAgent
  Flaw <- NoFlaw
  Workers = {w1, w2}
  Direct = {}
  Sources = {"registry"}
  Skips = {FALSE}
  Faults = {"crash", "db"}
  MaxRows = 3
  MaxJobs = 2
\* The submissions are bounded: once they are made nothing is left to do.
CHECK_DEADLOCK FALSE
SPECIFICATION Spec
INVARIANTS TypeOK JobHeldOnce
PROPERTIES RowsComeInTime ImplementsLedger
SYMMETRY MinerSymmetry

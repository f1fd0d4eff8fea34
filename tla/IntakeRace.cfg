\* Two miners' copies of one agent are checked at once.
CONSTANTS
  m1 = m1  m2 = m2  p1 = p1  p2 = p2  p3 = p3  p4 = p4  p5 = p5  p6 = p6  a1 = a1  a2 = a2
  c1 = c1  c2 = c2  w1 = w1  w2 = w2
  None = None
  Miners = {m1, m2}
  Packages = {p1}
  Agents = {a1}
  AgentOf <- OneAgent
  Flaw <- NoFlaw
  Workers = {}
  Direct = {c1, c2}
  Sources = {"registry"}
  Skips = {FALSE}
  Faults = {}
  MaxRows = 3
  MaxJobs = 0
SPECIFICATION Spec
INVARIANTS OneAcceptedOwner
\* The submissions are bounded: once they are made nothing is left to do.
CHECK_DEADLOCK FALSE

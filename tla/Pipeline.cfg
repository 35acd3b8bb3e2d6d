SPECIFICATION FairSpec
CONSTANTS
  m1 = m1
  m2 = m2
  p1 = p1
  p2 = p2
  v = v
  w = w
  long = long
  Consumer = {"discovery", "inventory", "policy"}
  Mac = {m1, m2}
  Policy = {p1, p2}
  Field = {"ip", "name", "os"}
  Overwritten = {"ip", "name"}
  Value = {v, w, long}
  Overlong = {long}
  Unknown = Unknown
  Action = {"quarantine"}
  NoRow = NoRow
  Plans <- MCPlans
INVARIANTS
  TypeOK
  ArpScanComplete
  ChangeAnnounced
  EvaluationCurrent
PROPERTIES
  KnownKept
  EverySettled
CHECK_DEADLOCK FALSE

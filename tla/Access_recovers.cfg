SPECIFICATION FairSpec
CONSTANTS
  Thread = {t1, t2}
  Conn = {c1, c2, c3}
  Pin = {}
  Group = {}
  None = None
  NoRow = NoRow
  MaxEdits = 0
  MaxFaults = 1
PROPERTIES Recovers

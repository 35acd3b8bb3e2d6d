SPECIFICATION Spec
CONSTANTS
  Thread = {t1, t2}
  Conn = {c1, c2, c3}
  Pin = {v1}
  Group = {v2}
  None = None
  NoRow = NoRow
  MaxEdits = 1
  MaxFaults = 1
SYMMETRY MCSymmetry
INVARIANTS TypeOK Precedence

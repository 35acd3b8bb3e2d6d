SPECIFICATION Spec
CONSTANTS
  k1 = k1
  k2 = k2
  s1 = s1
  s2 = s2
  e = e
  Empty = e
  Cell <- MCCell
  Key = {k1, k2}
  Text = {s1, s2, e}
  LookAlike = {s2}
  Plain = Plain
  Absent = Absent
  Null = Null
  Raises = Raises
  Down = Down
  NoJob = NoJob
  NoReport = NoReport
  Initial <- MCInitial
  MaxWrites = 1
  MaxRuns = 2
  MaxFaults = 1
INVARIANT EveryColumnRotated

SPECIFICATION FairSpec
CONSTANTS
  ca = ca
  k1 = k1
  s1 = s1
  i1 = i1
  CA = {ca, k1}
  Server = {s1,s2,s3,i1}
  Imported = {i1}
  Keyless = {k1}
  Overlong = {s3}
  Admin = {a1, a2}
  Renewer = renewer
  None = none
  Initial <- MCInitial
  MaxOps = 2
  MaxFaults = 1
INVARIANTS TypeOK OneActive
PROPERTIES ActiveSurvives RenewalHappens

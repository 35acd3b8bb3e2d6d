SPECIFICATION FairSpec
CONSTANTS
  s1 = s1
  s2 = s2
  mac = mac
  p1 = p1
  p2 = p2
  d1 = d1
  Consumer = {"coa", "vlan", "poll"}
  Session = {s1, s2}
  Mac = {mac}
  User = {"bob", "bobby"}
  Port = {p1, p2}
  Device = {d1}
  MacOf <- MCMacOf
  UserOf <- MCUserOf
  Contains <- MCContains
  Vendorless = {s2, p2}
  Addressless = {s1}
  Call <- MCCall
  Plans <- MCPlans
  Vlan = {1, 20, 30}
  Vlan0 = 1
INVARIANTS
  TypeOK
  AuditedSent
  DriftReported
  
PROPERTY EverySettled
CHECK_DEADLOCK FALSE

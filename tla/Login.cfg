SPECIFICATION Spec
CONSTANTS
  a1 = a1
  a2 = a2
  a3 = a3
  a4 = a4
  good = good
  other = other
  cap = cap
  x1 = x1
  x2 = x2
  i1 = i1
  i2 = i2
  i3 = i3
  i4 = i4
  bob = bob
  Bob = Bob
  eve = eve
  pw = pw
  wrong = wrong
  NoRow = NoRow
  Attempt <- MCAttempt
  Address = {x1, x2}
  Id = {i1, i2, i3, i4}
  Password = {pw, wrong}
  Role = {"admin", "operator", "viewer"}
  Spelling = {bob, Bob, eve}
  Name = {bob, eve}
  Fold <- MCFold
  From <- MCFrom
  As <- MCAs
  With <- MCWith
  IpLimit = 2
  Threshold = 2
  Parallel = 2
  Users <- MCUsers
  Plans <- MCPlans
INVARIANTS TypeOK GuessesBounded NoImmortalCounter
PROPERTY LastAccountStays
CHECK_DEADLOCK FALSE

SPECIFICATION FairSpec
CONSTANTS
  Cert = Cert
  f1 = f1
  f2 = f2
  a = a
  b = b
  File = {f1}
  MaxVersion = 1
  Text = {a, b}
  Content <- MCFlipText
  Absent = Absent
  None = None
  Torn = Torn
  MaxLog = 0
  MaxFaults = 1
PROPERTIES SurvivesWriteError

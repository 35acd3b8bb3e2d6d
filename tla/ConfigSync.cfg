SPECIFICATION FairSpec
CONSTANTS
  Cert = Cert
  f1 = f1
  f2 = f2
  a = a
  b = b
  File = {f1}
  MaxVersion = 1
  Text = {a, b}
  Content <- MCFlipText
  Absent = Absent
  None = None
  Torn = Torn
  MaxLog = 1
  MaxFaults = 1
INVARIANTS TypeOK RecordedIsWritten ServedMatchesRecord
PROPERTIES Converges ServiceSpec NoReloadStorm
CONSTRAINT HarmOrMessages

SPECIFICATION Functions
CONSTANTS
  Fold <- MCFold
  Numeral <- MCNumeral
  Nan <- MCNan
  Blank = "_"
  Unbalanced = "("
  OuiLength = 1
  Token <- MCToken
  Nested = {}
  Md5 <- MCMd5
  Reauthenticate <- MCReauthenticate
  AuditSession <- MCAuditSession
  DefinedAcl <- MCDefinedAcl
  Comparisons <- MCComparisons
  Situations <- MCSituations
  Requests <- MCRequests
  Datagrams <- MCDatagrams
  Secret <- MCSecret
  SafeName <- MCSafeName
  Truncated <- MCTruncated
  NormalMac <- MCNormalMac
  Instant <- MCInstant
  Iso <- MCIso
  Width <- MCWidth
  Databases <- MCDatabases
  CsvFiles <- MCCsvFiles
INVARIANTS
  CopiesAgree
  ComparisonsConsistent
  SimulationTrue
  RoundTrip
  NothingMisread
  ReferencesResolve
  CsvRoundTrip
CHECK_DEADLOCK FALSE

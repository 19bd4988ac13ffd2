SPECIFICATION FairSpec
CONSTANTS
  Items = {i1}
  Attempts = {a1, a2}
  Recipients = {r1}
  NoAttempt = NoAttempt
  NoKey = NoKey
  LastRevision = 5
  LastUserRevision = 2
  MaxActive = 1
  Keys <- MCKeys
CHECK_DEADLOCK FALSE
PROPERTIES
  ClaimsEnd
  ReceiptsResolve

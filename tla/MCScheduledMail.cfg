SPECIFICATION NarrowSpec
CONSTANTS
  Items = {i1, i2, i3}
  Attempts = {a1, a2}
  Recipients = {r1, r2}
  NoAttempt = NoAttempt
  NoKey = NoKey
  LastRevision = 4
  LastUserRevision = 2
  MaxActive = 2
  Keys <- MCKeys
SYMMETRY Symmetry
CHECK_DEADLOCK FALSE
INVARIANTS
  ActiveBound
  OutcomeTruth
  SubmissionIsVisible
PROPERTIES
  OnlySolicited
  UncertainIsSticky
  KeepsPromise
  UsesPipeline

SPECIFICATION SendSpec
CONSTANTS
  Attempts = {a1, a2, a3}
  Keys = {k1}
  Recipients = {r1, r2}
  NoAttempt = NoAttempt
  NoKey = NoKey
SYMMETRY Symmetry
CHECK_DEADLOCK FALSE
INVARIANTS
  AtMostOnce
  FailureMeansUnsent
  TruthfulReplies
PROPERTIES
  SendsOnce

SPECIFICATION OneKeySpec
CONSTANTS
  Calls = {c1, c2, c3}
  Keys = {delete, flag, move}
  Hashes = {h1, h2}
  Idempotent = {move}
  Strict = {delete}
  Deletions = {delete}
  Flags = {flag}
  Splits = {}
  NoCall = NoCall
  NoKey = NoKey
  NoHash = NoHash
SYMMETRY Symmetry
CHECK_DEADLOCK FALSE
INVARIANTS
  OneEffect
  FailureMeansUnapplied
  TruthfulReplies
PROPERTIES
  ResultsAreFinal
  KeepsWriteOnce

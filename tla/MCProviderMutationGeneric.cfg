SPECIFICATION Spec
CONSTANTS
  Calls = {c1, c2, c3}
  Keys = {event}
  Hashes = {h1}
  Idempotent = {}
  Strict = {}
  Deletions = {}
  Flags = {}
  Splits = {}
  NoCall = NoCall
  NoKey = NoKey
  NoHash = NoHash
SYMMETRY Symmetry
CHECK_DEADLOCK FALSE
INVARIANTS
  NoDoubleExecution

SPECIFICATION SplitSpec
CONSTANTS
  Calls = {c1, c2}
  Keys = {google}
  Hashes = {h1}
  Idempotent = {}
  Strict = {}
  Deletions = {}
  Flags = {}
  Splits = {google}
  NoCall = NoCall
  NoKey = NoKey
  NoHash = NoHash
  Graph = {}
  Endings = {}
  Lossy = {google}
  Stalling = {}
SYMMETRY Symmetry
CHECK_DEADLOCK FALSE
INVARIANTS
  NoSecondRemainder

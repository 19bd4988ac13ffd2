SPECIFICATION OneSplitSpec
CONSTANTS
  Calls = {c1, c2, c3}
  Keys = {google, graph, ending, rough}
  Hashes = {h1}
  Idempotent = {}
  Strict = {}
  Deletions = {}
  Flags = {}
  Splits = {google, graph, ending, rough}
  NoCall = NoCall
  NoKey = NoKey
  NoHash = NoHash
  Graph = {graph}
  Endings = {ending}
  Lossy = {rough}
  Stalling = {rough}
SYMMETRY Symmetry
CHECK_DEADLOCK FALSE
INVARIANTS
  OneRemainder
  RemainderAfterCut
  CommittedMeansComplete

SPECIFICATION WorkersSpec
CONSTANTS
  Drainers = {d1, d2}
  LastNote = 3
  LastUpset = 2
  Calls = {c1, c2}
  LastClick = 1
  LastRemote = 1
  LastMove = 0
  LastFault = 1
  NoCall = NoCall
  Unknown = Unknown
  Ops = {o1, o2, o3}
  Keys = {k1, k2}
  NoOp = NoOp
  Account = k1
  Others = {h1}
  LastClient = 5
  LastRefusal = 1
  NoClient = NoClient
  NoOne = NoOne
  Few = {o1, o2}
  Attendees = {a1, a2}
  Workers = {w1, w2}
  NoWorker = NoWorker
  LastEdit = 3
  LastTrouble = 1
  MaxAttempts = 1
CHECK_DEADLOCK FALSE
INVARIANTS
  LiveStateIsSynced

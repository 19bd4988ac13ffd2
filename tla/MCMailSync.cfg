SPECIFICATION MailSyncSpec
CONSTANTS
  Runs = {r1, r2}
  Msgs = {m1, m2}
  LastEvent = 3
  LastRequest = 1
  LastRun = 2
  LastFiling = 1
  Nothing = Nothing
  Calls = {c1, c2}
  LastClick = 2
  LastRemote = 1
  LastMove = 1
  LastFault = 1
  NoCall = NoCall
  Unknown = Unknown
SYMMETRY Symmetry
CHECK_DEADLOCK FALSE
INVARIANTS
  MailSyncTypeOK
  NothingSkipped
  ReadyIsEarned
  ConfirmedWasWritten
  AgreedUnlessOvertaken
PROPERTIES
  NeverBackwards
  NeverReplayed

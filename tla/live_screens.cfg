SPECIFICATION FairSpec
CONSTANTS
  requests = requests
  settings = settings
  tab = tab
  other = other
  Topics <- TwoTopics
  AtOnce = {settings}
  Resync = Resync
  Buffer = 1
  Reader = {tab, other}
  NoAnswer = NoAnswer
  MaxWrites = 1
  Tab = tab
  Acts = {"hide", "reload"}
  MaxEvents = 1
INVARIANTS FreshAnswer NothingLost
PROPERTY CatchesUp
CHECK_DEADLOCK FALSE

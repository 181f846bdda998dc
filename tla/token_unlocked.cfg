SPECIFICATION FairSpec
CONSTANTS
  old = old
  new = new
  a = a
  b = b
  c = c
  NoThread = NoThread
  Worker = {old}
  Thread = {a, b}
  WorkerOf <- Together
  MaxToken = 2
  Ops = {"refresh", "consent", "delete"}
  LockUsable = FALSE
PROPERTIES Answered

SPECIFICATION Spec
CONSTANTS
  old = old
  new = new
  a = a
  b = b
  c = c
  NoThread = NoThread
  Worker = {old, new}
  Thread = {a, c}
  WorkerOf <- Apart
  MaxToken = 2
  Ops = {"refresh", "consent"}
  LockUsable = TRUE
INVARIANTS DeadIsRefused

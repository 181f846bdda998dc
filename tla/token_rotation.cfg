SPECIFICATION Spec
CONSTANTS
  old = old
  new = new
  a = a
  b = b
  c = c
  NoThread = NoThread
  Worker = {old, new}
  Thread = {a, c}
  WorkerOf <- Apart
  MaxToken = 4
  Ops = {"refresh"}
  LockUsable = TRUE
INVARIANTS NeverSpent DeadIsRefused
PROPERTIES NeverOlder KeepsCustody

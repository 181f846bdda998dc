SPECIFICATION Spec
CONSTANTS
  old = old
  new = new
  a = a
  b = b
  c = c
  NoThread = NoThread
  Worker = {old, new}
  Thread = {a, b, c}
  WorkerOf <- Handover
  MaxToken = 2
  Ops = {"refresh", "consent"}
  LockUsable = TRUE
SYMMETRY SameWorker
INVARIANTS OneAtATime OkIsReplaced Custody

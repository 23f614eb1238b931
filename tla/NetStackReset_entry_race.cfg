\* Entry as the spec describes the bookkeeping: restartState is checked,
\* then userThreadCount is incremented, as two separate atomic operations.
\* One fault site is enough for the race.
CONSTANTS
  UserThreads = {u1, u2}
  NetThread = ip
  NoThread = NoThread
  Sockets = {s1}
  NoSocket = NoSocket
  CorruptibleSockets = {}
  MaxResets = 1
  FaultPcs = {"Inside"}
  AtomicEntry = FALSE
  QueueDestroyMayFail = FALSE
SYMMETRY UserSymmetry
SPECIFICATION Spec
INVARIANT QuiescentBeforeReclaim
CHECK_DEADLOCK FALSE

\* Every reset completes when no list node is corrupted, even with entry as
\* a restartState check followed by a separate increment.  No symmetry: it is
\* unsound with liveness checking.
CONSTANTS
  UserThreads = {u1, u2}
  NetThread = ip
  NoThread = NoThread
  Sockets = {s1, s2}
  NoSocket = NoSocket
  CorruptibleSockets = {}
  MaxResets = 2
  FaultPcs = {"Inside", "HoldList", "Bound", "HoldSock", "Done"}
  AtomicEntry = FALSE
  QueueDestroyMayFail = FALSE
SPECIFICATION Spec
PROPERTY ResetCompletes

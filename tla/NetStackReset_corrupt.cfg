\* A user thread parked on the event group of a socket whose capability in
\* the list is corrupted: the walk skips it and the reset never completes.
CONSTANTS
  UserThreads = {u1, u2}
  NetThread = ip
  NoThread = NoThread
  Sockets = {s1, s2}
  NoSocket = NoSocket
  CorruptibleSockets = {s1}
  MaxResets = 2
  FaultPcs = {"Inside", "HoldList", "Bound", "Done"}
  AtomicEntry = TRUE
  QueueDestroyMayFail = FALSE
SPECIFICATION Spec
PROPERTY ResetCompletes

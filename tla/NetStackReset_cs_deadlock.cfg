\* A user thread crashes inside a critical section (its critical-section
\* lock is still held) while another holds the list lock waiting for the IP
\* thread to bind; the IP thread then waits for the critical-section lock,
\* which is only upgraded for destruction after the resetter has the list
\* lock.  Only user threads fault; no corruption.
CONSTANTS
  UserThreads = {u1, u2}
  NetThread = ip
  NoThread = NoThread
  Sockets = {s1, s2}
  NoSocket = NoSocket
  CorruptibleSockets = {}
  MaxResets = 2
  FaultPcs = {"Inside", "HoldList", "Bound", "Done", "InCS"}
  AtomicEntry = TRUE
  QueueDestroyMayFail = FALSE
SPECIFICATION Spec
PROPERTY ResetCompletes
CHECK_DEADLOCK FALSE

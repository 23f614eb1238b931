\* The IP thread faults while a user thread, holding the sealed sockets list
\* lock in network_socket_create_and_bind, waits for it to do the bind: the
\* IP thread, now the resetter, blocks on that lock forever.  No corruption,
\* no crash inside a critical section.  The system stops, which is the
\* point: deadlock is left to the property.
CONSTANTS
  UserThreads = {u1, u2}
  NetThread = ip
  NoThread = NoThread
  Sockets = {s1, s2}
  NoSocket = NoSocket
  CorruptibleSockets = {}
  MaxResets = 2
  FaultPcs = {"Inside", "HoldList", "Bound", "Done", "IpLoop"}
  AtomicEntry = TRUE
  QueueDestroyMayFail = FALSE
SPECIFICATION Spec
PROPERTY ResetCompletes
CHECK_DEADLOCK FALSE

\* The reset refines the abstract restart state machine.  Same instance as
\* the safety run, without symmetry.
CONSTANTS
  UserThreads = {u1, u2}
  NetThread = ip
  NoThread = NoThread
  Sockets = {s1, s2}
  NoSocket = NoSocket
  CorruptibleSockets = {s1}
  MaxResets = 2
  FaultPcs = {"Inside", "HoldList", "Bound", "InCS", "HoldSock", "Done", "IpLoop", "IpInCS"}
  AtomicEntry = TRUE
  QueueDestroyMayFail = TRUE
SPECIFICATION Spec
PROPERTY ImplementsRestartStateMachine
\* The system can really stop: the resetter blocking on a list lock whose
\* holder waits for the IP thread (see NetStackReset_bind_deadlock.cfg).
CHECK_DEADLOCK FALSE

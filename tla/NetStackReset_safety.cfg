\* Two user threads, the IP thread, two sockets (one corruptible), two resets;
\* queue_destroy may fail.
CONSTANTS
  UserThreads = {u1, u2}
  NetThread = ip
  NoThread = NoThread
  Sockets = {s1, s2}
  NoSocket = NoSocket
  CorruptibleSockets = {s1}
  MaxResets = 2
  FaultPcs = {"Inside", "HoldList", "Bound", "InCS", "HoldSock", "Done", "IpLoop", "IpInCS"}
  AtomicEntry = TRUE
  QueueDestroyMayFail = TRUE
SYMMETRY UserSymmetry
SPECIFICATION Spec
INVARIANT TypeOK
INVARIANT OneResetInFlight
INVARIANT UserThreadCountTracksThreads
INVARIANT QuiescentBeforeReclaim
INVARIANT ListLockHeldByLiveThread
INVARIANT StaleHandlesRejected
INVARIANT BlockedThreadsReachable
PROPERTY ResetLeavesCleanState
\* The system can really stop: the resetter blocking on a list lock whose
\* holder waits for the IP thread (see NetStackReset_bind_deadlock.cfg).
CHECK_DEADLOCK FALSE

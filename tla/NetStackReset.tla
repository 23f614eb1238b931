---------------------------- MODULE NetStackReset ----------------------------
(***************************************************************************)
(* The crash-recovery path of the TCP/IP compartment: the CHERI branch of  *)
(* compartment_error_handler and reset_network_stack_state (Phases 1-3),   *)
(* run by any faulting thread, together with the threads it must evacuate: *)
(* the network (IP) thread and the user threads that call into the         *)
(* compartment.  Handler steps are translated from the source; the threads *)
(* around them (compartment entry/exit bookkeeping, socket creation, the   *)
(* IP thread's event loop and ip_thread_entry, network_restart) live in    *)
(* files outside src/ and are modelled from the spec.                      *)
(***************************************************************************)
EXTENDS Naturals, FiniteSets, Bitwise

CONSTANTS
  UserThreads,        \* threads calling into the compartment (model values)
  NetThread,          \* networkThreadID
  NoThread,           \* owner of a free lock
  Sockets,            \* sealed-socket identities that may be created
  NoSocket,
  CorruptibleSockets, \* sockets whose capabilities in the list may be corrupted
  MaxResets,          \* bound: no fault is injected once the epoch reaches it
  FaultPcs,           \* program locations at which a running thread may fault
  AtomicEntry,        \* entry checks restartState and counts itself in as one step
  QueueDestroyMayFail \* queue_destroy may return an error

ASSUME /\ NetThread \notin UserThreads
       /\ CorruptibleSockets \subseteq Sockets
       /\ MaxResets \in Nat
       /\ FaultPcs \subseteq {"Inside", "HoldList", "Bound", "InCS",
                             "HoldSock", "Done", "IpLoop", "IpInCS"}
       /\ AtomicEntry \in BOOLEAN
       /\ QueueDestroyMayFail \in BOOLEAN

Threads == UserThreads \cup {NetThread}

\* restartState bit flags (tcpip-internal.h)
NotRestarting  == 0
Restarting     == 1
IpThreadKicked == 2

VARIABLES
  pc,                    \* per-thread program location
  waitOn,                \* socket a user thread is blocked on
  restartState,          \* std::atomic<uint8_t> restartState
  userThreadCount,       \* std::atomic<uint8_t> userThreadCount
  currentSocketEpoch,    \* std::atomic<uint32_t> currentSocketEpoch
  sealedSocketsListLock, \* [owner, destroyed]
  sealedSockets,         \* sockets in the intrusive list
  cells,                 \* list cells the resetter has not visited yet
  created,               \* sockets ever created
  closed,                \* sockets closed with network_socket_close
  socketEpoch,           \* epoch stamped into each socket at creation
  heapAlive,             \* sockets whose compartment-heap state is allocated
  lockInvalid,           \* sockets whose socketLock capability is corrupted
  socketInvalid,         \* sockets whose FreeRTOS socket capability is corrupted
  socketLockDestroyed,   \* socket locks upgraded for destruction
  socketLockOwner,       \* owner of each socket's socketLock
  eventGroupDestroyed,   \* event groups destroyed with eventgroup_destroy_force
  criticalSectionLock,   \* __CriticalSectionFlagLock and __SuspendFlagLock
  queueDestroyed,        \* xNetworkEventQueue destroyed
  ipThreadLockState,     \* owner of the IP thread's startup lock
  threadEntryGuard,      \* network_restart has released the IP thread
  heapExhausted          \* allocator out of memory

vars == <<pc, waitOn, restartState, userThreadCount, currentSocketEpoch,
          sealedSocketsListLock, sealedSockets, cells, created, closed,
          socketEpoch, heapAlive, lockInvalid, socketInvalid, socketLockDestroyed,
          socketLockOwner, eventGroupDestroyed, criticalSectionLock, queueDestroyed,
          ipThreadLockState, threadEntryGuard, heapExhausted>>

socketState == <<sealedSockets, cells, created, closed, socketEpoch, heapAlive,
                 lockInvalid, socketInvalid, socketLockDestroyed,
                 eventGroupDestroyed>>
socketVars == <<socketState, socketLockOwner>>

FreeLock == [owner |-> NoThread, destroyed |-> FALSE]

IsUserThread(t) == t # NetThread

\* Locations of the error handler after a thread won the reset gate.
ResetPcs == {"AcquireListLock", "DestroySockets", "ResetList",
             "DestroyCriticalSections", "DestroyQueue", "WaitUserThreads",
             "WaitIpThread", "Reclaim", "Restart"}
UserPcs == {"Outside", "Admitted", "Inside", "HoldList", "WaitBind", "Bound", "WaitList",
            "WaitSockLock", "WaitClose",
            "WaitEvent", "HoldSock", "InCS", "WaitCS", "WaitHeap", "Done"}
IpPcs == {"IpLoop", "IpWaitQueue", "IpWaitCS", "IpInCS", "IpEntry",
          "IpWaitStart"}

\* User threads counted by the compartment's entry/exit bookkeeping (a
\* thread that passed the restartState check has not been counted yet).
InCompartment == {u \in UserThreads :
                    pc[u] \in (UserPcs \ {"Outside", "Admitted"})
                              \cup {"ErrorHandler"}}

\* Faults are injected only while fewer than MaxResets resets have completed.
FaultAllowed == currentSocketEpoch < MaxResets

Goto(t, l) == pc' = [pc EXCEPT ![t] = l]

\* Where compartment_error_handler sends a thread once the reset function
\* has returned: the IP thread is reinstalled at ip_thread_entry
\* (InstallContext), a user thread is unwound out (ForceUnwind).
AfterHandler(t) == IF IsUserThread(t) THEN "Outside" ELSE "IpEntry"

\* free_compartment_memory(): heap_free_all on the compartment's quota.
FreeCompartmentMemory ==
  /\ heapAlive' = {}
  /\ heapExhausted' = FALSE

-----------------------------------------------------------------------------
(* reset_network_stack_state                                               *)

\* userThreadCount-- for a user thread (the counter is a uint8_t).
DecrementUserThreadCount_Always(t) == (userThreadCount - 1) % 256
DecrementUserThreadCount(t) ==
  IF IsUserThread(t) THEN (userThreadCount - 1) % 256 ELSE userThreadCount

\* The lock after the forced unlock of a list lock held by the crashing thread.
ForcedUnlock_Never(t) == sealedSocketsListLock
ForcedUnlock(t) ==
  IF sealedSocketsListLock.owner = t
  THEN [sealedSocketsListLock EXCEPT !.owner = NoThread]
  ELSE sealedSocketsListLock

\* restartState.compare_exchange_strong(NotRestarting, Restarting) succeeds.
WinsResetGate_Exchange == TRUE
WinsResetGate == restartState = NotRestarting

\* Phase 1: bookkeeping, forced unlock, then the gate.  A loser returns at
\* once (the IpThreadKicked check only logs).
Phase1(t) ==
  /\ pc[t] = "ErrorHandler"
  /\ userThreadCount' = DecrementUserThreadCount(t)
  /\ sealedSocketsListLock' = ForcedUnlock(t)
  /\ IF WinsResetGate
       THEN restartState' = Restarting /\ Goto(t, "AcquireListLock")
       ELSE UNCHANGED restartState /\ Goto(t, AfterHandler(t))
  /\ UNCHANGED <<waitOn, currentSocketEpoch, socketVars, criticalSectionLock,
                 queueDestroyed, ipThreadLockState, threadEntryGuard,
                 heapExhausted>>

\* Phase 2: lock the sealed sockets list (blocking) and upgrade the lock for
\* destruction; snapshot the list for the walk.
AcquireListLock(t) ==
  /\ pc[t] = "AcquireListLock"
  /\ sealedSocketsListLock.owner = NoThread
  /\ sealedSocketsListLock' = [owner |-> t, destroyed |-> TRUE]
  /\ cells' = sealedSockets
  /\ Goto(t, IF sealedSockets = {} THEN "ResetList" ELSE "DestroySockets")
  /\ UNCHANGED <<waitOn, restartState, userThreadCount, currentSocketEpoch,
                 sealedSockets, created, closed, socketEpoch, heapAlive, lockInvalid,
                 socketInvalid, socketLockDestroyed, socketLockOwner,
                 eventGroupDestroyed, criticalSectionLock, queueDestroyed,
                 ipThreadLockState, threadEntryGuard, heapExhausted>>

\* One iteration of the list walk: upgrade the socket lock if its capability
\* is valid; force-destroy the event group if the socket capability is.
DestroySockets_SwapChecks(t) ==
  /\ pc[t] = "DestroySockets"
  /\ \E s \in cells :
       /\ cells' = cells \ {s}
       /\ socketLockDestroyed' = IF s \in socketInvalid THEN socketLockDestroyed
                                 ELSE socketLockDestroyed \cup {s}
       /\ eventGroupDestroyed' = IF s \in lockInvalid THEN eventGroupDestroyed
                                 ELSE eventGroupDestroyed \cup {s}
       /\ Goto(t, IF cells' = {} THEN "ResetList" ELSE "DestroySockets")
  /\ UNCHANGED <<waitOn, restartState, userThreadCount, currentSocketEpoch,
                 sealedSocketsListLock, sealedSockets, created, closed,
                 socketEpoch, heapAlive, lockInvalid, socketInvalid,
                 socketLockOwner, criticalSectionLock, queueDestroyed,
                 ipThreadLockState, threadEntryGuard, heapExhausted>>
DestroySockets(t) ==
  /\ pc[t] = "DestroySockets"
  /\ \E s \in cells :
       /\ cells' = cells \ {s}
       /\ socketLockDestroyed' = IF s \in lockInvalid THEN socketLockDestroyed
                                 ELSE socketLockDestroyed \cup {s}
       /\ eventGroupDestroyed' = IF s \in socketInvalid THEN eventGroupDestroyed
                                 ELSE eventGroupDestroyed \cup {s}
       /\ Goto(t, IF cells' = {} THEN "ResetList" ELSE "DestroySockets")
  /\ UNCHANGED <<waitOn, restartState, userThreadCount, currentSocketEpoch,
                 sealedSocketsListLock, sealedSockets, created, closed, socketEpoch,
                 heapAlive, lockInvalid, socketInvalid, socketLockOwner,
                 criticalSectionLock, queueDestroyed, ipThreadLockState, threadEntryGuard,
                 heapExhausted>>

\* sealedSockets.reset()
ResetList_Skip(t) ==
  /\ pc[t] = "ResetList"
  /\ Goto(t, "DestroyCriticalSections")
  /\ UNCHANGED <<waitOn, restartState, userThreadCount, currentSocketEpoch,
                 sealedSocketsListLock, socketVars, criticalSectionLock,
                 queueDestroyed, ipThreadLockState, threadEntryGuard,
                 heapExhausted>>
ResetList(t) ==
  /\ pc[t] = "ResetList"
  /\ sealedSockets' = {}
  /\ Goto(t, "DestroyCriticalSections")
  /\ UNCHANGED <<waitOn, restartState, userThreadCount, currentSocketEpoch,
                 sealedSocketsListLock, cells, created, closed, socketEpoch, heapAlive,
                 lockInvalid, socketInvalid, socketLockDestroyed,
                 socketLockOwner, eventGroupDestroyed, criticalSectionLock,
                 queueDestroyed, ipThreadLockState, threadEntryGuard,
                 heapExhausted>>

\* flaglock_upgrade_for_destruction on both critical-section locks
DestroyCriticalSections(t) ==
  /\ pc[t] = "DestroyCriticalSections"
  /\ criticalSectionLock' = [criticalSectionLock EXCEPT !.destroyed = TRUE]
  /\ Goto(t, "DestroyQueue")
  /\ UNCHANGED <<waitOn, restartState, userThreadCount, currentSocketEpoch,
                 sealedSocketsListLock, socketVars, queueDestroyed,
                 ipThreadLockState, threadEntryGuard, heapExhausted>>

\* queue_destroy(xNetworkEventQueue) succeeds, or fails and the error is
\* only logged.
QueueDestroy_Skipped == queueDestroyed
QueueDestroy == TRUE

DestroyQueue(t) ==
  /\ pc[t] = "DestroyQueue"
  /\ \/ queueDestroyed' = QueueDestroy
     \/ QueueDestroyMayFail /\ UNCHANGED queueDestroyed
  /\ Goto(t, "WaitUserThreads")
  /\ UNCHANGED <<waitOn, restartState, userThreadCount, currentSocketEpoch,
                 sealedSocketsListLock, socketVars, criticalSectionLock,
                 ipThreadLockState, threadEntryGuard, heapExhausted>>

\* Wait for every user thread to leave, freeing the heap on every iteration
\* so that threads blocked in the allocator can run and exit.
UserThreadsGone_Skip == TRUE
UserThreadsGone == userThreadCount = 0

WaitUserThreads(t) ==
  /\ pc[t] = "WaitUserThreads"
  /\ IF UserThreadsGone
       THEN /\ Goto(t, IF IsUserThread(t) THEN "WaitIpThread" ELSE "Reclaim")
            /\ UNCHANGED <<heapAlive, heapExhausted>>
       ELSE /\ FreeCompartmentMemory
            /\ UNCHANGED pc
  /\ UNCHANGED <<waitOn, restartState, userThreadCount, currentSocketEpoch,
                 sealedSocketsListLock, sealedSockets, cells, created,
                 closed, socketEpoch, lockInvalid, socketInvalid, socketLockDestroyed,
                 socketLockOwner, eventGroupDestroyed, criticalSectionLock,
                 queueDestroyed, ipThreadLockState, threadEntryGuard>>

\* A user-thread resetter takes and releases ipThreadLockState, which the IP
\* thread drops only when it re-enters ip_thread_entry.
IpThreadLockFree == ipThreadLockState = NoThread

WaitIpThread(t) ==
  /\ pc[t] = "WaitIpThread"
  /\ IpThreadLockFree
  /\ Goto(t, "Reclaim")
  /\ UNCHANGED <<waitOn, restartState, userThreadCount, currentSocketEpoch,
                 sealedSocketsListLock, socketVars, criticalSectionLock,
                 queueDestroyed, ipThreadLockState, threadEntryGuard,
                 heapExhausted>>

\* currentSocketEpoch++ (a uint32_t: it wraps only after 2^32 resets, far
\* beyond MaxResets, so the wrap is not modelled)
NextSocketEpoch_Unchanged == currentSocketEpoch
NextSocketEpoch == currentSocketEpoch + 1

\* Phase 3: free the heap again, advance the socket epoch and re-initialise
\* the locks upgraded for destruction.
Reclaim(t) ==
  /\ pc[t] = "Reclaim"
  /\ FreeCompartmentMemory
  /\ currentSocketEpoch' = NextSocketEpoch
  /\ criticalSectionLock' = FreeLock
  /\ sealedSocketsListLock' = FreeLock
  /\ Goto(t, "Restart")
  /\ UNCHANGED <<waitOn, restartState, userThreadCount, sealedSockets, cells,
                 created, closed, socketEpoch, lockInvalid, socketInvalid,
                 socketLockDestroyed, socketLockOwner, eventGroupDestroyed,
                 queueDestroyed, ipThreadLockState, threadEntryGuard>>

\* restartState |= IpThreadKicked; network_restart(); then return to
\* compartment_error_handler, which unwinds a user thread or reinstalls the
\* IP thread at ip_thread_entry.
KickedState_Assign == IpThreadKicked
KickedState == restartState | IpThreadKicked

Restart(t) ==
  /\ pc[t] = "Restart"
  /\ restartState' = KickedState
  /\ threadEntryGuard' = TRUE
  /\ Goto(t, AfterHandler(t))
  /\ UNCHANGED <<waitOn, userThreadCount, currentSocketEpoch,
                 sealedSocketsListLock, socketVars, criticalSectionLock,
                 queueDestroyed, ipThreadLockState, heapExhausted>>

\* A fault in the compartment: compartment_error_handler classifies it as
\* corruption and calls reset_network_stack_state.
Fault(t) ==
  /\ FaultAllowed
  /\ pc[t] \in FaultPcs
  /\ \/ IsUserThread(t) /\ pc[t] \in UserPcs
     \/ t = NetThread /\ pc[t] \in IpPcs
  /\ Goto(t, "ErrorHandler")
  /\ waitOn' = [u \in UserThreads |-> IF u = t THEN NoSocket ELSE waitOn[u]]
  /\ UNCHANGED <<restartState, userThreadCount, currentSocketEpoch,
                 sealedSocketsListLock, socketVars, criticalSectionLock,
                 queueDestroyed, ipThreadLockState, threadEntryGuard,
                 heapExhausted>>

Handler(t) ==
  \/ Phase1(t)
  \/ AcquireListLock(t)
  \/ DestroySockets(t)
  \/ ResetList(t)
  \/ DestroyCriticalSections(t)
  \/ DestroyQueue(t)
  \/ WaitUserThreads(t)
  \/ WaitIpThread(t)
  \/ Reclaim(t)
  \/ Restart(t)
-----------------------------------------------------------------------------
(* User threads: one call into the compartment at a time.  Each call does  *)
(* one operation that may block, then returns through the bookkeeping that *)
(* decrements userThreadCount.  (network_wrapper / tcpip.cc, from the spec) *)

UserUnchanged == <<restartState, currentSocketEpoch, criticalSectionLock,
                   queueDestroyed, ipThreadLockState, threadEntryGuard>>

\* Entry is refused while a reset is in progress; an admitted thread counts
\* itself in userThreadCount, in the same step or (two atomics) a later one.
Enter(u) ==
  /\ pc[u] = "Outside"
  /\ restartState = NotRestarting
  /\ IF AtomicEntry
       THEN userThreadCount' = (userThreadCount + 1) % 256 /\ Goto(u, "Inside")
       ELSE UNCHANGED userThreadCount /\ Goto(u, "Admitted")
  /\ UNCHANGED <<waitOn, sealedSocketsListLock, socketVars, heapExhausted,
                 UserUnchanged>>

CountIn(u) ==
  /\ pc[u] = "Admitted"
  /\ userThreadCount' = (userThreadCount + 1) % 256
  /\ Goto(u, "Inside")
  /\ UNCHANGED <<waitOn, sealedSocketsListLock, socketVars, heapExhausted,
                 UserUnchanged>>

Exit(u) ==
  /\ pc[u] = "Done"
  /\ userThreadCount' = (userThreadCount - 1) % 256
  /\ Goto(u, "Outside")
  /\ UNCHANGED <<waitOn, sealedSocketsListLock, socketVars, heapExhausted,
                 UserUnchanged>>

\* network_socket_create_and_bind takes the sealed sockets list lock; a lock
\* upgraded for destruction makes the call fail.
LockList(u) ==
  /\ pc[u] \in {"Inside", "WaitList"}
  /\ \/ sealedSocketsListLock.destroyed /\ Goto(u, "Done")
        /\ UNCHANGED sealedSocketsListLock
     \/ ~sealedSocketsListLock.destroyed
        /\ sealedSocketsListLock.owner = NoThread
        /\ sealedSocketsListLock' = [sealedSocketsListLock EXCEPT !.owner = u]
        /\ Goto(u, "HoldList")
     \/ pc[u] = "Inside" /\ ~sealedSocketsListLock.destroyed
        /\ sealedSocketsListLock.owner \notin {NoThread, u}
        /\ Goto(u, "WaitList") /\ UNCHANGED sealedSocketsListLock
  /\ UNCHANGED <<waitOn, userThreadCount, socketVars, heapExhausted,
                 UserUnchanged>>

\* Holding the list lock, the new socket is bound: FreeRTOS_bind posts the
\* bind to the IP thread's event queue and waits until the IP thread has
\* done it (the lock is held "for more than simply editing the list").  The
\* call fails and unlocks if the queue is already destroyed.
BindSocket(u) ==
  /\ pc[u] = "HoldList"
  /\ IF queueDestroyed
       THEN /\ sealedSocketsListLock' = [sealedSocketsListLock EXCEPT !.owner = NoThread]
            /\ Goto(u, "Done")
       ELSE /\ Goto(u, "WaitBind")
            /\ UNCHANGED sealedSocketsListLock
  /\ UNCHANGED <<waitOn, userThreadCount, socketVars, heapExhausted,
                 UserUnchanged>>

\* Bound: stamp the socket with the current epoch, insert it in the list
\* and unlock.  With no identity left the call fails and unlocks.
InsertSocket(u) ==
  /\ pc[u] = "Bound"
  /\ sealedSocketsListLock' = [sealedSocketsListLock EXCEPT !.owner = NoThread]
  /\ \/ \E s \in Sockets \ created :
          /\ created' = created \cup {s}
          /\ sealedSockets' = sealedSockets \cup {s}
          /\ socketEpoch' = [socketEpoch EXCEPT ![s] = currentSocketEpoch]
          /\ heapAlive' = heapAlive \cup {s}
     \/ created = Sockets
        /\ UNCHANGED <<created, sealedSockets, socketEpoch, heapAlive>>
  /\ Goto(u, "Done")
  /\ UNCHANGED <<waitOn, userThreadCount, cells, closed, lockInvalid,
                 socketInvalid, socketLockDestroyed, socketLockOwner,
                 eventGroupDestroyed, heapExhausted, UserUnchanged>>

\* A closed socket's sealed object is freed, so its handle no longer unseals.
Unseals(s) == s \in created \ closed

\* A socket call: a handle that does not unseal or is from an older epoch
\* is rejected; otherwise the thread touches the socket (a freed one traps)
\* and takes its lock.
UseSocket(u) ==
  /\ pc[u] = "Inside"
  /\ \E s \in created :
       \/ (~Unseals(s) \/ socketEpoch[s] # currentSocketEpoch) /\ Goto(u, "Done")
          /\ UNCHANGED waitOn
       \/ Unseals(s) /\ socketEpoch[s] = currentSocketEpoch /\ s \notin heapAlive
          /\ Goto(u, "ErrorHandler") /\ UNCHANGED waitOn
       \/ Unseals(s) /\ socketEpoch[s] = currentSocketEpoch /\ s \in heapAlive
          /\ Goto(u, "WaitSockLock") /\ waitOn' = [waitOn EXCEPT ![u] = s]
  /\ UNCHANGED <<userThreadCount, sealedSocketsListLock, socketVars,
                 heapExhausted, UserUnchanged>>

\* The socket lock is held by another thread: one waiting on the event group
\* or returning, or one that crashed holding it (nothing unlocks it then).
SocketLockHeldByOther(s, u) == socketLockOwner[s] \notin {NoThread, u}

\* network_socket_close takes the socket lock before it frees the socket.
SocketLockFree(s, u) == ~SocketLockHeldByOther(s, u)

\* The socket lock is granted once free, or the call fails once the lock is
\* upgraded for destruction (by the reset's walk or by a close); with the
\* lock the thread waits on the socket's event group.
SocketLock(u) ==
  /\ pc[u] = "WaitSockLock"
  /\ \/ waitOn[u] \in socketLockDestroyed
        /\ Goto(u, "Done") /\ waitOn' = [waitOn EXCEPT ![u] = NoSocket]
        /\ UNCHANGED socketLockOwner
     \/ waitOn[u] \notin socketLockDestroyed
        /\ ~SocketLockHeldByOther(waitOn[u], u)
        /\ socketLockOwner' = [socketLockOwner EXCEPT ![waitOn[u]] = u]
        /\ Goto(u, "WaitEvent") /\ UNCHANGED waitOn
  /\ UNCHANGED <<userThreadCount, sealedSocketsListLock, socketState,
                 heapExhausted, UserUnchanged>>

\* network_socket_close: a handle that does not unseal or is from an older
\* epoch is refused; otherwise the caller waits for the socket lock and the
\* list lock.
StartClose(u) ==
  /\ pc[u] = "Inside"
  /\ \E s \in created :
       \/ (~Unseals(s) \/ socketEpoch[s] # currentSocketEpoch) /\ Goto(u, "Done")
          /\ UNCHANGED waitOn
       \/ Unseals(s) /\ socketEpoch[s] = currentSocketEpoch /\ Goto(u, "WaitClose")
          /\ waitOn' = [waitOn EXCEPT ![u] = s]
  /\ UNCHANGED <<userThreadCount, sealedSocketsListLock, socketVars,
                 heapExhausted, UserUnchanged>>

\* With both locks, the socket's lock is upgraded for destruction (so that a
\* thread queued on it fails instead of waiting on freed memory), and the
\* socket is unlinked from the list and freed; the call fails once either
\* lock is destroyed or another thread closed the socket.
CloseSocket(u) ==
  /\ pc[u] = "WaitClose"
  /\ LET s == waitOn[u] IN
     \/ /\ \/ s \in socketLockDestroyed \/ ~Unseals(s)
           \/ sealedSocketsListLock.destroyed
        /\ UNCHANGED socketVars
     \/ /\ s \notin socketLockDestroyed /\ Unseals(s)
        /\ ~sealedSocketsListLock.destroyed
        /\ sealedSocketsListLock.owner = NoThread
        /\ SocketLockFree(s, u)
        /\ socketLockDestroyed' = socketLockDestroyed \cup {s}
        /\ sealedSockets' = sealedSockets \ {s}
        /\ closed' = closed \cup {s}
        /\ heapAlive' = heapAlive \ {s}
        /\ UNCHANGED <<cells, created, socketEpoch, lockInvalid, socketInvalid,
                       socketLockOwner, eventGroupDestroyed>>
  /\ Goto(u, "Done")
  /\ waitOn' = [waitOn EXCEPT ![u] = NoSocket]
  /\ UNCHANGED <<userThreadCount, sealedSocketsListLock, heapExhausted,
                 UserUnchanged>>

\* The call returns: its lock guard unlocks the socket lock.
UnlockSocket(u) ==
  /\ socketLockOwner' = [socketLockOwner EXCEPT ![waitOn[u]] = NoThread]
  /\ Goto(u, "Done")
  /\ waitOn' = [waitOn EXCEPT ![u] = NoSocket]

\* A forced destruction of the event group wakes its waiter with a failure.
EventGroupDestroyedWake(u) ==
  /\ pc[u] = "WaitEvent"
  /\ waitOn[u] \in eventGroupDestroyed
  /\ UnlockSocket(u)
  /\ UNCHANGED <<userThreadCount, sealedSocketsListLock, socketState,
                 heapExhausted, UserUnchanged>>

\* Woken by the IP thread, the call finishes and returns.
ReleaseSocketLock(u) ==
  /\ pc[u] = "HoldSock"
  /\ UnlockSocket(u)
  /\ UNCHANGED <<userThreadCount, sealedSocketsListLock, socketState,
                 heapExhausted, UserUnchanged>>

\* taskENTER_CRITICAL / vTaskSuspendAll from any thread.
CriticalSectionStep(t, holdPc, waitPc, failPc) ==
  /\ \/ criticalSectionLock.destroyed /\ Goto(t, failPc)
        /\ UNCHANGED criticalSectionLock
     \/ ~criticalSectionLock.destroyed /\ criticalSectionLock.owner = NoThread
        /\ criticalSectionLock' = [criticalSectionLock EXCEPT !.owner = t]
        /\ Goto(t, holdPc)
     \/ pc[t] # waitPc /\ ~criticalSectionLock.destroyed
        /\ criticalSectionLock.owner \notin {NoThread, t}
        /\ Goto(t, waitPc) /\ UNCHANGED criticalSectionLock

ReleaseCriticalSection(t, nextPc) ==
  /\ criticalSectionLock' = [criticalSectionLock EXCEPT !.owner = NoThread]
  /\ Goto(t, nextPc)

UserCriticalSection(u) ==
  /\ \/ pc[u] \in {"Inside", "WaitCS"}
        /\ CriticalSectionStep(u, "InCS", "WaitCS", "Done")
     \/ pc[u] = "InCS" /\ ReleaseCriticalSection(u, "Done")
  /\ UNCHANGED <<waitOn, userThreadCount, sealedSocketsListLock, socketVars,
                 heapExhausted, restartState, currentSocketEpoch,
                 queueDestroyed, ipThreadLockState, threadEntryGuard>>

\* heap_allocate: blocks while the quota is exhausted; a successful
\* allocation may exhaust it.
Allocate(u) ==
  /\ \/ pc[u] = "Inside" /\ heapExhausted /\ Goto(u, "WaitHeap")
        /\ UNCHANGED heapExhausted
     \/ pc[u] \in {"Inside", "WaitHeap"} /\ ~heapExhausted
        /\ Goto(u, "Done") /\ heapExhausted' \in BOOLEAN
  /\ UNCHANGED <<waitOn, userThreadCount, sealedSocketsListLock, socketVars,
                 UserUnchanged>>

\* Steps a running user thread eventually takes.
UserProgress(u) ==
  \/ CountIn(u) \/ Exit(u) \/ LockList(u) \/ BindSocket(u) \/ InsertSocket(u) \/ UseSocket(u)
  \/ StartClose(u) \/ CloseSocket(u)
  \/ SocketLock(u) \/ EventGroupDestroyedWake(u) \/ ReleaseSocketLock(u)
  \/ UserCriticalSection(u)
  \/ Allocate(u) \/ Handler(u)
-----------------------------------------------------------------------------
(* The network (IP) thread: its event loop waits on xNetworkEventQueue and *)
(* enters critical sections; a failed wait on a destroyed primitive traps  *)
(* into the error handler.  ip_thread_entry drops ipThreadLockState, waits *)
(* for network_restart, retakes the lock and, once re-initialised, clears  *)
(* restartState and re-creates the queue.  (FreeRTOS_IP_wrapper.c,         *)
(* startup.cc, from the spec)                                               *)

IpUnchanged == <<waitOn, userThreadCount, currentSocketEpoch,
                 sealedSocketsListLock, socketVars, heapExhausted>>

\* xQueueReceive on the event queue.
IpReceive ==
  /\ pc[NetThread] = "IpLoop"
  /\ Goto(NetThread, IF queueDestroyed THEN "ErrorHandler" ELSE "IpWaitQueue")
  /\ UNCHANGED <<restartState, criticalSectionLock, queueDestroyed,
                 ipThreadLockState, threadEntryGuard, IpUnchanged>>

\* A user thread posts an event (the IP thread's wakeup is not guaranteed).
IpMessage ==
  /\ pc[NetThread] = "IpWaitQueue"
  /\ ~queueDestroyed
  /\ Goto(NetThread, "IpLoop")
  /\ UNCHANGED <<restartState, criticalSectionLock, queueDestroyed,
                 ipThreadLockState, threadEntryGuard, IpUnchanged>>

IpQueueDestroyedWake ==
  /\ pc[NetThread] = "IpWaitQueue"
  /\ queueDestroyed
  /\ Goto(NetThread, "ErrorHandler")
  /\ UNCHANGED <<restartState, criticalSectionLock, queueDestroyed,
                 ipThreadLockState, threadEntryGuard, IpUnchanged>>

IpCriticalSection ==
  /\ \/ pc[NetThread] \in {"IpLoop", "IpWaitCS"}
        /\ CriticalSectionStep(NetThread, "IpInCS", "IpWaitCS", "ErrorHandler")
     \/ pc[NetThread] = "IpInCS" /\ ReleaseCriticalSection(NetThread, "IpLoop")
  /\ UNCHANGED <<restartState, queueDestroyed, ipThreadLockState,
                 threadEntryGuard, IpUnchanged>>

\* The IP thread sets the event bits of a socket and wakes its waiter, which
\* runs on still holding the socket lock.
IpSignal ==
  /\ pc[NetThread] = "IpLoop"
  /\ \E u \in UserThreads :
       /\ pc[u] = "WaitEvent"
       /\ waitOn[u] \in heapAlive \ eventGroupDestroyed
       /\ pc' = [pc EXCEPT ![u] = "HoldSock"]
  /\ UNCHANGED <<waitOn, userThreadCount, currentSocketEpoch, sealedSocketsListLock,
                 socketVars, heapExhausted, restartState, criticalSectionLock,
                 queueDestroyed, ipThreadLockState, threadEntryGuard>>

\* The IP thread takes a pending bind event off its queue and binds the
\* socket, waking the thread waiting for it.
IpBind ==
  /\ pc[NetThread] \in {"IpLoop", "IpWaitQueue"}
  /\ ~queueDestroyed
  /\ \E u \in UserThreads :
       /\ pc[u] = "WaitBind"
       /\ pc' = [pc EXCEPT ![u] = "Bound", ![NetThread] = "IpLoop"]
  /\ UNCHANGED <<userThreadCount, currentSocketEpoch, sealedSocketsListLock,
                 socketVars, heapExhausted, waitOn, restartState,
                 criticalSectionLock, queueDestroyed, ipThreadLockState,
                 threadEntryGuard>>

\* ip_thread_entry: release the startup lock taken at the previous start.
IpEntry ==
  /\ pc[NetThread] = "IpEntry"
  /\ ipThreadLockState' = IF ipThreadLockState = NetThread THEN NoThread
                          ELSE ipThreadLockState
  /\ Goto(NetThread, "IpWaitStart")
  /\ UNCHANGED <<restartState, criticalSectionLock, queueDestroyed,
                 threadEntryGuard, IpUnchanged>>

\* Released by network_restart: retake the startup lock, re-initialise the
\* stack and clear restartState.
IpStart ==
  /\ pc[NetThread] = "IpWaitStart"
  /\ threadEntryGuard
  /\ ipThreadLockState = NoThread
  /\ ipThreadLockState' = NetThread
  /\ threadEntryGuard' = FALSE
  /\ queueDestroyed' = FALSE
  /\ restartState' = NotRestarting
  /\ Goto(NetThread, "IpLoop")
  /\ UNCHANGED <<criticalSectionLock, IpUnchanged>>

IpProgress ==
  \/ IpReceive \/ IpBind \/ IpQueueDestroyedWake \/ IpCriticalSection \/ IpEntry
  \/ IpStart \/ Handler(NetThread)

-----------------------------------------------------------------------------
(* Corruption of a listed socket's capabilities (the list walk must skip   *)
(* what it cannot validate).                                                *)
Corrupt ==
  /\ \E s \in CorruptibleSockets \cap sealedSockets :
       \/ s \notin lockInvalid /\ lockInvalid' = lockInvalid \cup {s}
          /\ UNCHANGED socketInvalid
       \/ s \notin socketInvalid /\ socketInvalid' = socketInvalid \cup {s}
          /\ UNCHANGED lockInvalid
  /\ UNCHANGED <<pc, waitOn, restartState, userThreadCount, currentSocketEpoch,
                 sealedSocketsListLock, sealedSockets, cells, created,
                 closed, socketEpoch, heapAlive, socketLockDestroyed,
                 socketLockOwner, eventGroupDestroyed, criticalSectionLock, queueDestroyed,
                 ipThreadLockState, threadEntryGuard, heapExhausted>>

-----------------------------------------------------------------------------
Init ==
  /\ pc = [t \in Threads |-> IF t = NetThread THEN "IpLoop" ELSE "Outside"]
  /\ waitOn = [u \in UserThreads |-> NoSocket]
  /\ restartState = NotRestarting
  /\ userThreadCount = 0
  /\ currentSocketEpoch = 0
  /\ sealedSocketsListLock = FreeLock
  /\ sealedSockets = {}
  /\ cells = {}
  /\ created = {}
  /\ closed = {}
  /\ socketEpoch = [s \in Sockets |-> 0]
  /\ heapAlive = {}
  /\ lockInvalid = {}
  /\ socketInvalid = {}
  /\ socketLockDestroyed = {}
  /\ socketLockOwner = [s \in Sockets |-> NoThread]
  /\ eventGroupDestroyed = {}
  /\ criticalSectionLock = FreeLock
  /\ queueDestroyed = FALSE
  /\ ipThreadLockState = NetThread
  /\ threadEntryGuard = FALSE
  /\ heapExhausted = FALSE

Next ==
  \/ \E u \in UserThreads : Enter(u) \/ UserProgress(u)
  \/ IpProgress \/ IpMessage \/ IpSignal
  \/ \E t \in Threads : Fault(t)
  \/ Corrupt

\* The scheduler is preemptive: every thread that can run eventually does.
\* A bind event stays in the IP thread's queue until the event loop takes
\* it, and the loop comes back to its queue between critical sections, so a
\* pending bind is eventually done (strong fairness: the IP thread leaves
\* the states where it can take it, in a critical section, and comes back).
\* Calls into the compartment, other events, faults and corruption are not
\* guaranteed to happen.
Fairness ==
  /\ \A u \in UserThreads : WF_vars(UserProgress(u))
  /\ WF_vars(IpProgress)
  /\ SF_vars(IpBind)

Spec == Init /\ [][Next]_vars /\ Fairness
-----------------------------------------------------------------------------
(* Properties                                                              *)

TypeOK ==
  /\ pc \in [Threads -> UserPcs \cup IpPcs \cup ResetPcs \cup {"ErrorHandler"}]
  /\ waitOn \in [UserThreads -> Sockets \cup {NoSocket}]
  /\ restartState \in {NotRestarting, Restarting, Restarting | IpThreadKicked}
  /\ userThreadCount \in 0..255
  /\ currentSocketEpoch \in 0..MaxResets
  /\ sealedSocketsListLock \in [owner : Threads \cup {NoThread},
                                destroyed : BOOLEAN]
  /\ criticalSectionLock \in [owner : Threads \cup {NoThread},
                              destroyed : BOOLEAN]
  /\ sealedSockets \cup cells \cup heapAlive \cup closed \subseteq created
  /\ socketEpoch \in [Sockets -> 0..MaxResets]
  /\ socketLockOwner \in [Sockets -> UserThreads \cup {NoThread}]
  /\ ipThreadLockState \in {NetThread, NoThread}
  /\ {queueDestroyed, threadEntryGuard, heapExhausted} \subseteq BOOLEAN

\* Phase 1's compare-exchange lets at most one faulting thread run Phases 2
\* and 3, however many threads fault concurrently, and restartState stays
\* set while it does (so the IP thread cannot finish re-initialising and
\* user threads cannot enter under it).
OneResetInFlight ==
  LET resetters == {t \in Threads : pc[t] \in ResetPcs}
  IN /\ Cardinality(resetters) <= 1
     /\ resetters # {} => restartState # NotRestarting

\* userThreadCount, decremented by the error handler for a faulting user
\* thread and by the exit bookkeeping otherwise, equals the number of user
\* threads actually inside the compartment: a missed or double decrement
\* would make the drain loop spin forever or stop early.
UserThreadCountTracksThreads ==
  userThreadCount = Cardinality(InCompartment)

\* When the resetter reaches Phase 3 (the Assert at the top of it and the
\* comment "all user threads have exited ... and the network thread context
\* has been reinstalled"), no user thread is inside the compartment and the
\* IP thread is either the resetter or parked in ip_thread_entry, so
\* re-initialising the locks and freeing the heap races with no one.
QuiescentBeforeReclaim ==
  \A t \in Threads :
    pc[t] \in {"Reclaim", "Restart"} =>
      /\ userThreadCount = 0
      /\ InCompartment = {}
      /\ t = NetThread \/ pc[NetThread] = "IpWaitStart"

\* The sealed sockets list lock is only ever owned by a thread still running
\* in the compartment (creating a socket, or in the error handler): a thread
\* that crashed while holding it never leaves it locked behind it, so the
\* resetter's blocking lock() and later socket creations can proceed.
ListLockHeldByLiveThread ==
  LET owner == sealedSocketsListLock.owner
  IN owner # NoThread =>
       pc[owner] \in {"HoldList", "WaitBind", "Bound", "ErrorHandler"}
                        \cup ResetPcs

\* Outside a reset, every open socket whose epoch passes the validity check
\* still has its heap state: heap_free_all freed only sockets of older
\* epochs and close freed only closed ones, so no handle that survives a
\* reset can reach freed memory.
StaleHandlesRejected ==
  restartState = NotRestarting =>
    \A s \in created \ closed :
      socketEpoch[s] = currentSocketEpoch => s \in heapAlive

\* Every user thread blocked on a socket can be reached by a reset: the
\* socket is still in the sealed sockets list, so the walk at lines 200-238
\* will upgrade its lock and destroy its event group, or the primitive it
\* waits on is already destroyed (by the walk, or by a close), or its
\* capability is corrupted, the gap the comment at lines 228-233 accepts.
\* A walk that validates the wrong capability before destroying, a close
\* that frees a socket without destroying its lock, or a crashed holder's
\* lock left alone, leaves a thread no reset can wake.
BlockedThreadsReachable ==
  \A u \in UserThreads :
    /\ pc[u] = "WaitSockLock" =>
         waitOn[u] \in sealedSockets \cup socketLockDestroyed \cup lockInvalid
    /\ pc[u] = "WaitEvent" =>
         waitOn[u] \in sealedSockets \cup eventGroupDestroyed \cup socketInvalid

\* A completed reset leaves the compartment as the spec's testable
\* properties require, however many sockets existed and whichever list
\* nodes were corrupted: at the step where the IP thread clears restartState,
\* no user thread is counted inside, the sealed sockets list is empty, no
\* socket's heap state survives, and every socket created so far carries an
\* epoch older than the current one.
ResetLeavesCleanState ==
  [][restartState # NotRestarting /\ restartState' = NotRestarting =>
       /\ userThreadCount' = 0
       /\ sealedSockets' = {}
       /\ heapAlive' = {}
       /\ \A s \in created' : socketEpoch'[s] < currentSocketEpoch']_vars

\* The reset, seen through restartState, the socket epoch and the set of
\* user threads inside, is the one RestartStateMachine describes: the
\* phase is read off restartState and the resetter's position in Phase 3.
RestartPhase ==
  CASE restartState = NotRestarting -> "Idle"
    [] restartState = (Restarting | IpThreadKicked) -> "Kicked"
    [] \E t \in Threads : pc[t] = "Restart" -> "Reclaimed"
    [] OTHER -> "Evacuating"

Abstract == INSTANCE RestartStateMachine
              WITH Users <- UserThreads, phase <- RestartPhase,
                   epoch <- currentSocketEpoch, inside <- InCompartment

\* Whatever the interleaving of faults, entries and exits, restartState
\* only moves NotRestarting -> Restarting -> kicked -> NotRestarting, no
\* user thread enters during a reset, and the socket epoch advances once
\* per reset, only after every user thread has left and before the IP
\* thread is kicked.
ImplementsRestartStateMachine == Abstract!Spec

\* Every reset that starts completes: the IP thread eventually clears
\* restartState, so the evacuation (list lock acquisition, user-thread drain,
\* wait for the IP thread) never waits forever.
ResetCompletes ==
  restartState # NotRestarting ~> restartState = NotRestarting
=============================================================================

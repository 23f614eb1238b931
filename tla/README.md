# TLA+ models of the CHERIoT network stack's crash recovery

This directory holds TLA+ models of the error-recovery path of the TCP/IP
compartment (`src/unnamed/part_000`) and of the HTTP server example
(`src/unnamed/part_001`), with TLC configurations that check them.

## The system

`part_000` has two functions:

* `compartment_error_handler` (lines 335-435) is called by the switcher on
  every trap in the TCP/IP compartment. It classifies the trap:
  * a non-CHERI trap is force-unwound;
  * a thread returning from its entry point (tag violation on a NULL CRA with
    CSP at the top of its stack) is force-unwound;
  * an unwind from a called compartment (cause `None`) resumes with
    `InstallContext`;
  * anything else is corruption. It calls `reset_network_stack_state`, then
    force-unwinds a user thread, or reinstalls the network thread at
    `ip_thread_entry`.
* `reset_network_stack_state` (lines 103-331) runs on the faulting thread in
  three phases:
  1. Phase 1 decrements `userThreadCount` for a user thread and force-unlocks
     the sealed-sockets list lock if the crashing thread held it. A
     compare-exchange on `restartState` then lets exactly one handler go on.
  2. Phase 2 takes the list lock and upgrades it for destruction. It walks the
     list, destroying socket locks and event groups whose capabilities are
     still valid, and resets the list. It upgrades the two critical-section
     locks and destroys the IP thread's message queue. It then loops, freeing
     the heap, until `userThreadCount` is 0. A user-thread resetter also
     waits for the IP thread to drop `ipThreadLockState` in `ip_thread_entry`.
  3. Phase 3 frees the heap again and increments `currentSocketEpoch`. It
     re-initialises the locks, sets `IpThreadKicked` and calls
     `network_restart`.

These functions interact with code outside `src/`: the compartment entry and
exit bookkeeping, socket creation under the list lock, socket use checked
against the epoch, the IP thread's event loop, and `ip_thread_entry`, which
clears `restartState`. The models take this code from the spec; the map marks
those definitions `spec_modelled`.

`src/lib/tcpip/network-internal.h` declares the internal API that the TCP/IP
compartment offers the NetAPI wrappers. Its four calls are:
* `network_host_resolve`;
* `network_socket_create_and_bind`;
* `network_socket_connect_tcp_internal`;
* `network_socket_kind`, which returns a `SocketKind`.

The bodies of these calls are not in `src/`. Only their documented contracts
are.

`part_001` is `example()`, an HTTP server. It listens and accepts up to
`MaxClients` connections. For each connection it receives a request, sends a
static reply in a loop, and closes the socket.

## Modules

| Module | Models | State |
|---|---|---|
| `NetStackReset` | The CHERI corruption branch of the handler and all of `reset_network_stack_state`, run by any faulting thread and interleaved with the other threads. | `pc` per thread, `restartState`, `userThreadCount`, `currentSocketEpoch`, list lock `[owner, destroyed]`, `sealedSockets`, the cells the walk has not visited, created and closed sockets, per-socket epoch, the owner of each socket lock, liveness of heap and corruption flags, destroyed locks, event groups and queue, `ipThreadLockState`, the `network_restart` gate, heap exhaustion. |
| `CompartmentErrorHandler` | The whole classification in `compartment_error_handler`, including the frame rewrite for the network thread. Each trap is one input. | `thread`, `mcause`, `mtval`, CRA address, `frame` `[pcc, csp]`, `outcome`. |
| `HttpServerExample` | `example()`. Every network API call returns a value chosen nondeterministically from the values it may return. A `NetworkReset` step makes every socket the example holds stale, so that the send run also covers sends on stale sockets. | `pc`, `clientsCounter`, `sent`, the last send result, `stale`. |
| `NetworkInternal` | The header's four calls. Each is an action whose result is the one its contract comment states. What the comment leaves open (network errors, the port the stack picks) is nondeterministic. `Reset` advances the epoch. | `created`, the caller's `requested` arguments, the stack's `bound` record (port, epoch), `connected`, `epoch`, `lastCall`. |
| `RestartStateMachine` | The abstract promise of a reset: the phases `Idle`, `Evacuating`, `Reclaimed` and `Kicked`, the epoch, and the set of user threads inside. `NetStackReset` implements it. | `phase`, `epoch`, `inside`. |

Each module has an `MC_` module that extends it for TLC. The `MC_` module
defines symmetry sets and constants a cfg cannot write, such as negative
numbers.

### `NetStackReset`: actions and the code

The handler's steps are separate actions so that other threads interleave
between them exactly where the code can block or yield:

| Action | Lines | What it does |
|---|---|---|
| `Fault` | 335-392 | A thread inside the compartment traps (corruption). |
| `Phase1` | 103-164 | Decrement, forced unlock and the gate. A loser returns at once (user) or reinstalls (IP thread). |
| `AcquireListLock` | 170-190 | Blocks while another thread owns the list lock. |
| `DestroySockets` | 192-239 | One list cell per step. `Corrupt` may first invalidate the capabilities of a socket in `CorruptibleSockets`. |
| `ResetList`, `DestroyCriticalSections`, `DestroyQueue` | 241-257 | One action per line group. |
| `WaitUserThreads` | 259-281 | Loop iteration. The heap free (`FreeCompartmentMemory`) is part of the same step. |
| `WaitIpThread` | 283-295 | `flaglock_lock` and `flaglock_unlock` on `ipThreadLockState`. |
| `Reclaim` | 297-321 | Free the heap, advance the epoch and reset the locks. |
| `Restart` | 323-331 | Set `IpThreadKicked`, release the IP thread, then return to the switcher with the handler's recovery behaviour. |

The user threads can:
* enter (refused while `restartState # 0`) and exit;
* create a socket under the list lock;
* use a socket: they are rejected if the handle no longer unseals (closed) or
  its epoch is stale, and otherwise they take its lock and wait on its event
  group while holding the lock; once the IP thread signals the group the
  call runs on (`HoldSock`), still holding the lock, until it returns and
  unlocks it;
* close a socket: with its lock and the list lock, upgrade its lock for
  destruction, unlink it and free it;
* enter a critical section;
* block in the allocator.

The IP thread can:
* wait on its queue;
* take a message;
* signal an event group;
* enter a critical section;
* park in `ip_thread_entry` and restart once `network_restart` releases it.

Socket creation holds the list lock while the IP thread binds the socket
(`BindSocket`, `IpBind`). That is what the comment at lines 125-128 means by
holding the lock "for more than simply editing the list".

The refinement mapping sends:
* `phase` to a function of `restartState` and of whether the resetter is
  between `Reclaim` and `Restart`;
* `epoch` to `currentSocketEpoch`;
* `inside` to the user threads inside the compartment.

Three constants choose the fault model per run:
* `FaultPcs` lists the program locations at which a running thread may fault.
* `AtomicEntry` chooses how entry works. When TRUE, the `restartState` check
  and the increment of `userThreadCount` are one step. When FALSE, they are
  two separate atomics, and a thread waits between them as `Admitted`.
* `QueueDestroyMayFail` lets `queue_destroy` return an error, which the
  handler only logs.

A blocked thread wakes only when what it waits on is destroyed or signalled.

Every lock has an explicit owner. A thread that faults keeps what it holds:
Phase 1 force-unlocks only the list lock (lines 122-136), so a socket lock or
the critical-section lock stays owned by the crashed thread until the walk or
Phase 2 upgrades it for destruction.

## Runs

| Run | Result | What it shows |
|---|---|---|
| `reset_safety` | pass, about 2.5M states, 40 s | With two user threads and the IP thread all able to fault (a user thread also while it holds a socket lock), and one corruptible socket, TLC checks seven properties. `OneResetInFlight`: at most one reset runs. `UserThreadCountTracksThreads`: `userThreadCount` equals the number of user threads inside. `QuiescentBeforeReclaim`: Phase 3 starts only with no user thread inside and the IP thread parked. `ListLockHeldByLiveThread`: the list lock is never owned by a thread that crashed. `StaleHandlesRejected`: a socket created before a reset is never used after it. `BlockedThreadsReachable`: every thread blocked on a socket is blocked on one the list walk will reach, or on a primitive already destroyed or corrupted; this includes a thread queued on the socket lock of a thread that crashed holding it. `ResetLeavesCleanState` (an action property): when the IP thread clears `restartState`, no user thread is counted, the list is empty, no socket state survives and every socket is stale. `queue_destroy` may fail in this run. |
| `reset_liveness` | pass, about 650k states | `ResetCompletes`: without corruption every reset ends with `restartState = 0`. Entry is non-atomic in this run. A late entrant may fault into a second reset, and that reset completes too. A user thread may also fault while it holds a socket lock. |
| `reset_corrupt_socket` | violation | With a corrupted socket capability, a user thread parked on that socket's event group is never woken, and the drain loop (line 261) spins forever. |
| `classify` | pass | `ClassificationMatchesSpec`: every trap gets the behaviour and reset decision the spec (sections 4.1 and 4.3) gives its class. |
| `net_thread_rewind` | violation | The network thread restarts at `ip_thread_entry` with the CSP it faulted with. The rewind at lines 400-405 changes a local copy only, and moves it to the base rather than the top. |
| `http_send_error` | violation | `size_t sentThisCall >= 0` always holds, so a send error is added to `sent` and wraps it. |
| `reset_refinement` | pass, about 5M states, just over 2 minutes | `ImplementsRestartStateMachine`: with every thread able to fault at every site, the reset implements `RestartStateMachine`. It leaves `NotRestarting` once per reset and admits no entry during it. The epoch advances exactly once, after the last user thread leaves and before the kick. |
| `internal_api` | pass, about 180k states | `TypeOK`: every call stays within its contract across resets, and a successful `network_socket_kind` reports a real protocol and a non-zero port (localPort 0 means the stack picks one). The module only restates the header's contract comments, since the bodies are not in `src/`; properties beyond the type would hold by definition and are not stated. |
| `reset_bind_deadlock` | violation | The IP thread faults while a user thread holds the list lock waiting for it to bind. As resetter, the IP thread blocks in `lock()` at line 186 for ever. |
| `reset_cs_deadlock` | violation | A user thread crashes inside a critical section while another thread holds the list lock waiting for a bind. The IP thread waits for the critical-section lock, and the resetter waits for the list lock. |
| `reset_entry_race` | violation | With entry as a check followed by a separate increment, a thread admitted before the gate closed counts itself in after the drain saw zero. It is then inside the compartment during Phase 3. |

The safety and refinement runs set `CHECK_DEADLOCK FALSE` because the system
really can stop: these are the two deadlocks above.

The liveness run restricts `FaultPcs` to user threads outside critical
sections (a thread holding a socket lock may still fault). Under that restriction every reset completes. The two deadlock runs
show that the restriction is needed.

Each property of a passing run has a mutant in `PROJECT.json`. The mutant is a
plausible bug in the mapped code, and TLC finds it: the gate as a plain store,
the decrement applied to the IP thread, a missing drain loop, a missing forced
unlock, a missing epoch increment, `|=` written as `=`, a skipped
`queue_destroy` and a thread-exit test without the stack check. Later
mutants add:
* a reset that skips the wait for user threads (refinement);
* a skipped `sealedSockets.reset()`;
* a walk that checks each capability before destroying the wrong primitive;
* a bind to port 0 that forgets to pick a port.

## Bounds

* Two user threads are enough for one to fault while another is blocked or
  holds the list lock.
* The IP thread can fault during a reset, which covers the loser path at
  line 147.
* Two sockets are enough for one to be corrupted and one healthy.
  Socket identities are never reused, so the two sockets also bound how many
  sockets are ever created. One may be closed while another thread waits
  for its lock.
* `MaxResets = 2` allows a second reset after the first completes, so a
  socket from epoch 0 can be used in epoch 1 or 2.
* The epoch's `uint32_t` wrap and `userThreadCount`'s `uint8_t` wrap lie
  outside these bounds. The decrement still takes its value `% 256`, so a
  spurious decrement wraps visibly.

## Fairness

`Spec` assumes weak fairness of each user thread's progress actions and of the
IP thread's progress. It assumes strong fairness of `IpBind`. A bind event
stays in the IP thread's queue, and the event loop returns to the queue
between critical sections, so a pending bind is eventually served even though
the IP thread keeps leaving the states where it can take it. These are the scheduler's guarantee that a runnable
thread eventually runs. The following are environment choices and get no
fairness:
* faults;
* compartment entry;
* new messages and event-group signals;
* corruption.

A thread blocked on a lock, event group or queue that is never destroyed or
signalled is not runnable. That is exactly the case that makes
`reset_corrupt_socket` fail.

## Not modelled

* Logging.
* The `Debug` assertion's effect, which only logs.
* FreeRTOS+TCP packet processing.
* DNS, SNTP and the socket wrappers.
* Priority inheritance and lock recursion depth. The flag lock and its
  recursive wrapper are implemented outside `src/`; the code here only
  zeroes `lockWord` and `depth` (lines 316-320), which the model's `FreeLock`
  stands for.
* The two critical-section locks as separate locks. The handler treats them
  identically, in the same steps (lines 244-246 and 316-319), so they are one
  lock in the model; a thread holding one while another holds the other is
  not explored.
* The xmake build snippet (part_000 lines 1-16).
* The heap-leak check in `example()`, which only logs.
* Whether a failed `queue_destroy` stalls the reset. The safety and
  refinement runs include the failure, and it breaks none of their
  properties. The stall depends on whether the IP task's queue wait in
  FreeRTOS_IP.c is bounded, and that code is not in `src/`.
* What `network_socket_close` does to its socket lock. `tcpip.cc` is not in
  `src/`, and the spec only says the socket is removed at close. The model
  upgrades the lock for destruction in the close step, so a thread queued on
  it fails rather than waiting on freed memory. This is an assumption, and
  `BlockedThreadsReachable` depends on it for closed sockets.
* `example()` spinning on a stale listening socket after a reset. A failed
  accept changes no state the model keeps, so the spin cannot be told apart
  from a server blocked in accept. Nothing in the repository says the server
  must stop.
* The timeout of `network_socket_create_and_bind`. The bind waits without
  one, as with the unlimited timeout the example passes; `reset_bind_deadlock`
  assumes that.
* The order in which `network_socket_close` takes the socket lock and the
  list lock. The model takes both in one step.
* Allocation inside `network_socket_create_and_bind` while it holds the list
  lock.
* For `NetworkInternal`, only what the header states. The bodies (`tcpip.cc`)
  are not in `src/`. The epoch check on use comes from the spec.

## Status

The refinement, the list-lock deadlocks and a
fault while a socket lock is held are done. One item stays open:
`NetworkInternal`'s socket part is not shown to be implemented by
`NetStackReset`. The two modules describe the same sockets at different
granularities. `NetworkInternal` has one atomic step per API call with its
result. `NetStackReset` splits creation into lock, bind and insert steps,
and it leaves out the arguments, ports and protocols. A refinement mapping
would need `NetStackReset` to carry the call arguments, and its state space
is already at the limit of a timely run.

----------------------- MODULE CompartmentErrorHandler -----------------------
(***************************************************************************)
(* compartment_error_handler: how one trap in the TCP/IP compartment is    *)
(* classified (thread exit, unwind from a callee, corruption, non-CHERI     *)
(* trap), whether it triggers reset_network_stack_state, and the register  *)
(* frame and recovery behaviour it hands back to the switcher.  Each       *)
(* initial state is one trap; Handle computes the handler's answer, which  *)
(* is compared with the classification the spec gives (section 4.1/4.3).   *)
(***************************************************************************)
EXTENDS Naturals

CONSTANTS
  NetThread,   \* networkThreadID
  UserThread,  \* any other thread
  StackTop     \* top of the faulting thread's stack; its base is 0

ASSUME StackTop \in Nat \ {0}

\* mcause values: the CHERI cause, and any other exception.
MCauses == {"MCAUSE_CHERI", "ReservedInstruction"}
\* CHERI cause codes in mtval.
CauseCodes == {"None", "TagViolation", "BoundsViolation"}
\* Faulting register numbers in mtval.
Registers == {"CZR", "CRA", "CSP", "CA0"}

VARIABLES
  thread,     \* thread_id_get()
  mcause,
  mtval,      \* [exceptionCode, registerNumber] (extract_cheri_mtval)
  craAddress, \* address of CRA in the frame
  frame,      \* [pcc, csp] with csp the address of the stack pointer
  outcome     \* [behaviour, reset]; behaviour "Pending" before Handle

vars == <<thread, mcause, mtval, craAddress, frame, outcome>>

Pending == [behaviour |-> "Pending", reset |-> FALSE]

Init ==
  /\ thread \in {NetThread, UserThread}
  /\ mcause \in MCauses
  /\ mtval \in [exceptionCode : CauseCodes, registerNumber : Registers]
  /\ craAddress \in {0, 1}
  /\ frame \in [pcc : {"faulting_pc"}, csp : 0..StackTop]
  /\ outcome = Pending

-----------------------------------------------------------------------------
\* The thread returned from its entry point through the NULL return address
\* installed at thread creation: tag violation on CRA, CRA is NULL and CSP is
\* at the top of the stack.
IsThreadExit_NoStackCheck ==
  /\ mtval.registerNumber = "CRA"
  /\ craAddress = 0
  /\ mtval.exceptionCode = "TagViolation"
IsThreadExit ==
  /\ mtval.registerNumber = "CRA"
  /\ craAddress = 0
  /\ mtval.exceptionCode = "TagViolation"
  /\ frame.csp = StackTop

\* frame->pcc = &ip_thread_entry; the frame's CSP is left as it was.
ReinstalledFrame == [frame EXCEPT !.pcc = "ip_thread_entry"]

\* The handler's answer.  For the network thread after a reset it sets
\* frame->pcc to ip_thread_entry; the stack pointer it rewinds is a local
\* Capability built from get_register_value(CSP) (a pointer to the register
\* slot) whose address is set to its base and never stored back, so the
\* frame's CSP is returned as it was.
Handle ==
  /\ outcome = Pending
  /\ \/ mcause # "MCAUSE_CHERI"
        /\ outcome' = [behaviour |-> "ForceUnwind", reset |-> FALSE]
        /\ UNCHANGED frame
     \/ mcause = "MCAUSE_CHERI" /\ IsThreadExit
        /\ outcome' = [behaviour |-> "ForceUnwind", reset |-> FALSE]
        /\ UNCHANGED frame
     \/ mcause = "MCAUSE_CHERI" /\ ~IsThreadExit
        /\ mtval.exceptionCode = "None"
        /\ outcome' = [behaviour |-> "InstallContext", reset |-> FALSE]
        /\ UNCHANGED frame
     \/ mcause = "MCAUSE_CHERI" /\ ~IsThreadExit
        /\ mtval.exceptionCode # "None"
        /\ IF thread = NetThread
             THEN /\ outcome' = [behaviour |-> "InstallContext", reset |-> TRUE]
                  /\ frame' = ReinstalledFrame
             ELSE /\ outcome' = [behaviour |-> "ForceUnwind", reset |-> TRUE]
                  /\ UNCHANGED frame
  /\ UNCHANGED <<thread, mcause, mtval, craAddress>>

\* The thread resumes (or another thread runs) and a later trap arrives.
NextTrap ==
  /\ outcome # Pending
  /\ thread' \in {NetThread, UserThread}
  /\ mcause' \in MCauses
  /\ mtval' \in [exceptionCode : CauseCodes, registerNumber : Registers]
  /\ craAddress' \in {0, 1}
  /\ frame' \in [pcc : {"faulting_pc"}, csp : 0..StackTop]
  /\ outcome' = Pending

Next == Handle \/ NextTrap

Spec == Init /\ [][Next]_vars

-----------------------------------------------------------------------------
(* The classification of section 4.1 and the outcomes of section 4.3 of    *)
(* the spec, stated independently of the code's branch order.              *)

SpecClass ==
  CASE mcause # "MCAUSE_CHERI" -> "OtherTrap"
    [] mtval.exceptionCode = "TagViolation" /\ mtval.registerNumber = "CRA"
       /\ craAddress = 0 /\ frame.csp = StackTop -> "ThreadExit"
    [] mtval.exceptionCode = "None" -> "BenignUnwind"
    [] OTHER -> "Corruption"

SpecOutcome ==
  CASE SpecClass = "BenignUnwind" -> [behaviour |-> "InstallContext", reset |-> FALSE]
    [] SpecClass = "Corruption" /\ thread = NetThread ->
         [behaviour |-> "InstallContext", reset |-> TRUE]
    [] SpecClass = "Corruption" -> [behaviour |-> "ForceUnwind", reset |-> TRUE]
    [] OTHER -> [behaviour |-> "ForceUnwind", reset |-> FALSE]

\* Every trap gets the recovery behaviour the spec gives its class, and the
\* stack is reset exactly for corruption: a thread leaving its entry point
\* or an unwind from a callee never resets it, a real fault always does.
ClassificationMatchesSpec ==
  outcome # Pending => outcome = SpecOutcome

\* After a corruption fault the network thread resumes at ip_thread_entry
\* with its stack pointer back at the top of its stack (section 4.3), so
\* repeated resets do not eat into its stack.
NetThreadRewound ==
  (outcome # Pending /\ outcome.reset /\ thread = NetThread) =>
    frame = [pcc |-> "ip_thread_entry", csp |-> StackTop]
=============================================================================

------------------------- MODULE RestartStateMachine -------------------------
(***************************************************************************)
(* What a reset of the TCP/IP compartment promises, without how it is done: *)
(* restartState goes NotRestarting -> Restarting -> Restarting |            *)
(* IpThreadKicked -> NotRestarting; user threads enter only while no reset *)
(* is in progress; the socket epoch advances exactly once per reset, once  *)
(* no user thread is left inside, and before the IP thread is kicked.      *)
(* NetStackReset implements it under a refinement mapping.                  *)
(***************************************************************************)
EXTENDS Naturals

CONSTANT Users \* user threads

VARIABLES
  phase,  \* "Idle", "Evacuating", "Reclaimed" (epoch advanced) or "Kicked"
  epoch,  \* currentSocketEpoch
  inside  \* user threads inside the compartment

vars == <<phase, epoch, inside>>

Init == phase = "Idle" /\ epoch = 0 /\ inside = {}

\* A user thread calls into the compartment; refused during a reset.
Enter(u) ==
  /\ phase = "Idle"
  /\ u \notin inside
  /\ inside' = inside \cup {u}
  /\ UNCHANGED <<phase, epoch>>

\* A user thread returns, fails out or is unwound, in any phase.
Leave(u) ==
  /\ u \in inside
  /\ inside' = inside \ {u}
  /\ UNCHANGED <<phase, epoch>>

\* The single NotRestarting -> Restarting transition of a reset; a user
\* thread that makes it stops counting as inside (leaving is {} when the IP
\* thread makes it).
Begin(leaving) ==
  /\ phase = "Idle"
  /\ phase' = "Evacuating"
  /\ inside' = inside \ leaving
  /\ UNCHANGED epoch

\* Reclaim: only once every user thread has left, the epoch advances.
Reclaim ==
  /\ phase = "Evacuating"
  /\ inside = {}
  /\ phase' = "Reclaimed"
  /\ epoch' = epoch + 1
  /\ UNCHANGED inside

\* restartState |= IpThreadKicked, then network_restart.
Kick ==
  /\ phase = "Reclaimed"
  /\ phase' = "Kicked"
  /\ UNCHANGED <<epoch, inside>>

\* The IP thread has re-initialised the stack and clears restartState.
Clear ==
  /\ phase = "Kicked"
  /\ phase' = "Idle"
  /\ UNCHANGED <<epoch, inside>>

Next ==
  \/ \E u \in Users : Enter(u) \/ Leave(u)
  \/ \E leaving \in {{}} \cup {{u} : u \in inside} : Begin(leaving)
  \/ Reclaim \/ Kick \/ Clear

Spec == Init /\ [][Next]_vars
=============================================================================

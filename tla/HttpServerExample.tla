------------------------- MODULE HttpServerExample -------------------------
(***************************************************************************)
(* example() of the HTTP server example compartment: start the stack,      *)
(* listen, then serve up to MaxClients connections, each one a receive and *)
(* a loop of network_socket_send calls until the reply is sent, then close *)
(* the client socket.  Results of the network API are chosen               *)
(* nondeterministically among what the API may return.                     *)
(***************************************************************************)
EXTENDS Integers

CONSTANTS
  MaxClients,  \* MaxClients (10 in the code)
  ToSend,      \* sizeof(reply) - 1
  SendErrors,  \* negative errno values network_socket_send may return
  SizeModulus  \* 2^w for size_t; the wrap below is the same for any w with
               \* SizeModulus > ToSend - e for every error e

ASSUME /\ MaxClients \in Nat \ {0}
       /\ ToSend \in Nat \ {0}
       /\ SendErrors \subseteq {e \in Int : e < 0}
       /\ \A e \in SendErrors : SizeModulus > ToSend - e

VARIABLES
  pc,
  clientsCounter, \* uint16_t clientsCounter
  sent,           \* size_t sent
  lastSend,       \* result of the last network_socket_send, as returned
  stale           \* the network stack was reset: every socket held is stale

vars == <<pc, clientsCounter, sent, lastSend, stale>>

\* Conversion of a ssize_t result to size_t.
ToSize(r) == r % SizeModulus

Init ==
  /\ pc = "Start"
  /\ clientsCounter = 0
  /\ sent = 0
  /\ lastSend = 0
  /\ stale = FALSE

\* network_start, then network_socket_listen_tcp; a null socket returns.
Listen ==
  /\ pc = "Start"
  /\ \E ok \in BOOLEAN : pc' = IF ok THEN "AcceptLoop" ELSE "Done"
  /\ UNCHANGED <<clientsCounter, sent, lastSend, stale>>

\* while (clientsCounter < MaxClients): accept; a failed accept continues
\* without counting.  Accept on a stale listening socket always fails.
Accept ==
  /\ pc = "AcceptLoop"
  /\ IF clientsCounter < MaxClients
       THEN \E ok \in IF stale THEN {FALSE} ELSE BOOLEAN :
              /\ pc' = IF ok THEN "Receive" ELSE "AcceptLoop"
              /\ clientsCounter' = IF ok THEN (clientsCounter + 1) % 65536
                                   ELSE clientsCounter
       ELSE pc' = "CloseListening" /\ UNCHANGED clientsCounter
  /\ UNCHANGED <<sent, lastSend, stale>>

\* network_socket_receive: data starts the send loop, anything else closes.
Receive ==
  /\ pc = "Receive"
  /\ \E received \in IF stale THEN {FALSE} ELSE BOOLEAN :
       pc' = IF received THEN "SendLoop" ELSE "Close"
  /\ sent' = 0
  /\ UNCHANGED <<clientsCounter, lastSend, stale>>

\* One iteration of while (sent < toSend).  sentThisCall is a size_t, so
\* the test sentThisCall >= 0 always holds and the break is unreachable.
SendIsOk(sentThisCall) == sentThisCall >= 0

Send ==
  /\ pc = "SendLoop"
  /\ IF sent < ToSend
       THEN \E r \in IF stale THEN SendErrors
                     ELSE (0..(ToSend - sent)) \cup SendErrors :
              /\ lastSend' = r
              /\ IF SendIsOk(ToSize(r))
                   THEN sent' = (sent + ToSize(r)) % SizeModulus
                        /\ UNCHANGED pc
                   ELSE pc' = "Close" /\ UNCHANGED sent
       ELSE pc' = "Close" /\ UNCHANGED <<sent, lastSend>>
  /\ UNCHANGED <<clientsCounter, stale>>

\* network_socket_close on the client socket; a failure (always, for a
\* stale socket) leaves the loop.
Close ==
  /\ pc = "Close"
  /\ \E ok \in IF stale THEN {FALSE} ELSE BOOLEAN :
       pc' = IF ok THEN "AcceptLoop" ELSE "CloseListening"
  /\ UNCHANGED <<clientsCounter, sent, lastSend, stale>>

\* Close the listening socket and compare heap quotas (both only log).
CloseListening ==
  /\ pc = "CloseListening"
  /\ pc' = "Done"
  /\ UNCHANGED <<clientsCounter, sent, lastSend, stale>>

\* example() has returned.
Terminated ==
  /\ pc = "Done"
  /\ UNCHANGED vars

\* A crash in the TCP/IP compartment resets the network stack
\* (reset_network_stack_state advances the socket epoch): the listening and
\* client sockets example() holds are stale from then on.
NetworkReset ==
  /\ pc \notin {"Start", "Done"}
  /\ ~stale
  /\ stale' = TRUE
  /\ UNCHANGED <<pc, clientsCounter, sent, lastSend>>

Serve == Listen \/ Accept \/ Receive \/ Send \/ Close \/ CloseListening

Next == Serve \/ NetworkReset \/ Terminated

Spec == Init /\ [][Next]_vars

-----------------------------------------------------------------------------
TypeOK ==
  /\ pc \in {"Start", "AcceptLoop", "Receive", "SendLoop", "Close",
             "CloseListening", "Done"}
  /\ clientsCounter \in 0..MaxClients
  /\ sent \in 0..(SizeModulus - 1)
  /\ lastSend \in (0..ToSend) \cup SendErrors
  /\ stale \in BOOLEAN

\* The send loop either sends the reply once, in order, or stops at the
\* first failed send ("Send failed" and break): within one connection the
\* count of bytes sent never goes down and never passes the reply's length.
\* A negative result converted to size_t breaks this: the count wraps, the
\* loop re-sends bytes already sent or stops believing all were sent.
SendProgressIsSound ==
  [][pc = "SendLoop" /\ pc' = "SendLoop" => sent <= sent' /\ sent' <= ToSend]_vars
=============================================================================

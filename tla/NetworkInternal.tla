--------------------------- MODULE NetworkInternal ---------------------------
(***************************************************************************)
(* The internal API the TCP/IP compartment exposes to the NetAPI           *)
(* compartment (network-internal.h): host resolution, socket creation and  *)
(* binding, TCP connect, and the socket-kind query.  The header declares   *)
(* the calls and states their contracts; each call is an action whose      *)
(* result is the one its comment gives, with what the comment leaves open  *)
(* (network errors, timeouts, the port the stack picks) chosen              *)
(* nondeterministically.  A reset of the compartment advances the socket   *)
(* epoch, after which every socket created before it is stale.             *)
(***************************************************************************)
EXTENDS Integers

CONSTANTS
  Hosts,          \* host names a caller may resolve
  HostFamilies,   \* [Hosts -> SUBSET {"IPv4", "IPv6"}]: what DNS answers for each
  Ports,          \* non-zero local ports a caller may request
  EphemeralPorts, \* ports the stack may pick when localPort is 0
  SocketIds,      \* sealed socket identities
  MaxEpoch        \* bound on the number of resets

ASSUME /\ HostFamilies \in [Hosts -> SUBSET {"IPv4", "IPv6"}]
       /\ \A p \in Ports \cup EphemeralPorts : p \in 1..65535
       /\ MaxEpoch \in Nat

\* ConnectionType (NetAPI.h)
ConnectionTypes == {"ConnectionTypeTCP", "ConnectionTypeUDP"}

\* SocketKind::protocol
Protocols == {"TCPIPv4", "UDPIPv4", "TCPIPv6", "UDPIPv6", "Invalid"}

NoSocket == "NoSocket"
NoHost == "NoHost"

VARIABLES
  created,    \* sockets handed out so far
  requested,  \* arguments of the network_socket_create_and_bind that made each socket
  bound,      \* the stack's record of each socket: [isIPv6, type, port, epoch]
  connected,  \* TCP sockets connected by network_socket_connect_tcp_internal
  epoch,      \* currentSocketEpoch
  lastCall    \* the most recent call and what it returned to the caller

vars == <<created, requested, bound, connected, epoch, lastCall>>

NoKind == [protocol |-> "Invalid", localPort |-> 0]
NoCall == [op |-> "none", socket |-> NoSocket, ret |-> 0, kind |-> NoKind,
           family |-> "None", useIPv6 |-> FALSE, host |-> NoHost,
           answered |-> FALSE]
NoRequest == [isIPv6 |-> FALSE, type |-> "ConnectionTypeTCP", localPort |-> 0,
              isListening |-> FALSE]
NoBinding == [isIPv6 |-> FALSE, type |-> "ConnectionTypeTCP", port |-> 0,
              epoch |-> 0]

-----------------------------------------------------------------------------
BoundPort(localPort, picked) == IF localPort # 0 THEN localPort ELSE picked

\* The SocketKind::protocol for a socket of a family and connection type.
ProtocolOf(isIPv6, type) ==
  CASE ~isIPv6 /\ type = "ConnectionTypeTCP" -> "TCPIPv4"
    [] ~isIPv6 /\ type = "ConnectionTypeUDP" -> "UDPIPv4"
    [] isIPv6 /\ type = "ConnectionTypeTCP" -> "TCPIPv6"
    [] isIPv6 /\ type = "ConnectionTypeUDP" -> "UDPIPv6"

\* A handle is valid only while the epoch it was created in is current.
IsValidSocket(s) == s \in created /\ bound[s].epoch = epoch

\* network_host_resolve: with useIPv6 an IPv6 address is looked for first,
\* falling back to IPv4; without it only IPv4 is looked for.
ResolveFamily(h, useIPv6) ==
  IF useIPv6 /\ "IPv6" \in HostFamilies[h] THEN "IPv6"
  ELSE IF "IPv4" \in HostFamilies[h] THEN "IPv4"
  ELSE "None"

-----------------------------------------------------------------------------
Init ==
  /\ created = {}
  /\ requested = [s \in SocketIds |-> NoRequest]
  /\ bound = [s \in SocketIds |-> NoBinding]
  /\ connected = {}
  /\ epoch = 0
  /\ lastCall = NoCall

\* network_host_resolve(hostname, useIPv6, outAddress): zero and an address
\* of the family found, or a negative value (no address, or a DNS error).
HostResolve ==
  /\ \E h \in Hosts, useIPv6 \in BOOLEAN, dnsOk \in BOOLEAN :
    LET family == IF dnsOk THEN ResolveFamily(h, useIPv6) ELSE "None"
    IN lastCall' = [NoCall EXCEPT !.op = "resolve", !.host = h,
                                  !.useIPv6 = useIPv6, !.family = family,
                                  !.answered = dnsOk,
                                  !.ret = IF family = "None" THEN -1 ELSE 0]
  /\ UNCHANGED <<created, requested, bound, connected, epoch>>

\* network_socket_create_and_bind(timeout, mallocCapability, isIPv6, type,
\* localPort, isListening): a sealed socket bound to localPort, or to a port
\* the stack picks when localPort is 0, stamped with the current epoch; or
\* null on failure (timeout, allocation failure).
CreateAndBind ==
  /\ \E isIPv6 \in BOOLEAN, type \in ConnectionTypes,
     localPort \in Ports \cup {0}, isListening \in BOOLEAN :
    \/ \E s \in SocketIds \ created, picked \in EphemeralPorts :
         LET port == BoundPort(localPort, picked)
         IN /\ requested' = [requested EXCEPT ![s] =
                 [isIPv6 |-> isIPv6, type |-> type, localPort |-> localPort,
                  isListening |-> isListening]]
            /\ bound' = [bound EXCEPT ![s] =
                 [isIPv6 |-> isIPv6, type |-> type, port |-> port,
                  epoch |-> epoch]]
            /\ created' = created \cup {s}
            /\ lastCall' = [NoCall EXCEPT !.op = "create", !.socket = s]
    \/ /\ lastCall' = [NoCall EXCEPT !.op = "create", !.ret = -1]
       /\ UNCHANGED <<created, requested, bound>>
  /\ UNCHANGED <<connected, epoch>>

\* network_socket_connect_tcp_internal(timeout, socket, address, port) on a
\* TCP socket: zero once connected, a negative value on failure or on a
\* stale handle.
ConnectTcp ==
  /\ \E s \in created, ok \in BOOLEAN :
    /\ requested[s].type = "ConnectionTypeTCP"
    /\ IF IsValidSocket(s) /\ ok
         THEN /\ connected' = connected \cup {s}
              /\ lastCall' = [NoCall EXCEPT !.op = "connect", !.socket = s]
         ELSE /\ lastCall' = [NoCall EXCEPT !.op = "connect", !.socket = s,
                                            !.ret = -1]
              /\ UNCHANGED connected
  /\ UNCHANGED <<created, requested, bound, epoch>>

\* network_socket_kind(socket, kind): zero with the socket's protocol and
\* its local port in host byte order, or a negative value and Invalid.
SocketKind ==
  /\ \E s \in created :
    lastCall' =
      IF IsValidSocket(s)
        THEN [NoCall EXCEPT !.op = "kind", !.socket = s,
                !.kind = [protocol |-> ProtocolOf(bound[s].isIPv6, bound[s].type),
                          localPort |-> bound[s].port]]
        ELSE [NoCall EXCEPT !.op = "kind", !.socket = s, !.ret = -1]
  /\ UNCHANGED <<created, requested, bound, connected, epoch>>

\* reset_network_stack_state: currentSocketEpoch++ once the compartment has
\* been evacuated.
Reset ==
  /\ epoch < MaxEpoch
  /\ epoch' = epoch + 1
  /\ lastCall' = NoCall
  /\ UNCHANGED <<created, requested, bound, connected>>

Next == HostResolve \/ CreateAndBind \/ ConnectTcp \/ SocketKind \/ Reset

Spec == Init /\ [][Next]_vars
-----------------------------------------------------------------------------
(* Properties                                                              *)

\* Types; a successful network_socket_kind reports a real protocol and a
\* non-zero local port, since a localPort of 0 asks the stack to pick one.
TypeOK ==
  /\ created \subseteq SocketIds
  /\ connected \subseteq created
  /\ epoch \in 0..MaxEpoch
  /\ lastCall.op \in {"none", "resolve", "create", "connect", "kind"}
  /\ lastCall.ret \in {0, -1}
  /\ lastCall.kind \in [protocol : Protocols \ {"Invalid"},
                        localPort : Ports \cup EphemeralPorts] \cup {NoKind}
=============================================================================

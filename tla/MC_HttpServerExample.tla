------------------------ MODULE MC_HttpServerExample ------------------------
EXTENDS HttpServerExample

\* One negative errno result of network_socket_send.
MCSendErrors == {-2}
=============================================================================

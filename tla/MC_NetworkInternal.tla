------------------------- MODULE MC_NetworkInternal -------------------------
EXTENDS NetworkInternal

\* One host with no address, one IPv4-only, one IPv6-only, one dual-stack.
MCHosts == {"none.example", "v4.example", "v6.example", "dual.example"}
MCHostFamilies ==
  [h \in MCHosts |->
     CASE h = "none.example" -> {}
       [] h = "v4.example" -> {"IPv4"}
       [] h = "v6.example" -> {"IPv6"}
       [] h = "dual.example" -> {"IPv4", "IPv6"}]
=============================================================================

------------------------------ MODULE MCTable ------------------------------
(* Five addresses: equal ports, and ports that collide modulo 4, the last  *)
(* ones next to the end of the array so that probes wrap.                  *)
EXTENDS SequentialTable

CONSTANTS ip1, ip2

MCKeys == {[port |-> p, ip |-> ip1] : p \in {0, 3, 4, 7}}
            \cup {[port |-> 3, ip |-> ip2]}
=============================================================================

----------------------------- MODULE MCServerList -----------------------------
(***************************************************************************)
(* ServerList on small instances: two servers on one host, one on another. *)
(***************************************************************************)
EXTENDS ServerList

CONSTANTS a1, a2, b1, hostA, hostB

ThreeServers == {a1, a2, b1}

Hosts == [a \in Address |-> IF a = b1 THEN hostB ELSE hostA]

FilterNoneOrA == {{}, {hostA}}
=============================================================================

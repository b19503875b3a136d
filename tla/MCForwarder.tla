----------------------------- MODULE MCForwarder -----------------------------
(***************************************************************************)
(* Forwarder on small instances.                                           *)
(***************************************************************************)
EXTENDS Forwarder, TLC

CONSTANTS c1, c2, c3, s1, s2, k1, k2, k3

(* Nobody is banned, or one address is.                                    *)
OneAddressBanned == {{}} \cup {{a} : a \in Addr}

OneClientBanned == {{}} \cup {{a} : a \in Client}

NobodyBanned == {{}}

Unrestricted == {{}}

TwoWhitelists == {{}, {s1}}

(* Clients are interchangeable, and so are sockets.                        *)
Symmetry == Permutations(Client) \cup Permutations(Sock)
=============================================================================

------------------------------ MODULE MCMasters ------------------------------
(***************************************************************************)
(* Masters on a small instance.                                            *)
(***************************************************************************)
EXTENDS Masters, TLC

CONSTANTS n1, n2, n3, a1, a2, a3

(* More names than slots, and a list that leaves one out.                  *)
TwoLists == {<<n1, n2, n3>>, <<n2>>}

(* All resolve; two to the same address; one of them not at all.           *)
SomeResolutions ==
  LET resolve(x, y, z) == (n1 :> x) @@ (n2 :> y) @@ (n3 :> z)
  IN  {resolve(a1, a2, a3), resolve(a1, a1, a3), resolve(NoAddr, a2, a3)}
=============================================================================

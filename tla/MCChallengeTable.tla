-------------------------- MODULE MCChallengeTable --------------------------
(***************************************************************************)
(* ChallengeTable, with its history, for more addresses than slots.        *)
(***************************************************************************)
EXTENDS ChallengeHistory, TLC

Symmetry == Permutations(Client)
=============================================================================

--------------------------- MODULE MCCommandBuffer ---------------------------
(***************************************************************************)
(* CommandBuffer on small instances.                                       *)
(***************************************************************************)
EXTENDS CommandBuffer

CONSTANTS a, b

(* An empty line, two commands, a quoted semicolon, and a text that only   *)
(* fits into an empty buffer.                                              *)
SomeInserted == {<<>>, <<a, Semi, b>>, <<Quote, Semi>>, <<a, b, a, b, a>>}

SomeAdded == {<<b, NL>>, <<a, Semi, b, NL>>}
=============================================================================

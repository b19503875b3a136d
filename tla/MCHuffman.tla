------------------------------ MODULE MCHuffman ------------------------------
(***************************************************************************)
(* Huffman on small instances: bytes of three bits.                        *)
(***************************************************************************)
EXTENDS Huffman
=============================================================================

--------------------------- MODULE MCRngTestDriver ---------------------------
(* Two threads on the same file or on two, memory for two contexts, so that  *)
(* a failed open leaves less, and requests of no, one and two words, the     *)
(* last not a multiple of the word; the generator holds one word.            *)
EXTENDS RngTestDriver
=============================================================================

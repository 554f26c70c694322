----------------------------- MODULE MCMemalloc -----------------------------
(* Two processes, two buffers and three entries, so that one entry may be   *)
(* orphaned; pages of two bytes and words of three bits, so that the        *)
(* largest size overflows PAGE_ALIGN.                                       *)
EXTENDS Memalloc, TLC

CONSTANTS f1, f2, b1, b2, e1, e2, e3

MCFiles == {f1, f2}
MCBufs == {b1, b2}
MCEntries == {e1, e2, e3}

Symmetry ==
    Permutations(MCFiles) \cup Permutations(MCBufs) \cup Permutations(MCEntries)
=============================================================================

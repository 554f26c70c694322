-------------------------- MODULE MCSccTestDriver --------------------------
(* Two processes, owner ids and slots: a slot can be freed and go to the   *)
(* other owner in the middle of a load.  Kernel memory for two key buffers *)
(* lets kmalloc fail after the leaks of two calls.                         *)
EXTENDS SccTestDriver, TLC

CONSTANTS p1, p2, s1, s2, o1, o2

MCProcs == {p1, p2}
MCSlots == {s1, s2}
MCOwners == {o1, o2}

Symmetry ==
    Permutations(MCProcs) \cup Permutations(MCSlots) \cup Permutations(MCOwners)
=============================================================================

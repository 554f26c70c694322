----------------------------- MODULE MCBufQueue -----------------------------
(* A ring of four slots and three buffer indices: the indices wrap several  *)
(* times and the queue is full and empty in turn.                           *)
EXTENDS BufQueue

MCValues == 0 .. 2

=============================================================================

-------------------------- MODULE MCScc2TestDriver --------------------------
(* Two processes that share one partition, the case in which the mutex      *)
(* matters, and two values to tell a current text from an old one.          *)
EXTENDS Scc2TestDriver
=============================================================================

---------------------------- MODULE MCVpuDecode ----------------------------
(* Two buffers for the VPU and two more, the program's default: the smallest *)
(* instance in which every buffer of the queue, dequeue and delayed-clear    *)
(* pipeline is in use at once.                                               *)
EXTENDS VpuDecode

=============================================================================

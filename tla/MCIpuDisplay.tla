---------------------------- MODULE MCIpuDisplay ----------------------------
(* Four buffers: three for three-field de-interlacing and one the VPU can     *)
(* write.  A stream is all progressive, all interlaced, or changes.           *)
EXTENDS IpuDisplay

SteadyStreams == {{FALSE}, {TRUE}}
AllStreams    == SteadyStreams \cup {{FALSE, TRUE}}

=============================================================================

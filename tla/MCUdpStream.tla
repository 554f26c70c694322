---------------------------- MODULE MCUdpStream ----------------------------
(* Three packets of one or two bytes, read one or two bytes at a time: a      *)
(* packet may fit, overlap two calls, or fill two of them.                    *)
EXTENDS UdpStream

AnyNetwork   == {{}, {"loss"}, {"reorder"}, {"dup"}}
LossyOnly    == {{"loss"}}
Reordering   == {{"reorder"}}

=============================================================================

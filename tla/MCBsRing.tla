------------------------------ MODULE MCBsRing ------------------------------
(* A ring of eight bytes filled in blocks of two or four bytes at a time, by *)
(* streams of up to twelve bytes: the ring wraps, and the stream ends        *)
(* before, at and behind the end of the ring.                                *)
EXTENDS BsRing

BothSources == {"file", "net"}
FileSource  == {"file"}
NetSource   == {"net"}
FillSizes   == {0, 4}

=============================================================================

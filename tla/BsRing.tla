------------------------------- MODULE BsRing -------------------------------
(***************************************************************************)
(* dec_fill_bsbuffer of test/mxc_vpu_test/dec.c: it copies bitstream from  *)
(* vpu_read (a file, or the UDP stream of module UdpStream) into the ring  *)
(* buffer the VPU reads, in two pieces where the ring wraps, and tells the *)
(* VPU how much was added or that the stream has ended.  The VPU consumes  *)
(* bytes at any time, also between the steps of a call.                    *)
(*                                                                         *)
(* The VPU library is external: vpu_DecGetBitstreamBuffer reports one byte *)
(* less than the free space, vpu_DecUpdateBitstreamBuffer(n) moves the     *)
(* write pointer, and an update of 0 bytes marks the end of the stream.    *)
(* Source bytes are numbered 1, 2, ...                                     *)
(***************************************************************************)
EXTENDS Integers, Sequences

CONSTANTS STREAM_BUF_SIZE,
          Block,        \* 512: the unit a fill of unspecified size rounds to
          Fills,        \* values of defaultsize; 0 asks for all that fits
          Sources,      \* subset of {"file", "net"}
          MaxBytes      \* bound on the length of the stream

ASSUME RingAssumption ==
    /\ STREAM_BUF_SIZE \in Nat \ {0}
    /\ Block \in Nat \ {0}
    /\ Fills \subseteq 0 .. STREAM_BUF_SIZE
    /\ Sources \subseteq {"file", "net"}
    /\ MaxBytes \in Nat

VARIABLES
    source, length, pos,     \* the stream and how much of it was read
    quitflag,
    ring, rd, wr, ended,     \* the VPU's buffer, pointers, end-of-stream mark
    fpc, size, nread,        \* where dec_fill_bsbuffer is, its locals
    eos, fill_end_bs,        \* its results
    committed, consumed      \* history: bytes added for and taken by the VPU

envVars == <<source, length, quitflag>>
vars == <<envVars, pos, ring, rd, wr, ended, fpc, size, nread, eos,
          fill_end_bs, committed, consumed>>

Addrs == 0 .. STREAM_BUF_SIZE - 1

Init ==
    /\ source \in Sources
    /\ length \in 0 .. MaxBytes
    /\ pos = 0
    /\ quitflag = FALSE
    /\ ring = [a \in Addrs |-> 0]
    /\ rd = 0
    /\ wr = 0
    /\ ended = FALSE
    /\ fpc = "idle"
    /\ size = 0
    /\ nread = 0
    /\ eos = FALSE
    /\ fill_end_bs = FALSE
    /\ committed = <<>>
    /\ consumed = <<>>

-----------------------------------------------------------------------------
(* The VPU                                                                 *)

Moved(ptr, k) == (ptr + k) % STREAM_BUF_SIZE

Occupied == (wr - rd) % STREAM_BUF_SIZE

space == STREAM_BUF_SIZE - Occupied - 1

Consume ==
    /\ rd # wr
    /\ consumed' = Append(consumed, ring[rd])
    /\ rd' = (rd + 1) % STREAM_BUF_SIZE
    /\ UNCHANGED <<envVars, pos, ring, wr, ended, fpc, size, nread, eos,
                   fill_end_bs, committed>>

-----------------------------------------------------------------------------
(* vpu_read: what a read of k bytes may return.  From the network, 0 is    *)
(* the end packet, or a timeout after the user has quit.                   *)

EAGAIN == -11

Smaller(a, b) == IF a < b THEN a ELSE b

ReadResults(k) ==
    IF source = "file"
    THEN {-1, Smaller(k, length - pos)}
    ELSE {-1, EAGAIN} \cup 1 .. Smaller(k, length - pos)
                     \cup {r \in {0} : pos = length \/ quitflag}

\* r bytes of the stream are stored from address a on
Store(a, r) ==
    /\ ring' = [b \in Addrs |-> IF b \in a .. a + r - 1 THEN pos + 1 + b - a
                                                        ELSE ring[b]]
    /\ pos' = pos + r

-----------------------------------------------------------------------------
(* dec_fill_bsbuffer(handle, cmd, ..., defaultsize, eos, fill_end_bs)      *)

FillStep == UNCHANGED <<envVars, rd, consumed>>

\* Mutant: a fill takes what it is asked for, whether or not there is space.
FillSizeUnchecked(defaultsize) ==
    IF defaultsize > 0 THEN defaultsize ELSE (space \div Block) * Block

\* How much to read; 0 returns at once: no space, or less than wanted.
FillSize(defaultsize) ==
    IF defaultsize = 0 THEN (space \div Block) * Block
    ELSE IF space < defaultsize THEN 0 ELSE defaultsize

FillBegin ==
    /\ fpc = "idle"
    /\ FillStep
    /\ eos' = FALSE
    /\ \E defaultsize \in Fills : size' = FillSize(defaultsize)
    /\ fpc' = IF size' = 0 THEN "idle" ELSE "first"
    /\ UNCHANGED <<pos, ring, wr, ended, nread, fill_end_bs, committed>>

Splits == wr + size > STREAM_BUF_SIZE
room   == STREAM_BUF_SIZE - wr

ReadStep == UNCHANGED <<wr, ended, size, fill_end_bs, committed>>

\* The read fails: no data yet returns 0 and the caller comes back, an error
\* returns -1 and the caller gives up.
ReadFails(r) ==
    /\ r < 0
    /\ fpc' = IF r = EAGAIN THEN "idle" ELSE "failed"
    /\ UNCHANGED <<pos, ring, nread, eos>>

\* Up to the end of the ring, or all of it if that fits.
ReadFirst ==
    /\ fpc = "first"
    /\ FillStep
    /\ ReadStep
    /\ \E r \in ReadResults(IF Splits THEN room ELSE size) :
          \/ ReadFails(r)
          \/ /\ r >= 0
             /\ Store(wr, r)
             /\ nread' = r
             /\ eos' = (r = 0)
             /\ fpc' = IF Splits /\ r = room THEN "second" ELSE "update"

\* Mutant: what the first read stored is not counted.
TotalReadSecondOnly(r) == r

\* nread += space
TotalRead(r) == nread + r

\* The rest, at the start of the ring.
ReadSecond ==
    /\ fpc = "second"
    /\ FillStep
    /\ ReadStep
    /\ \E r \in ReadResults(size - room) :
          \/ ReadFails(r)
          \/ /\ r >= 0
             /\ Store(0, r)
             /\ nread' = TotalRead(r)
             /\ eos' = (r = 0)
             /\ fpc' = "update"

\* Mutant: the end of the stream is not passed on to the VPU.
UpdateWithoutEnd ==
    /\ fpc = "update"
    /\ FillStep
    /\ wr' = Moved(wr, nread)
    /\ committed' = committed
          \o [k \in 1 .. nread |-> ring[Moved(wr, k - 1)]]
    /\ fill_end_bs' = eos
    /\ fpc' = "idle"
    /\ UNCHANGED <<pos, ring, ended, size, nread, eos>>

\* Mutant: a read shorter than asked for is taken for the end of the stream.
UpdateShortIsEnd ==
    /\ fpc = "update"
    /\ FillStep
    /\ wr' = Moved(wr, nread)
    /\ committed' = committed
          \o [k \in 1 .. nread |-> ring[Moved(wr, k - 1)]]
    /\ ended' = (ended \/ nread < size)
    /\ fill_end_bs' = eos
    /\ fpc' = "idle"
    /\ UNCHANGED <<pos, ring, size, nread, eos>>

\* vpu_DecUpdateBitstreamBuffer: the bytes read, or once the end mark.
Update ==
    /\ fpc = "update"
    /\ FillStep
    /\ IF eos
       THEN /\ ended' = TRUE
            /\ UNCHANGED <<wr, committed>>
       ELSE /\ wr' = Moved(wr, nread)
            /\ committed' = committed
                  \o [k \in 1 .. nread |-> ring[Moved(wr, k - 1)]]
            /\ UNCHANGED ended
    /\ fill_end_bs' = eos
    /\ fpc' = "idle"
    /\ UNCHANGED <<pos, ring, size, nread, eos>>

\* vpu_DecGetBitstreamBuffer or vpu_DecUpdateBitstreamBuffer fails: return -1.
VpuFail ==
    /\ fpc \in {"idle", "update"}
    /\ FillStep
    /\ eos' = (eos /\ fpc = "update")
    /\ fpc' = "failed"
    /\ UNCHANGED <<pos, ring, wr, ended, size, nread, fill_end_bs, committed>>

\* signal_thread
Quit ==
    /\ ~quitflag
    /\ quitflag' = TRUE
    /\ UNCHANGED <<source, length, pos, ring, rd, wr, ended, fpc, size, nread,
                   eos, fill_end_bs, committed, consumed>>

-----------------------------------------------------------------------------
Next ==
    \/ Consume \/ FillBegin \/ ReadFirst \/ ReadSecond \/ Update \/ VpuFail
    \/ Quit

Spec == Init /\ [][Next]_vars

\* The VPU decodes what it is given, and the decoder keeps filling until the
\* user quits.
FairSpec ==
    /\ Spec
    /\ WF_vars(Consume)
    /\ WF_vars(FillBegin) /\ WF_vars(ReadFirst) /\ WF_vars(ReadSecond)
    /\ WF_vars(Update)

-----------------------------------------------------------------------------
(* Properties.                                                             *)

\* Every variable keeps its type.
TypeOK ==
    /\ source \in Sources
    /\ length \in 0 .. MaxBytes
    /\ pos \in 0 .. length
    /\ quitflag \in BOOLEAN
    /\ ring \in [Addrs -> 0 .. length]
    /\ rd \in Addrs
    /\ wr \in Addrs
    /\ ended \in BOOLEAN
    /\ fpc \in {"idle", "first", "second", "update", "failed"}
    /\ size \in 0 .. STREAM_BUF_SIZE - 1
    /\ nread \in 0 .. STREAM_BUF_SIZE - 1
    /\ eos \in BOOLEAN
    /\ fill_end_bs \in BOOLEAN
    /\ committed \in Seq(1 .. length)
    /\ consumed \in Seq(1 .. length)

Unread == [k \in 1 .. Occupied |-> ring[(rd + k - 1) % STREAM_BUF_SIZE]]

\* A fill never overwrites what the VPU has yet to read, although the VPU's
\* read pointer moves during the call and the ring wraps: the bytes consumed
\* and the bytes in the ring are the bytes committed, in order.
RingIsFifo == consumed \o Unread = committed

\* The VPU never gets a byte twice or out of order, and from a file it gets
\* a prefix of the file: nothing is skipped where the ring wraps.
StreamInOrder ==
    /\ \A i, j \in 1 .. Len(committed) : i < j => committed[i] < committed[j]
    /\ source = "file" => \A i \in 1 .. Len(committed) : committed[i] = i

\* The end mark is only set when the source has no more data: a read from
\* the network that comes back short, late or empty-handed does not end the
\* stream.  (Once the user has quit, a timeout does: udp_recv then returns 0.)
EndMarkIsTrue == ended => pos = length \/ (source = "net" /\ quitflag)

\* The VPU gets all of a file and its end mark: the ring never blocks the
\* fill and no piece is left behind where the ring wraps, unless a call fails
\* or the user quits.  Excepted is a file that ends exactly where the ring
\* does, whose last piece the code may drop (see EndMarkAfterAllBytes).
ReachesEnd ==
    source = "file" =>
        <>(\/ fpc = "failed" \/ quitflag
           \/ /\ ended /\ rd = wr
              /\ Len(consumed) = length \/ length % STREAM_BUF_SIZE = 0)

\* "Stream is saved to file correctly" (doc/FSL-UT-VPU-002.txt): the whole
\* file was given to the VPU when its end is marked.
EndMarkAfterAllBytes == ended => Len(committed) = length

\* "Stream can be decoded successfully" (doc/FSL-UT-VPU-003.txt, with the
\* network stream of configs/config_net): no received byte is skipped.
NothingSkipped == \A i \in 1 .. Len(committed) : committed[i] = i

=============================================================================

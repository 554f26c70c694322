----------------------------- MODULE UdpStream -----------------------------
(***************************************************************************)
(* The bitstream over UDP of test/mxc_vpu_test/utils.c: the encoder side   *)
(* calls udp_send once for each piece of bitstream and once more with no   *)
(* data at the end; the decoder side calls udp_recv for n bytes at a time, *)
(* which drops packets out of sequence, keeps what does not fit the        *)
(* caller's buffer for the next call, and gives up after a 3 ms timeout.   *)
(*                                                                         *)
(* A byte is the pair <<seqno, position>>.  The network (external) keeps   *)
(* the order and loses nothing unless faults says so.                      *)
(***************************************************************************)
EXTENDS Integers, Sequences

CONSTANTS MaxPkts,     \* pieces of bitstream the encoder sends
          MaxLen,      \* longest piece
          MaxReq,      \* largest n asked of udp_recv
          MaxDups,     \* how often the network repeats a packet
          FaultSets    \* the networks: subsets of {"loss", "reorder", "dup"}

ASSUME UdpAssumption ==
    /\ MaxPkts \in Nat /\ MaxLen \in Nat \ {0} /\ MaxReq \in Nat \ {0}
    /\ MaxDups \in Nat
    /\ FaultSets \subseteq SUBSET {"loss", "reorder", "dup"}

VARIABLES
    faults,
    tx,              \* the sender: [seq_no, closed]
    net, dups,       \* packets in flight; how many were repeated
    seq_no, nlen, noffset, nbuf,   \* the receiver's struct cmd_line
    complete, quitflag,
    rpc,             \* "idle", "loop" inside udp_recv, "failed"
    n, nleft, ret,   \* udp_recv's argument, local and last result
    got,             \* what this call has put into the caller's buffer
    delivered,       \* history: what finished calls have delivered
    accepted,        \* history: the packets that passed the sequence test
    stream,          \* history: the bytes of the accepted packets, in order
    dropped          \* history: the packets that did not

rxVars  == <<seq_no, nlen, noffset, nbuf>>
callVars == <<complete, rpc, n, nleft, ret>>
history == <<delivered, accepted, stream, dropped>>
vars == <<faults, tx, net, dups, rxVars, quitflag, callVars, got, history>>

\* Result codes: bytes read, -1 for an error, -11 for -EAGAIN.
EAGAIN == -11

Bytes(p) == [k \in 1 .. p.len |-> <<p.seqno, k>>]

Packets == [seqno : 0 .. MaxPkts - 1, len : 1 .. MaxLen, iframe : {FALSE},
            key : BOOLEAN]
EndPacket == [seqno |-> -1, len |-> 0, iframe |-> FALSE, key |-> FALSE]

Init ==
    /\ faults \in FaultSets
    /\ tx = [seq_no |-> 0, closed |-> FALSE]
    /\ net = <<>>
    /\ dups = 0
    /\ seq_no = 0
    /\ nlen = 0
    /\ noffset = 0
    /\ nbuf = EndPacket
    /\ complete = FALSE
    /\ quitflag = FALSE
    /\ rpc = "idle"
    /\ n = 0
    /\ nleft = 0
    /\ ret = EAGAIN
    /\ got = <<>>
    /\ delivered = <<>>
    /\ accepted = <<>>
    /\ stream = <<>>
    /\ dropped = {}

-----------------------------------------------------------------------------
(* udp_send.  key says whether the piece begins an I frame; the header's   *)
(* iframe is cmd->iframe, which the program never sets.                    *)

SendStep == UNCHANGED <<faults, rxVars, quitflag, callVars, got, history>>

Send ==
    /\ SendStep
    /\ ~tx.closed
    /\ tx.seq_no < MaxPkts
    /\ tx' = [tx EXCEPT !.seq_no = @ + 1]
    /\ UNCHANGED dups
    /\ \E len \in 1 .. MaxLen, key \in BOOLEAN :
          net' = Append(net, [seqno |-> tx.seq_no, len |-> len,
                              iframe |-> FALSE, key |-> key])

\* vpu_write(cmdl, NULL, 0): "no more frames will be sent"
SendEnd ==
    /\ SendStep
    /\ ~tx.closed
    /\ tx' = [tx EXCEPT !.closed = TRUE]
    /\ UNCHANGED dups
    /\ net' = Append(net, EndPacket)

-----------------------------------------------------------------------------
(* The network                                                             *)

Without(s, i) == SubSeq(s, 1, i - 1) \o SubSeq(s, i + 1, Len(s))

Lose ==
    /\ "loss" \in faults
    /\ \E i \in 1 .. Len(net) : net' = Without(net, i)
    /\ UNCHANGED <<tx, dups>>
    /\ SendStep

Duplicate ==
    /\ "dup" \in faults
    /\ dups < MaxDups
    /\ dups' = dups + 1
    /\ \E i \in 1 .. Len(net) : net' = <<net[i]>> \o net
    /\ UNCHANGED tx
    /\ SendStep

Arrivals == IF "reorder" \in faults THEN 1 .. Len(net)
                                    ELSE 1 .. (IF net = <<>> THEN 0 ELSE 1)

-----------------------------------------------------------------------------
(* udp_recv(cmd, sd, buf, n)                                               *)

\* return r, of which the bytes in g are delivered
Return(r, g) ==
    /\ ret' = r
    /\ delivered' = delivered \o g
    /\ got' = <<>>
    /\ rpc' = "idle"

CallStep == UNCHANGED <<faults, tx, net, dups, seq_no, nbuf, quitflag, accepted,
                        stream, dropped>>

\* The bytes kept from the last packet.
Residue == IF nlen > 0 THEN SubSeq(Bytes(nbuf), noffset + 1, noffset + nlen)
                       ELSE <<>>

\* "No more data to be received"
CallAfterEnd(req) ==
    /\ nlen = -1
    /\ Return(0, <<>>)
    /\ UNCHANGED <<nlen, noffset, nleft>>

CallFromResidue(req) ==
    /\ nlen > req
    /\ Return(req, SubSeq(Residue, 1, req))
    /\ nlen' = nlen - req
    /\ noffset' = noffset + req
    /\ UNCHANGED nleft

\* Take the whole residue, if any, and wait for the rest.
CallAndWait(req) ==
    /\ nlen \in 0 .. req
    /\ nleft' = req - nlen
    /\ nlen' = 0
    /\ IF nlen = req
       THEN Return(req, Residue)
       ELSE /\ got' = Residue
            /\ rpc' = "loop"
            /\ UNCHANGED <<ret, delivered>>
    /\ UNCHANGED noffset

Call ==
    /\ rpc = "idle"
    /\ CallStep
    /\ \E req \in 1 .. MaxReq :
          /\ n' = req
          /\ CallAfterEnd(req) \/ CallFromResidue(req) \/ CallAndWait(req)
    /\ complete' \in BOOLEAN

WaitStep == UNCHANGED <<faults, tx, dups, quitflag, complete, n>>

\* Mutant: a timeout with nothing received reads as the end of the file.
TimeoutReturnZero == Return(Len(got), got)

\* What a timeout returns unless the call wants the buffer complete.
TimeoutReturn ==
    IF quitflag \/ got # <<>>
    THEN Return(Len(got), got)
    ELSE Return(EAGAIN, <<>>)

\* select times out.  With complete set only quitflag ends the call.
Timeout ==
    /\ rpc = "loop"
    /\ WaitStep
    /\ quitflag \/ ~complete
    /\ TimeoutReturn
    /\ UNCHANGED <<net, rxVars, nleft, accepted, stream, dropped>>

\* select or recvfrom fails: the caller gives the stream up.
RecvFail ==
    /\ rpc = "loop"
    /\ WaitStep
    /\ ret' = -1
    /\ rpc' = "failed"
    /\ UNCHANGED <<net, rxVars, nleft, got, history>>

\* Mutant: the end of the stream is not remembered for the next call.
RecvEndForgotten(p) ==
    /\ p.len = 0
    /\ Return(Len(got), got)
    /\ UNCHANGED <<seq_no, nlen, noffset, nleft, accepted, stream, dropped>>

\* A packet of length 0: no more data will be received.
RecvEnd(p) ==
    /\ p.len = 0
    /\ nlen' = -1
    /\ Return(Len(got), got)
    /\ UNCHANGED <<seq_no, noffset, nleft, accepted, stream, dropped>>

InSequence(p) == seq_no = p.seqno

Accepts(p) == InSequence(p) \/ p.iframe

\* cmd->seq_no++ happens whether or not the packet is in sequence.
RecvDrop(p) ==
    /\ p.len > 0
    /\ ~Accepts(p)
    /\ seq_no' = seq_no + 1
    /\ dropped' = dropped \cup {p}
    /\ UNCHANGED <<nlen, noffset, nleft, rpc, ret, got, delivered, accepted,
                   stream>>

Smaller(a, b) == IF a < b THEN a ELSE b

\* Mutant: the position of the rest of the packet is not remembered.
OffsetForgotten(p) == 0

\* nremain, and the offset of what stays in nbuf (behind the header)
nremain(p) == Smaller(p.len, nleft)
OffsetOfRest(p) == nleft

\* Mutant: the expected number stays that of the packet just accepted.
SeqAfterSame(p) == p.seqno

SeqAfter(p) == p.seqno + 1

RecvAccept(p) ==
    /\ p.len > 0
    /\ Accepts(p)
    /\ seq_no' = SeqAfter(p)
    /\ accepted' = Append(accepted, p)
    /\ stream' = stream \o Bytes(p)
    /\ nleft' = nleft - nremain(p)
    /\ IF p.len > nleft
       THEN /\ nlen' = p.len - nleft
            /\ noffset' = OffsetOfRest(p)
       ELSE UNCHANGED <<nlen, noffset>>
    /\ LET g == got \o SubSeq(Bytes(p), 1, nremain(p)) IN
          IF nleft' > 0
          THEN /\ got' = g
               /\ UNCHANGED <<rpc, ret, delivered>>
          ELSE Return(n, g)
    /\ UNCHANGED dropped

Recv ==
    /\ rpc = "loop"
    /\ WaitStep
    /\ \E i \in Arrivals :
          /\ net' = Without(net, i)
          /\ nbuf' = net[i]
          /\ RecvEnd(net[i]) \/ RecvDrop(net[i]) \/ RecvAccept(net[i])

Quit ==
    /\ ~quitflag
    /\ quitflag' = TRUE
    /\ UNCHANGED <<faults, tx, net, dups, rxVars, callVars, got, history>>

-----------------------------------------------------------------------------
Next ==
    \/ Send \/ SendEnd \/ Lose \/ Duplicate
    \/ Call \/ Timeout \/ RecvFail \/ Recv \/ Quit

Spec == Init /\ [][Next]_vars

\* The encoder ends the stream, the decoder keeps asking, and a packet that
\* is in flight arrives.
FairSpec ==
    /\ Spec
    /\ WF_vars(SendEnd)
    /\ WF_vars(Call)
    /\ SF_vars(Recv)

-----------------------------------------------------------------------------
(* Properties.                                                             *)

\* Every variable keeps its type; in particular no call copies more than the
\* caller's buffer holds.
TypeOK ==
    /\ faults \in FaultSets
    /\ tx \in [seq_no : 0 .. MaxPkts, closed : BOOLEAN]
    /\ net \in Seq(Packets \cup {EndPacket})
    /\ dups \in 0 .. MaxDups
    /\ seq_no \in Nat
    /\ nlen \in -1 .. MaxLen
    /\ noffset \in 0 .. MaxLen
    /\ nbuf \in Packets \cup {EndPacket}
    /\ complete \in BOOLEAN
    /\ quitflag \in BOOLEAN
    /\ rpc \in {"idle", "loop", "failed"}
    /\ n \in 0 .. MaxReq
    /\ nleft \in 0 .. MaxReq
    /\ ret \in 0 .. MaxReq \cup {-1, EAGAIN}
    /\ Len(got) + nleft <= n \/ rpc # "loop"
    /\ accepted \in Seq(Packets)
    /\ dropped \subseteq Packets

\* Splitting packets over calls loses, repeats and reorders nothing: what the
\* calls delivered, the open call holds and nbuf keeps are together exactly
\* the bytes of the accepted packets.
CopiesEveryByte == delivered \o got \o Residue = stream

\* What the sequence test makes of a network that only loses packets: a prefix
\* of what was sent is accepted and nothing behind the first loss, since no
\* packet is ever marked as an I frame.  The comment in udp_recv ("read till
\* we get an I frame") means the stream to resume; see IFrameEndsGap.
LossKeepsPrefix ==
    faults \subseteq {"loss"} =>
        \A i \in 1 .. Len(accepted) : accepted[i].seqno = i - 1

\* Not even a network that repeats and reorders packets makes the receiver
\* go back: no piece of bitstream is accepted twice or behind a later one.
NeverGoesBack ==
    \A i, j \in 1 .. Len(accepted) :
        i < j => accepted[i].seqno < accepted[j].seqno

\* udp_recv says "end of file" (0) only when the sender has finished and all
\* its packets have been delivered, if the network is sound and nobody quits.
EndMeansAll ==
    ret = 0 /\ faults = {} /\ ~quitflag =>
        tx.closed /\ Len(accepted) = tx.seq_no /\ dropped = {}

\* Over a sound network a decoder that keeps reading gets to the end of the
\* stream, however its requests and the packets are sized.
ReachesEnd ==
    (faults = {}) ~> (ret = 0 \/ rpc = "failed" \/ quitflag)

\* Behind a gap in the sequence, the stream goes on at an I frame only
\* (udp_recv: "read till we get an I frame").
GapEndsAtIFrame ==
    \A i \in 1 .. Len(accepted) - 1 :
        \/ accepted[i + 1].seqno = accepted[i].seqno + 1
        \/ accepted[i + 1].key

\* "read till we get an I frame" (udp_recv): the packet that begins an I
\* frame is not one of those skipped behind a gap.
IFrameEndsGap == \A p \in dropped : ~p.key

=============================================================================

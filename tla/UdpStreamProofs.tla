-------------------------- MODULE UdpStreamProofs --------------------------
(***************************************************************************)
(* What udp_send and udp_recv guarantee for any number and length of       *)
(* packets, any request sizes and any of the networks.                     *)
(***************************************************************************)
EXTENDS UdpStream, SequenceTheorems, TLAPS

Any == Packets \cup {EndPacket}

\* Between calls of udp_recv the rest in nbuf lies inside the packet; inside
\* a call there is no rest and the request is positive.
CallOK ==
    /\ got \in Seq(Int \X Int)
    /\ rpc # "idle" => nlen = 0
    /\ rpc = "loop" => n > 0
    /\ nlen > 0 => nbuf \in Packets /\ noffset + nlen <= nbuf.len

\* Everything accepted is behind the number expected next.
Order ==
    /\ \A i \in 1 .. Len(accepted) : accepted[i].seqno < seq_no
    /\ NeverGoesBack

\* A network that only loses keeps the packets in flight ascending.  While
\* none was dropped they begin at the number expected; afterwards all of them
\* are beyond it, and stay beyond it.
Data(i) == net[i].len > 0

Ascending ==
    \A i, j \in 1 .. Len(net) :
        i < j /\ Data(i) /\ Data(j) => net[i].seqno < net[j].seqno

BelowSender ==
    \A i \in 1 .. Len(net) : Data(i) => net[i].seqno < tx.seq_no

NothingDropped ==
    dropped = {} =>
        /\ Len(accepted) = seq_no
        /\ seq_no <= tx.seq_no
        /\ \A i \in 1 .. Len(net) : Data(i) => seq_no <= net[i].seqno

BeyondExpected ==
    dropped # {} =>
        /\ seq_no < tx.seq_no
        /\ \A i \in 1 .. Len(net) : Data(i) => seq_no < net[i].seqno

LossInv ==
    /\ LossKeepsPrefix
    /\ faults \subseteq {"loss"} =>
          Ascending /\ BelowSender /\ NothingDropped /\ BeyondExpected

\* A sound network holds exactly the packets sent and not yet received, the
\* end packet last.
SoundInv ==
    faults = {} =>
        /\ dropped = {}
        /\ Len(accepted) = seq_no
        /\ seq_no <= tx.seq_no
        /\ nlen = -1 => tx.closed /\ Len(net) = 0 /\ seq_no = tx.seq_no
        /\ nlen # -1 =>
              /\ Len(net) = tx.seq_no - seq_no + (IF tx.closed THEN 1 ELSE 0)
              /\ \A i \in 1 .. tx.seq_no - seq_no :
                    Data(i) /\ net[i].seqno = seq_no + i - 1
              /\ tx.closed => net[Len(net)].len = 0

\* The result 0 comes from the end packet or from quitting.
ZeroInv == ret = 0 /\ ~quitflag => nlen = -1

IInv == TypeOK /\ CallOK /\ Order /\ LossInv /\ SoundInv /\ ZeroInv

-----------------------------------------------------------------------------
(* Operators                                                               *)

\* Without removes the i-th packet and keeps the order of the others.
LEMMA WithoutProperties ==
    ASSUME NEW S, NEW s \in Seq(S), NEW i \in 1 .. Len(s)
    PROVE  /\ Without(s, i) \in Seq(S)
           /\ Len(Without(s, i)) = Len(s) - 1
           /\ \A k \in 1 .. Len(s) - 1 :
                 Without(s, i)[k] = IF k < i THEN s[k] ELSE s[k + 1]
  <1> DEFINE a == SubSeq(s, 1, i - 1)
             b == SubSeq(s, i + 1, Len(s))
  <1>1. a \in Seq(S) /\ Len(a) = i - 1
        /\ \A k \in 1 .. i - 1 : a[k] = s[k]
    OBVIOUS
  <1>2. b \in Seq(S) /\ Len(b) = Len(s) - i
        /\ \A k \in 1 .. Len(s) - i : b[k] = s[k + i]
    OBVIOUS
  <1> HIDE DEF a, b
  <1>3. a \o b \in Seq(S) /\ Len(a \o b) = Len(s) - 1
    <2>1. Len(a) + Len(b) = Len(s) - 1
      BY <1>1, <1>2
    <2> QED BY <1>1, <1>2, <2>1, ConcatProperties
  <1>4. ASSUME NEW k \in 1 .. Len(s) - 1
        PROVE  (a \o b)[k] = IF k < i THEN s[k] ELSE s[k + 1]
    BY <1>1, <1>2
  <1> QED BY <1>3, <1>4 DEF Without, a, b

\* A packet of the network: data packets are never marked as I frames.
LEMMA PacketFacts ==
    ASSUME NEW p \in Any
    PROVE  /\ p.len \in 0 .. MaxLen
           /\ ~p.iframe
           /\ p.len > 0 => p \in Packets /\ p.seqno \in 0 .. MaxPkts - 1
  <1>1. CASE p \in Packets
    <2>1. p.len \in 1 .. MaxLen /\ p.iframe \in {FALSE}
          /\ p.seqno \in 0 .. MaxPkts - 1
      BY <1>1 DEF Packets
    <2>2. ~p.iframe
      BY <2>1, Zenon
    <2> QED BY <1>1, <2>1, <2>2, UdpAssumption
  <1>2. CASE p = EndPacket
    <2>1. p.len = 0 /\ p.iframe = FALSE
      BY <1>2, Zenon DEF EndPacket
    <2> QED BY <2>1, UdpAssumption
  <1> QED BY <1>1, <1>2 DEF Any

\* The fields of the packets in flight are numbers.
LEMMA NetNumbers ==
    ASSUME NEW s \in Seq(Any)
    PROVE  \A i \in 1 .. Len(s) :
              s[i] \in Any /\ s[i].len \in Nat /\ s[i].seqno \in Int
  <1>1. ASSUME NEW p \in Any PROVE p.len \in Nat /\ p.seqno \in Int
    <2>1. CASE p \in Packets
      BY <2>1, UdpAssumption DEF Packets
    <2>2. CASE p = EndPacket
      BY <2>2 DEF EndPacket
    <2> QED BY <2>1, <2>2 DEF Any
  <1> QED BY <1>1

\* The sender's two fields.
LEMMA Sender ==
    ASSUME TypeOK
    PROVE  /\ tx.seq_no \in 0 .. MaxPkts /\ tx.closed \in BOOLEAN
           /\ tx.seq_no \in Nat
           /\ tx = [seq_no |-> tx.seq_no, closed |-> tx.closed]
  BY UdpAssumption DEF TypeOK

\* The bytes of a packet and the part of them that udp_recv copies.
LEMMA BytesOf ==
    ASSUME NEW p \in Packets, NEW k \in Nat, NEW m \in Nat, k + m <= p.len
    PROVE  /\ SubSeq(Bytes(p), k + 1, k + m) \in Seq(Int \X Int)
           /\ Len(SubSeq(Bytes(p), k + 1, k + m)) = m
  <1>1. p.len \in Nat /\ p.seqno \in Int
    BY UdpAssumption DEF Packets
  <1>2. Bytes(p) \in Seq(Int \X Int) /\ Len(Bytes(p)) = p.len
    BY <1>1 DEF Bytes
  <1> QED BY <1>1, <1>2

-----------------------------------------------------------------------------
(* The invariant                                                           *)

LEMMA InitInv == Init => IInv
  <1> SUFFICES ASSUME Init PROVE IInv
    OBVIOUS
  <1>1. TypeOK
    <2>1. tx \in [seq_no : 0 .. MaxPkts, closed : BOOLEAN]
      BY UdpAssumption DEF Init
    <2>2. nbuf \in Packets \cup {EndPacket}
      BY DEF Init
    <2>3. ret \in 0 .. MaxReq \cup {-1, EAGAIN}
      BY DEF Init
    <2>4. /\ dups \in 0 .. MaxDups /\ seq_no \in Nat /\ nlen \in -1 .. MaxLen
          /\ noffset \in 0 .. MaxLen /\ n \in 0 .. MaxReq
          /\ nleft \in 0 .. MaxReq
      BY UdpAssumption DEF Init
    <2>5. /\ net \in Seq(Packets \cup {EndPacket})
          /\ accepted \in Seq(Packets) /\ dropped \subseteq Packets
      BY DEF Init
    <2>6. /\ rpc # "loop" /\ rpc \in {"idle", "loop", "failed"}
          /\ complete \in BOOLEAN /\ quitflag \in BOOLEAN
          /\ faults \in FaultSets
      BY DEF Init
    <2> QED BY <2>1, <2>2, <2>3, <2>4, <2>5, <2>6 DEF TypeOK
  <1>2. CallOK /\ ZeroInv
    BY DEF Init, CallOK, ZeroInv, EAGAIN
  <1>3. Order /\ LossKeepsPrefix
    BY DEF Init, Order, NeverGoesBack, LossKeepsPrefix
  <1>4. tx.seq_no = 0 /\ ~tx.closed /\ Len(net) = 0 /\ Len(accepted) = 0
    BY DEF Init
  <1>5. LossInv
    BY <1>3, <1>4 DEF Init, LossInv, Ascending, BelowSender, NothingDropped,
                      BeyondExpected
  <1>6. SoundInv
    BY <1>4 DEF Init, SoundInv
  <1> QED BY <1>1, <1>2, <1>3, <1>5, <1>6 DEF IInv

\* udp_send appends one packet, numbered with the sender's count.
LEMMA SendInv == IInv /\ Send => IInv'
  <1> SUFFICES ASSUME IInv, Send PROVE IInv'
    OBVIOUS
  <1> USE DEF IInv
  <1>1. PICK len \in 1 .. MaxLen, key \in BOOLEAN :
           net' = Append(net, [seqno |-> tx.seq_no, len |-> len,
                               iframe |-> FALSE, key |-> key])
    BY DEF Send
  <1> DEFINE p == [seqno |-> tx.seq_no, len |-> len,
                   iframe |-> FALSE, key |-> key]
  <1>u. /\ UNCHANGED <<faults, rxVars, quitflag, callVars, got, history, dups>>
        /\ tx' = [tx EXCEPT !.seq_no = @ + 1]
        /\ ~tx.closed /\ tx.seq_no < MaxPkts
    BY DEF Send, SendStep
  <1>2. p \in Packets /\ p.len = len /\ p.seqno = tx.seq_no /\ len > 0
    <2>1. tx.seq_no \in 0 .. MaxPkts - 1
      BY <1>u, Sender, UdpAssumption
    <2> QED BY <2>1, UdpAssumption DEF Packets
  <1>3. /\ tx' \in [seq_no : 0 .. MaxPkts, closed : BOOLEAN]
        /\ tx'.seq_no = tx.seq_no + 1 /\ ~tx'.closed
        /\ tx.seq_no \in Nat
    <2>1. tx' = [seq_no |-> tx.seq_no + 1, closed |-> tx.closed]
      BY <1>u, Sender
    <2>2. tx.seq_no + 1 \in 0 .. MaxPkts
      BY <1>u, Sender, UdpAssumption
    <2> QED BY <1>u, <2>1, <2>2, Sender
  <1> HIDE DEF p
  <1>4. /\ net \in Seq(Any) /\ net' \in Seq(Any) /\ Len(net') = Len(net) + 1
        /\ \A i \in 1 .. Len(net) : net'[i] = net[i]
        /\ net'[Len(net) + 1] = p
    BY <1>1, <1>2 DEF TypeOK, Any, p
  <1>n. /\ \A i \in 1 .. Len(net) : Data(i)' <=> Data(i)
        /\ \A i \in 1 .. Len(net) : net[i].seqno \in Int
        /\ Len(net) \in Nat /\ seq_no \in Nat
        /\ \A i \in 1 .. Len(net') :
              \/ i \in 1 .. Len(net)
              \/ i = Len(net) + 1 /\ Data(i)' /\ net'[i].seqno = tx.seq_no
    BY <1>2, <1>4, NetNumbers DEF Data, TypeOK
  <1>5. TypeOK'
    BY <1>u, <1>3, <1>4 DEF TypeOK, rxVars, callVars, history, Any
  <1>6. CallOK' /\ Order' /\ ZeroInv' /\ LossKeepsPrefix'
    BY <1>u DEF CallOK, Order, NeverGoesBack, ZeroInv, LossInv, LossKeepsPrefix,
                rxVars, callVars, history
  <1>7. LossInv'
    <2> SUFFICES ASSUME faults \subseteq {"loss"}
                 PROVE  (Ascending /\ BelowSender /\ NothingDropped
                         /\ BeyondExpected)'
      BY <1>u, <1>6 DEF LossInv
    <2>0. Ascending /\ BelowSender
      BY DEF LossInv
    <2>b. BelowSender'
      BY <2>0, <1>3, <1>4, <1>n DEF BelowSender
    <2>a. ASSUME NEW i \in 1 .. Len(net'), NEW j \in 1 .. Len(net'), i < j,
                 Data(i)', Data(j)'
          PROVE  net'[i].seqno < net'[j].seqno
      <3>1. i \in 1 .. Len(net) /\ net'[i] = net[i] /\ Data(i)
        BY <2>a, <1>4, <1>n
      <3>2. CASE j \in 1 .. Len(net)
        BY <3>1, <3>2, <2>a, <2>0, <1>4, <1>n DEF Ascending
      <3>3. CASE j = Len(net) + 1 /\ net'[j].seqno = tx.seq_no
        BY <3>1, <3>3, <2>0 DEF BelowSender
      <3> QED BY <3>2, <3>3, <1>n
    <2>1. Ascending' /\ BelowSender'
      BY <2>a, <2>b DEF Ascending
    <2>2. NothingDropped' /\ BeyondExpected'
      BY <1>u, <1>3, <1>4, <1>n
         DEF LossInv, NothingDropped, BeyondExpected, rxVars, history
    <2> QED BY <2>1, <2>2
  <1>8. SoundInv'
    <2> SUFFICES ASSUME faults = {} PROVE SoundInv'
      BY <1>u DEF SoundInv
    <2>1. /\ nlen' # -1 /\ dropped' = {} /\ Len(accepted') = seq_no'
          /\ seq_no' = seq_no /\ seq_no <= tx.seq_no
          /\ Len(net) = tx.seq_no - seq_no
          /\ \A i \in 1 .. tx.seq_no - seq_no :
                Data(i) /\ net[i].seqno = seq_no + i - 1
      BY <1>u, <1>n, Sender DEF SoundInv, rxVars, callVars, history
    <2>2. /\ seq_no' <= tx'.seq_no
          /\ Len(net') = tx'.seq_no - seq_no'
      BY <2>1, <1>3, <1>4, <1>n
    <2>3. ASSUME NEW i \in 1 .. tx'.seq_no - seq_no'
          PROVE  Data(i)' /\ net'[i].seqno = seq_no' + i - 1
      <3>1. i \in 1 .. Len(net')
        BY <2>2
      <3>2. CASE i \in 1 .. Len(net)
        BY <3>2, <2>1, <1>4, <1>n
      <3>3. CASE i = Len(net) + 1 /\ Data(i)' /\ net'[i].seqno = tx.seq_no
        BY <3>3, <2>1, <1>3, <1>n
      <3> QED BY <3>1, <3>2, <3>3, <1>n
    <2> QED BY <2>1, <2>2, <2>3, <1>3, <1>n DEF SoundInv
  <1> QED BY <1>5, <1>6, <1>7, <1>8

\* The packet that ends the stream carries no data.
LEMMA SendEndInv == IInv /\ SendEnd => IInv'
  <1> SUFFICES ASSUME IInv, SendEnd PROVE IInv'
    OBVIOUS
  <1> USE DEF IInv
  <1>u. /\ UNCHANGED <<faults, rxVars, quitflag, callVars, got, history, dups>>
        /\ tx' = [tx EXCEPT !.closed = TRUE]
        /\ ~tx.closed
        /\ net' = Append(net, EndPacket)
    BY DEF SendEnd, SendStep
  <1>2. EndPacket.len = 0
    BY DEF EndPacket
  <1>3. /\ tx' \in [seq_no : 0 .. MaxPkts, closed : BOOLEAN]
        /\ tx'.seq_no = tx.seq_no /\ tx'.closed
        /\ tx.seq_no \in Nat
    <2>1. tx' = [seq_no |-> tx.seq_no, closed |-> TRUE]
      BY <1>u, Sender
    <2> QED BY <2>1, Sender
  <1>4. /\ net \in Seq(Any) /\ net' \in Seq(Any) /\ Len(net') = Len(net) + 1
        /\ \A i \in 1 .. Len(net) : net'[i] = net[i]
        /\ net'[Len(net) + 1] = EndPacket
    BY <1>u DEF TypeOK, Any
  <1>n. /\ \A i \in 1 .. Len(net) : Data(i)' <=> Data(i)
        /\ \A i \in 1 .. Len(net) : net[i].seqno \in Int
        /\ Len(net) \in Nat /\ seq_no \in Nat
        /\ \A i \in 1 .. Len(net') : Data(i)' => i \in 1 .. Len(net)
    BY <1>2, <1>4, NetNumbers DEF Data, TypeOK
  <1>5. TypeOK'
    BY <1>u, <1>3, <1>4 DEF TypeOK, rxVars, callVars, history, Any
  <1>6. CallOK' /\ Order' /\ ZeroInv' /\ LossKeepsPrefix'
    BY <1>u DEF CallOK, Order, NeverGoesBack, ZeroInv, LossInv, LossKeepsPrefix,
                rxVars, callVars, history
  <1>7. LossInv'
    <2> SUFFICES ASSUME faults \subseteq {"loss"}
                 PROVE  (Ascending /\ BelowSender /\ NothingDropped
                         /\ BeyondExpected)'
      BY <1>u, <1>6 DEF LossInv
    <2>1. Ascending' /\ BelowSender'
      BY <1>3, <1>4, <1>n DEF LossInv, Ascending, BelowSender
    <2>2. NothingDropped' /\ BeyondExpected'
      BY <1>u, <1>3, <1>4, <1>n
         DEF LossInv, NothingDropped, BeyondExpected, rxVars, history
    <2> QED BY <2>1, <2>2
  <1>8. SoundInv'
    BY <1>u, <1>2, <1>3, <1>4, <1>n DEF SoundInv, rxVars, callVars, history
  <1> QED BY <1>5, <1>6, <1>7, <1>8

\* Losing a packet leaves the others ascending.
LEMMA LoseInv == IInv /\ Lose => IInv'
  <1> SUFFICES ASSUME IInv, Lose PROVE IInv'
    OBVIOUS
  <1> USE DEF IInv
  <1>u. /\ UNCHANGED <<faults, rxVars, quitflag, callVars, got, history, dups, tx>>
        /\ "loss" \in faults
    BY DEF Lose, SendStep
  <1>1. PICK i \in 1 .. Len(net) : net' = Without(net, i)
    BY DEF Lose
  <1> DEFINE old(k) == IF k < i THEN k ELSE k + 1
  <1>4. /\ net \in Seq(Any) /\ net' \in Seq(Any) /\ Len(net') = Len(net) - 1
        /\ \A k \in 1 .. Len(net') :
              old(k) \in 1 .. Len(net) /\ net'[k] = net[old(k)]
    <2>1. net \in Seq(Any)
      BY DEF TypeOK, Any
    <2>2. /\ net' \in Seq(Any) /\ Len(net') = Len(net) - 1
          /\ \A k \in 1 .. Len(net) - 1 :
                net'[k] = IF k < i THEN net[k] ELSE net[k + 1]
      BY <1>1, <2>1, WithoutProperties
    <2> QED BY <2>1, <2>2
  <1>n. /\ \A k \in 1 .. Len(net') : Data(k)' <=> Data(old(k))
        /\ \A k, l \in 1 .. Len(net') : k < l => old(k) < old(l)
    BY <1>4 DEF Data
  <1> HIDE DEF old
  <1>5. TypeOK'
    BY <1>u, <1>4 DEF TypeOK, rxVars, callVars, history, Any
  <1>6. CallOK' /\ Order' /\ ZeroInv' /\ LossKeepsPrefix'
    BY <1>u DEF CallOK, Order, NeverGoesBack, ZeroInv, LossInv, LossKeepsPrefix,
                rxVars, callVars, history
  <1>7. LossInv'
    <2> SUFFICES ASSUME faults \subseteq {"loss"}
                 PROVE  (Ascending /\ BelowSender /\ NothingDropped
                         /\ BeyondExpected)'
      BY <1>u, <1>6 DEF LossInv
    <2>1. Ascending' /\ BelowSender'
      BY <1>u, <1>4, <1>n DEF LossInv, Ascending, BelowSender
    <2>2. NothingDropped' /\ BeyondExpected'
      BY <1>u, <1>4, <1>n
         DEF LossInv, NothingDropped, BeyondExpected, rxVars, history
    <2> QED BY <2>1, <2>2
  <1>8. SoundInv'
    BY <1>u DEF SoundInv
  <1> QED BY <1>5, <1>6, <1>7, <1>8

\* A repeated packet is one that was in flight.
LEMMA DuplicateInv == IInv /\ Duplicate => IInv'
  <1> SUFFICES ASSUME IInv, Duplicate PROVE IInv'
    OBVIOUS
  <1> USE DEF IInv
  <1>u. /\ UNCHANGED <<faults, rxVars, quitflag, callVars, got, history, tx>>
        /\ "dup" \in faults
        /\ dups < MaxDups /\ dups' = dups + 1
    BY DEF Duplicate, SendStep
  <1>1. PICK i \in 1 .. Len(net) : net' = <<net[i]>> \o net
    BY DEF Duplicate
  <1>4. net' \in Seq(Any)
    <2>1. net \in Seq(Any) /\ net[i] \in Any
      BY DEF TypeOK, Any
    <2>2. <<net[i]>> \in Seq(Any)
      BY <2>1
    <2> QED BY <1>1, <2>1, <2>2, ConcatProperties
  <1>5. TypeOK'
    BY <1>u, <1>4, UdpAssumption DEF TypeOK, rxVars, callVars, history, Any
  <1>6. CallOK' /\ Order' /\ ZeroInv' /\ LossKeepsPrefix'
    BY <1>u DEF CallOK, Order, NeverGoesBack, ZeroInv, LossInv, LossKeepsPrefix,
                rxVars, callVars, history
  <1>7. LossInv' /\ SoundInv'
    BY <1>u, <1>6 DEF LossInv, SoundInv
  <1> QED BY <1>5, <1>6, <1>7

\* quitflag only weakens what is claimed.
LEMMA QuitInv == IInv /\ Quit => IInv'
  <1> SUFFICES ASSUME IInv, Quit PROVE IInv'
    OBVIOUS
  <1> USE DEF IInv
  <1>u. /\ UNCHANGED <<faults, rxVars, callVars, got, history, tx, net, dups>>
        /\ quitflag' = TRUE
    BY DEF Quit
  <1>5. TypeOK'
    BY <1>u DEF TypeOK, rxVars, callVars, history
  <1>6. CallOK' /\ Order' /\ ZeroInv' /\ LossKeepsPrefix'
    BY <1>u DEF CallOK, Order, NeverGoesBack, ZeroInv, LossInv, LossKeepsPrefix,
                rxVars, callVars, history
  <1>7. LossInv' /\ SoundInv'
    BY <1>u, <1>6 DEF LossInv, Ascending, BelowSender, NothingDropped,
                      BeyondExpected, Data, SoundInv, rxVars, callVars, history
  <1> QED BY <1>5, <1>6, <1>7

\* A step inside udp_recv that takes no packet from the network.
LEMMA NoPacket ==
    ASSUME IInv, UNCHANGED <<faults, tx, net, seq_no, accepted, dropped>>,
           nlen' = -1 <=> nlen = -1
    PROVE  Order' /\ LossInv' /\ SoundInv'
  <1>1. Order' /\ LossKeepsPrefix'
    BY DEF IInv, Order, LossInv, LossKeepsPrefix, NeverGoesBack
  <1>2. LossInv'
    BY <1>1 DEF IInv, LossInv, Ascending, BelowSender, NothingDropped,
                BeyondExpected, Data
  <1>3. SoundInv'
    BY DEF IInv, SoundInv, Data
  <1> QED BY <1>1, <1>2, <1>3

\* What is left of the last packet.
LEMMA ResidueFacts ==
    ASSUME IInv, nlen # -1
    PROVE  /\ nlen \in 0 .. MaxLen
           /\ Residue \in Seq(Int \X Int) /\ Len(Residue) = nlen
           /\ \A k \in 1 .. nlen : Len(SubSeq(Residue, 1, k)) = k
  <1>1. nlen \in 0 .. MaxLen /\ noffset \in Nat
    BY UdpAssumption DEF IInv, TypeOK
  <1>2. Residue \in Seq(Int \X Int) /\ Len(Residue) = nlen
    <2>1. CASE nlen > 0
      <3>1. nbuf \in Packets /\ noffset + nlen <= nbuf.len
        BY <2>1 DEF IInv, CallOK
      <3>2. nlen \in Nat
        BY <2>1, <1>1
      <3>3. Residue = SubSeq(Bytes(nbuf), noffset + 1, noffset + nlen)
        BY <2>1 DEF Residue
      <3> QED BY <3>1, <3>2, <3>3, <1>1, BytesOf
    <2>2. CASE nlen = 0
      BY <2>2 DEF Residue
    <2> QED BY <2>1, <2>2, <1>1
  <1> QED BY <1>1, <1>2

\* The start of a call hands out the rest of the last packet.
LEMMA CallInv == IInv /\ Call => IInv'
  <1> SUFFICES ASSUME IInv, Call PROVE IInv'
    OBVIOUS
  <1> USE DEF IInv
  <1>1. PICK req \in 1 .. MaxReq :
           /\ n' = req
           /\ CallAfterEnd(req) \/ CallFromResidue(req) \/ CallAndWait(req)
    BY DEF Call
  <1>u. /\ UNCHANGED <<faults, tx, net, dups, seq_no, nbuf, quitflag, accepted,
                       dropped>>
        /\ rpc = "idle" /\ complete' \in BOOLEAN
    BY DEF Call, CallStep
  <1>t. /\ nlen \in -1 .. MaxLen /\ noffset \in 0 .. MaxLen
        /\ nleft \in 0 .. MaxReq /\ n' \in 0 .. MaxReq /\ req \in Nat /\ req > 0
        /\ MaxLen \in Nat /\ MaxReq \in Nat
    BY <1>1, UdpAssumption DEF TypeOK
  <1> DEFINE CallGoal ==
               /\ nlen' \in -1 .. MaxLen /\ noffset' \in 0 .. MaxLen
               /\ nleft' \in 0 .. MaxReq /\ ret' \in 0 .. MaxReq \cup {-1, EAGAIN}
               /\ rpc' \in {"idle", "loop", "failed"}
               /\ Len(got') + nleft' <= n' \/ rpc' # "loop"
               /\ CallOK' /\ ZeroInv'
               /\ nlen' = -1 <=> nlen = -1
  <1>2. ASSUME CallAfterEnd(req) PROVE CallGoal
    <2>1. /\ nlen = -1 /\ UNCHANGED <<nlen, noffset, nleft>>
          /\ ret' = 0 /\ got' = <<>> /\ rpc' = "idle"
      BY <1>2 DEF CallAfterEnd, Return
    <2>2. CallOK' /\ ZeroInv'
      BY <2>1 DEF CallOK, ZeroInv
    <2> QED BY <2>1, <2>2, <1>t
  <1>3. ASSUME CallFromResidue(req) PROVE CallGoal
    <2>1. /\ nlen > req /\ nlen' = nlen - req /\ noffset' = noffset + req
          /\ nleft' = nleft
          /\ ret' = req /\ got' = <<>> /\ rpc' = "idle"
      BY <1>3 DEF CallFromResidue, Return
    <2>2. nbuf \in Packets /\ noffset + nlen <= nbuf.len /\ nbuf.len \in 1 .. MaxLen
      <3>1. nbuf \in Packets /\ noffset + nlen <= nbuf.len
        BY <2>1, <1>t DEF CallOK
      <3> QED BY <3>1 DEF Packets
    <2>3. nlen' > 0 /\ noffset' + nlen' <= nbuf'.len /\ noffset' \in 0 .. MaxLen
          /\ nlen' \in -1 .. MaxLen
      BY <2>1, <2>2, <1>t, <1>u
    <2>4. CallOK'
      BY <2>1, <2>2, <2>3, <1>u DEF CallOK
    <2>5. ZeroInv' /\ ret' \in 0 .. MaxReq
      BY <2>1, <1>t DEF ZeroInv
    <2> QED BY <2>1, <2>3, <2>4, <2>5, <1>t
  <1>4. ASSUME CallAndWait(req) PROVE CallGoal
    <2>1. /\ nlen \in 0 .. req /\ nleft' = req - nlen /\ nlen' = 0
          /\ noffset' = noffset
      BY <1>4 DEF CallAndWait
    <2>2. Residue \in Seq(Int \X Int) /\ Len(Residue) = nlen
      BY <2>1, <1>t, ResidueFacts
    <2>3. CASE nlen = req
      <3>1. ret' = req /\ got' = <<>> /\ rpc' = "idle"
        BY <1>4, <2>3 DEF CallAndWait, Return
      <3>2. CallOK' /\ ZeroInv'
        BY <2>1, <3>1, <1>t DEF CallOK, ZeroInv
      <3> QED BY <2>1, <3>1, <3>2, <1>t
    <2>4. CASE nlen # req
      <3>1. got' = Residue /\ rpc' = "loop" /\ ret' = ret
        BY <1>4, <2>4 DEF CallAndWait
      <3>2. CallOK'
        BY <1>1, <2>1, <2>2, <3>1, <1>t DEF CallOK
      <3>3. ZeroInv'
        BY <2>1, <3>1, <1>u DEF ZeroInv
      <3>4. ret' \in 0 .. MaxReq \cup {-1, EAGAIN}
        BY <3>1 DEF TypeOK
      <3> QED BY <1>1, <2>1, <2>2, <3>1, <3>2, <3>3, <3>4, <1>t
    <2> QED BY <2>3, <2>4
  <1>5. CallGoal
    BY <1>1, <1>2, <1>3, <1>4
  <1>6. TypeOK'
    BY <1>5, <1>u, <1>t DEF TypeOK
  <1>7. Order' /\ LossInv' /\ SoundInv'
    BY <1>5, <1>u, NoPacket
  <1> QED BY <1>5, <1>6, <1>7

\* A timeout hands out what the call has, and never the result 0.
LEMMA TimeoutInv == IInv /\ Timeout => IInv'
  <1> SUFFICES ASSUME IInv, Timeout PROVE IInv'
    OBVIOUS
  <1> USE DEF IInv
  <1>u. /\ UNCHANGED <<faults, tx, dups, quitflag, complete, n, net, seq_no,
                       nlen, noffset, nbuf, nleft, accepted, dropped>>
        /\ rpc = "loop"
    BY DEF Timeout, WaitStep, rxVars
  <1>t. /\ Len(got) \in Nat /\ nleft \in 0 .. MaxReq /\ n \in 0 .. MaxReq
        /\ Len(got) + nleft <= n /\ MaxReq \in Nat
    BY <1>u, UdpAssumption DEF TypeOK, CallOK
  <1>1. /\ rpc' = "idle" /\ got' = <<>>
        /\ \/ ret' = Len(got) /\ (quitflag \/ got # <<>>)
           \/ ret' = EAGAIN
    BY DEF Timeout, TimeoutReturn, Return
  <1>2. ret' \in 0 .. MaxReq \cup {-1, EAGAIN}
    BY <1>1, <1>t
  <1>3. TypeOK'
    BY <1>u, <1>1, <1>2 DEF TypeOK
  <1>4. CallOK'
    BY <1>u, <1>1 DEF CallOK
  <1>5. ZeroInv'
    <2>1. got # <<>> => Len(got) # 0
      BY EmptySeq DEF CallOK
    <2> QED BY <2>1, <1>1, <1>u DEF ZeroInv, EAGAIN
  <1>6. Order' /\ LossInv' /\ SoundInv'
    BY <1>u, NoPacket
  <1> QED BY <1>3, <1>4, <1>5, <1>6

LEMMA RecvFailInv == IInv /\ RecvFail => IInv'
  <1> SUFFICES ASSUME IInv, RecvFail PROVE IInv'
    OBVIOUS
  <1> USE DEF IInv
  <1>u. /\ UNCHANGED <<faults, tx, dups, quitflag, complete, n, net, seq_no,
                       nlen, noffset, nbuf, nleft, got, accepted, dropped>>
        /\ rpc = "loop" /\ rpc' = "failed" /\ ret' = -1
    BY DEF RecvFail, WaitStep, rxVars, history
  <1>3. TypeOK'
    BY <1>u DEF TypeOK
  <1>4. CallOK' /\ ZeroInv'
    BY <1>u DEF CallOK, ZeroInv
  <1>6. Order' /\ LossInv' /\ SoundInv'
    BY <1>u, NoPacket
  <1> QED BY <1>3, <1>4, <1>6

-----------------------------------------------------------------------------
(* A packet arrives                                                        *)

\* What Recv takes from the network when the i-th packet arrives.
Taken(i) ==
    /\ i \in 1 .. Len(net)
    /\ "reorder" \notin faults => i = 1
    /\ UNCHANGED <<faults, tx, dups, quitflag, complete, n>>
    /\ rpc = "loop"
    /\ net' \in Seq(Any) /\ Len(net') = Len(net) - 1
    /\ \A k \in 1 .. Len(net) - 1 :
          net'[k] = IF k < i THEN net[k] ELSE net[k + 1]
    /\ nbuf' = net[i]

LEMMA RecvTakes ==
    ASSUME IInv, Recv
    PROVE  \E i \in Nat :
              /\ Taken(i)
              /\ RecvEnd(net[i]) \/ RecvDrop(net[i]) \/ RecvAccept(net[i])
  <1>1. PICK i \in Arrivals :
           /\ net' = Without(net, i) /\ nbuf' = net[i]
           /\ RecvEnd(net[i]) \/ RecvDrop(net[i]) \/ RecvAccept(net[i])
    BY DEF Recv
  <1>2. net \in Seq(Any)
    BY DEF IInv, TypeOK, Any
  <1>3. i \in 1 .. Len(net) /\ ("reorder" \notin faults => i = 1)
    <2>1. net # <<>> => Len(net) >= 1
      BY <1>2
    <2> QED BY <2>1, <1>2 DEF Arrivals
  <1>4. Taken(i)
    BY <1>1, <1>2, <1>3, WithoutProperties DEF Recv, WaitStep, Taken
  <1> QED BY <1>1, <1>3, <1>4

\* The numbers around the packet that arrives.
TakenTypes(i) ==
    /\ net \in Seq(Any) /\ net[i] \in Any
    /\ Len(net) \in Nat /\ tx.seq_no \in Nat /\ seq_no \in Nat
    /\ accepted \in Seq(Packets) /\ Len(accepted) \in Nat
    /\ \A k \in 1 .. Len(accepted) : accepted[k].seqno \in Int
    /\ \A k \in 1 .. Len(net) : net[k].seqno \in Int /\ net[k].len \in Nat
    /\ nlen = 0 /\ n \in 1 .. MaxReq /\ nleft \in 0 .. MaxReq
    /\ got \in Seq(Int \X Int) /\ Len(got) \in Nat /\ Len(got) + nleft <= n
    /\ MaxReq \in Nat /\ MaxLen \in Nat

LEMMA TakenFacts ==
    ASSUME IInv, NEW i \in Nat, Taken(i)
    PROVE  TakenTypes(i)
  <1>1. net \in Seq(Any)
    BY DEF IInv, TypeOK, Any
  <1>2. /\ seq_no \in Nat /\ accepted \in Seq(Packets) /\ n \in 0 .. MaxReq
        /\ nleft \in 0 .. MaxReq /\ rpc = "loop"
        /\ Len(got) + nleft <= n
    BY DEF IInv, TypeOK, Taken
  <1>3. nlen = 0 /\ n > 0 /\ got \in Seq(Int \X Int)
    BY <1>2 DEF IInv, CallOK
  <1>4. net[i] \in Any
    BY <1>1 DEF Taken
  <1>5. tx.seq_no \in Nat
    BY Sender DEF IInv
  <1>6. ASSUME NEW k \in 1 .. Len(accepted) PROVE accepted[k].seqno \in Int
    <2>1. accepted[k] \in Packets
      BY <1>2
    <2>2. accepted[k].seqno \in 0 .. MaxPkts - 1
      BY <2>1 DEF Packets
    <2> QED BY <2>2
  <1> QED BY <1>1, <1>2, <1>3, <1>4, <1>5, <1>6, NetNumbers, UdpAssumption
          DEF TakenTypes

\* Without reordering the packets move up by one, and a sound network brings
\* the number expected, or the end when all the others have arrived.
MovedUp ==
    \A k \in 1 .. Len(net') :
        /\ k + 1 \in 1 .. Len(net)
        /\ net'[k] = net[k + 1]
        /\ Data(k)' <=> Data(k + 1)

LEMMA InOrder ==
    ASSUME IInv, NEW i \in Nat, Taken(i), faults \subseteq {"loss"}
    PROVE  /\ i = 1 /\ 1 \in 1 .. Len(net)
           /\ MovedUp
           /\ faults = {} =>
                 \/ /\ ~Data(1) /\ tx.closed /\ seq_no = tx.seq_no
                    /\ Len(net) = 1
                 \/ /\ Data(1) /\ net[1].seqno = seq_no /\ seq_no < tx.seq_no
  <1>f. TakenTypes(i)
    BY TakenFacts
  <1>1. i = 1 /\ 1 \in 1 .. Len(net)
    BY DEF Taken
  <1>2. \A k \in 1 .. Len(net') :
           k + 1 \in 1 .. Len(net) /\ net'[k] = net[k + 1]
    BY <1>1, <1>f DEF Taken, TakenTypes
  <1>3. ASSUME faults = {}
        PROVE  \/ /\ ~Data(1) /\ tx.closed /\ seq_no = tx.seq_no
                  /\ Len(net) = 1
               \/ /\ Data(1) /\ net[1].seqno = seq_no /\ seq_no < tx.seq_no
    <2>1. /\ seq_no <= tx.seq_no
          /\ Len(net) = tx.seq_no - seq_no + (IF tx.closed THEN 1 ELSE 0)
          /\ \A k \in 1 .. tx.seq_no - seq_no :
                Data(k) /\ net[k].seqno = seq_no + k - 1
          /\ tx.closed => net[Len(net)].len = 0
      BY <1>3, <1>f DEF IInv, SoundInv, TakenTypes
    <2>2. Len(net) >= 1
      BY <1>1, <1>f DEF TakenTypes
    <2>3. CASE seq_no < tx.seq_no
      <3>1. 1 \in 1 .. tx.seq_no - seq_no
        BY <2>3, <1>f DEF TakenTypes
      <3> QED BY <2>1, <2>3, <3>1, <1>f DEF TakenTypes
    <2>4. CASE seq_no = tx.seq_no
      <3>1. tx.closed /\ Len(net) = 1
        BY <2>1, <2>2, <2>4, <1>f DEF TakenTypes
      <3> QED BY <2>1, <2>4, <3>1 DEF Data
    <2> QED BY <2>1, <2>3, <2>4, <1>f DEF TakenTypes
  <1> QED BY <1>1, <1>2, <1>3 DEF Data, MovedUp

\* The packets behind the first stay ascending, below the sender's number and
\* beyond the number of the first.
LEMMA BehindTheFirst ==
    ASSUME IInv, NEW i \in Nat, Taken(i), faults \subseteq {"loss"}
    PROVE  /\ Ascending' /\ BelowSender'
           /\ Data(1) => \A k \in 1 .. Len(net') :
                            Data(k)' => net[1].seqno < net'[k].seqno
  <1>f. TakenTypes(i) /\ MovedUp /\ i = 1 /\ 1 \in 1 .. Len(net) /\ tx' = tx
    BY TakenFacts, InOrder DEF Taken
  <1>0. Ascending /\ BelowSender
    BY DEF IInv, LossInv
  <1>1. BelowSender'
    BY <1>f, <1>0 DEF MovedUp, BelowSender
  <1>2. ASSUME NEW k \in 1 .. Len(net'), NEW l \in 1 .. Len(net'), k < l,
               Data(k)', Data(l)'
        PROVE  net'[k].seqno < net'[l].seqno
    <2>1. /\ k + 1 \in 1 .. Len(net) /\ net'[k] = net[k + 1] /\ Data(k + 1)
          /\ l + 1 \in 1 .. Len(net) /\ net'[l] = net[l + 1] /\ Data(l + 1)
      BY <1>2, <1>f DEF MovedUp
    <2>2. k + 1 < l + 1
      BY <1>2
    <2> QED BY <2>1, <2>2, <1>0 DEF Ascending
  <1>3. ASSUME Data(1), NEW k \in 1 .. Len(net'), Data(k)'
        PROVE  net[1].seqno < net'[k].seqno
    <2>1. k + 1 \in 1 .. Len(net) /\ net'[k] = net[k + 1] /\ Data(k + 1)
      BY <1>3, <1>f DEF MovedUp
    <2>2. 1 < k + 1
      OBVIOUS
    <2> QED BY <2>1, <2>2, <1>3, <1>f, <1>0 DEF Ascending
  <1> QED BY <1>1, <1>2, <1>3 DEF Ascending

LEMMA RecvEndInv ==
    ASSUME IInv, NEW i \in Nat, Taken(i), RecvEnd(net[i])
    PROVE  IInv'
  <1> USE DEF IInv
  <1>f. TakenTypes(i)
    BY TakenFacts
  <1> USE DEF TakenTypes
  <1>u. /\ UNCHANGED <<faults, tx, dups, quitflag, complete, n, seq_no, noffset,
                       nleft, accepted, dropped>>
        /\ net[i].len = 0 /\ nlen' = -1 /\ ret' = Len(got) /\ got' = <<>>
        /\ rpc' = "idle" /\ nbuf' = net[i] /\ net' \in Seq(Any)
    BY DEF RecvEnd, Return, Taken
  <1>1. TypeOK'
    <2>1. ret' \in 0 .. MaxReq /\ nlen' \in -1 .. MaxLen
      BY <1>u, <1>f
    <2>2. nbuf' \in Any
      BY <1>u, <1>f
    <2> QED BY <1>u, <2>1, <2>2 DEF TypeOK, Any
  <1>2. CallOK' /\ ZeroInv'
    BY <1>u DEF CallOK, ZeroInv
  <1>3. Order' /\ LossKeepsPrefix'
    BY <1>u DEF Order, LossInv, LossKeepsPrefix, NeverGoesBack
  <1>4. LossInv'
    <2> SUFFICES ASSUME faults \subseteq {"loss"}
                 PROVE  (Ascending /\ BelowSender /\ NothingDropped
                         /\ BeyondExpected)'
      BY <1>u, <1>3 DEF LossInv
    <2>1. Ascending' /\ BelowSender'
      BY BehindTheFirst
    <2>2. NothingDropped' /\ BeyondExpected'
      <3>1. MovedUp
        BY InOrder
      <3> QED BY <1>u, <1>f, <3>1
              DEF LossInv, NothingDropped, BeyondExpected, MovedUp
    <2> QED BY <2>1, <2>2
  <1>5. SoundInv'
    <2> SUFFICES ASSUME faults = {} PROVE SoundInv'
      BY <1>u DEF SoundInv
    <2>1. ~Data(1)
      BY <1>u, <1>f, InOrder DEF Data
    <2>2. tx.closed /\ seq_no = tx.seq_no /\ Len(net) = 1
      BY <2>1, InOrder
    <2>3. Len(net') = 0
      BY <2>2 DEF Taken
    <2> QED BY <1>u, <2>2, <2>3 DEF SoundInv
  <1> QED BY <1>1, <1>2, <1>3, <1>4, <1>5

\* The packet that breaks the sequence was beyond the number expected, so
\* after cmd->seq_no++ all that follow it still are.
LEMMA RecvDropInv ==
    ASSUME IInv, NEW i \in Nat, Taken(i), RecvDrop(net[i])
    PROVE  IInv'
  <1> USE DEF IInv
  <1>f. TakenTypes(i)
    BY TakenFacts
  <1> USE DEF TakenTypes
  <1>u. /\ UNCHANGED <<faults, tx, dups, quitflag, complete, n, nlen, noffset,
                       nleft, rpc, ret, got, accepted>>
        /\ net[i].len > 0 /\ seq_no' = seq_no + 1
        /\ dropped' = dropped \cup {net[i]}
        /\ nbuf' = net[i] /\ net' \in Seq(Any) /\ rpc = "loop"
        /\ net[i].seqno # seq_no
    BY DEF RecvDrop, Taken, Accepts, InSequence
  <1>1. TypeOK'
    <2>1. nbuf' \in Any /\ net[i] \in Packets
      BY <1>u, <1>f, PacketFacts
    <2>2. seq_no' \in Nat
      BY <1>u, <1>f
    <2> QED BY <1>u, <2>1, <2>2 DEF TypeOK, Any
  <1>2. CallOK' /\ ZeroInv'
    BY <1>u, <1>f DEF CallOK, ZeroInv
  <1>3. Order' /\ LossKeepsPrefix'
    <2>1. \A k \in 1 .. Len(accepted) : accepted[k].seqno \in Int
      BY TakenFacts, UdpAssumption DEF Packets
    <2> QED BY <1>u, <2>1, <1>f
            DEF Order, LossInv, LossKeepsPrefix, NeverGoesBack
  <1>4. LossInv'
    <2> SUFFICES ASSUME faults \subseteq {"loss"}
                 PROVE  (Ascending /\ BelowSender /\ NothingDropped
                         /\ BeyondExpected)'
      BY <1>u, <1>3 DEF LossInv
    <2>0. Ascending /\ BelowSender /\ NothingDropped /\ BeyondExpected
      BY DEF LossInv
    <2>1. Ascending' /\ BelowSender'
      BY BehindTheFirst
    <2>2. i = 1 /\ 1 \in 1 .. Len(net) /\ Data(1)
      BY <1>u, InOrder DEF Taken, Data
    <2>3. seq_no < net[1].seqno /\ net[1].seqno < tx.seq_no
      BY <1>u, <2>0, <2>2, <1>f
         DEF NothingDropped, BeyondExpected, BelowSender
    <2>4. ASSUME NEW k \in 1 .. Len(net'), Data(k)'
          PROVE  seq_no' < net'[k].seqno
      <3>1. net[1].seqno < net'[k].seqno
        BY <2>2, <2>4, BehindTheFirst
      <3>2. net'[k].seqno \in Int
        BY <1>u, NetNumbers
      <3> QED BY <1>u, <2>2, <2>3, <3>1, <3>2, <1>f
    <2>5. dropped' # {} /\ seq_no' < tx'.seq_no
      <3>1. dropped' # {}
        BY <1>u
      <3>2. net[1].seqno \in Int /\ tx.seq_no \in Nat /\ seq_no \in Nat
        BY <1>f, <2>2
      <3> QED BY <1>u, <2>2, <2>3, <3>1, <3>2
    <2>6. NothingDropped' /\ BeyondExpected'
      BY <2>4, <2>5 DEF NothingDropped, BeyondExpected
    <2> QED BY <2>1, <2>6
  <1>5. SoundInv'
    <2>1. ASSUME faults = {} PROVE FALSE
      BY <1>u, <2>1, InOrder DEF Data
    <2> QED BY <1>u, <2>1 DEF SoundInv
  <1> QED BY <1>1, <1>2, <1>3, <1>4, <1>5

\* Only the packet expected is accepted: no packet is marked as an I frame.
LEMMA RecvAcceptInv ==
    ASSUME IInv, NEW i \in Nat, Taken(i), RecvAccept(net[i])
    PROVE  IInv'
  <1> USE DEF IInv
  <1>f. TakenTypes(i)
    BY TakenFacts
  <1> USE DEF TakenTypes
  <1> DEFINE p == net[i]
  <1>n. /\ nlen = 0 /\ n \in Nat /\ n > 0 /\ n <= MaxReq
        /\ nleft \in Nat /\ nleft <= MaxReq
        /\ Len(got) \in Nat /\ Len(got) + nleft <= n
        /\ MaxReq \in Nat /\ MaxLen \in Nat
        /\ noffset \in Nat /\ noffset <= MaxLen
        /\ seq_no \in Nat /\ tx.seq_no \in Nat
        /\ Len(net) \in Nat /\ Len(net') = Len(net) - 1
    BY <1>f DEF TypeOK, Taken
  <1> HIDE DEF TakenTypes, IInv
  <1>p. /\ p \in Packets /\ p.len \in 1 .. MaxLen /\ ~p.iframe
        /\ p.seqno \in 0 .. MaxPkts - 1
    <2>1. p \in Any /\ p.len > 0
      BY <1>f DEF RecvAccept, TakenTypes
    <2> QED BY <2>1, PacketFacts, <1>f
  <1>u. /\ UNCHANGED <<faults, tx, dups, quitflag, complete, n, dropped>>
        /\ p.seqno = seq_no /\ seq_no' = seq_no + 1
        /\ accepted' = Append(accepted, p)
        /\ nbuf' = p /\ net' \in Seq(Any) /\ rpc = "loop"
    <2>1. p.seqno = seq_no
      BY <1>p DEF RecvAccept, Accepts, InSequence
    <2> QED BY <2>1 DEF RecvAccept, SeqAfter, Taken
  <1> DEFINE m == nremain(p)
             g == got \o SubSeq(Bytes(p), 1, m)
  <1>m. /\ m \in Nat /\ m <= p.len /\ m <= nleft
        /\ m = IF p.len < nleft THEN p.len ELSE nleft
    BY <1>p, <1>n DEF nremain, Smaller
  <1>g. g \in Seq(Int \X Int) /\ Len(g) = Len(got) + m
    <2>1. SubSeq(Bytes(p), 1, m) \in Seq(Int \X Int)
          /\ Len(SubSeq(Bytes(p), 1, m)) = m
      <3>1. /\ SubSeq(Bytes(p), 0 + 1, 0 + m) \in Seq(Int \X Int)
            /\ Len(SubSeq(Bytes(p), 0 + 1, 0 + m)) = m
        <4>1. 0 + m <= p.len
          BY <1>m, <1>p
        <4> HIDE DEF m, p
        <4> QED BY <4>1, <1>p, <1>m, BytesOf
      <3>2. 0 + 1 = 1 /\ 0 + m = m
        BY <1>m
      <3> QED BY <3>1, <3>2
    <2>2. got \in Seq(Int \X Int)
      BY <1>f DEF TakenTypes
    <2> QED BY <2>1, <2>2, ConcatProperties
  <1>c. /\ nleft' = nleft - m
        /\ p.len > nleft => nlen' = p.len - nleft /\ noffset' = nleft
        /\ ~(p.len > nleft) => UNCHANGED <<nlen, noffset>>
        /\ nleft' > 0 => got' = g /\ UNCHANGED <<rpc, ret>>
        /\ ~(nleft' > 0) => got' = <<>> /\ rpc' = "idle" /\ ret' = n
    BY DEF RecvAccept, Return, OffsetOfRest
  <1> HIDE DEF m, g
  <1>q. /\ p.len \in Nat /\ p.len <= MaxLen /\ nleft' = nleft - m
        /\ p.len > nleft => nlen' = p.len - nleft /\ noffset' = nleft
        /\ ~(p.len > nleft) => nlen' = nlen /\ noffset' = noffset
        /\ seq_no' = seq_no + 1 /\ n' = n
    BY <1>p, <1>c, <1>u, <1>n
  <1>1. TypeOK'
    <2>1. accepted' \in Seq(Packets)
      BY <1>u, <1>p, <1>f DEF TakenTypes
    <2>2. /\ nleft' \in 0 .. MaxReq /\ nlen' \in -1 .. MaxLen
          /\ noffset' \in 0 .. MaxLen /\ seq_no' \in Nat
      <3> HIDE DEF p
      <3>1. nleft' \in 0 .. MaxReq /\ seq_no' \in Nat
        BY <1>q, <1>m, <1>n
      <3>2. nlen' \in -1 .. MaxLen
        BY <1>q, <1>n
      <3>3. noffset' \in 0 .. MaxLen
        BY <1>q, <1>n
      <3> QED BY <3>1, <3>2, <3>3
    <2>3. Len(got') + nleft' <= n' \/ rpc' # "loop"
      <3>1. CASE nleft' > 0
        <4>1. Len(got') = Len(got) + m
          BY <3>1, <1>c, <1>g
        <4> QED BY <4>1, <1>q, <1>m, <1>n
      <3>2. CASE ~(nleft' > 0)
        BY <3>2, <1>c
      <3> QED BY <3>1, <3>2
    <2>4. ret' \in 0 .. MaxReq \cup {-1, EAGAIN}
          /\ rpc' \in {"idle", "loop", "failed"}
      BY <1>c, <1>u, <1>n DEF TypeOK, IInv
    <2>5. nbuf' \in Any
      BY <1>u, <1>p DEF Any
    <2> QED BY <1>u, <2>1, <2>2, <2>3, <2>4, <2>5 DEF TypeOK, Any, IInv
  <1>2. CallOK'
    <2>1. got' \in Seq(Int \X Int)
      <3>1. <<>> \in Seq(Int \X Int)
        OBVIOUS
      <3>2. CASE nleft' > 0
        BY <3>2, <1>c, <1>g
      <3>3. CASE ~(nleft' > 0)
        BY <3>1, <3>3, <1>c
      <3> QED BY <3>2, <3>3
    <2>2. rpc' # "idle" => nlen' = 0
      BY <1>c, <1>m, <1>p, <1>n
    <2>3. nlen' > 0 => noffset' + nlen' <= nbuf'.len
      <3>1. CASE p.len > nleft
        BY <3>1, <1>c, <1>p, <1>u, <1>n
      <3>2. CASE ~(p.len > nleft)
        BY <3>2, <1>c, <1>n
      <3> QED BY <3>1, <3>2
    <2>4. rpc' = "loop" => n' > 0
      BY <1>u, <1>n
    <2> QED BY <2>1, <2>2, <2>3, <2>4, <1>u, <1>p DEF CallOK
  <1>z. ZeroInv'
    BY <1>c, <1>u, <1>p, <1>n DEF ZeroInv, IInv
  <1>a. /\ Len(accepted') = Len(accepted) + 1
        /\ \A k \in 1 .. Len(accepted) :
              accepted'[k] = accepted[k] /\ accepted[k].seqno \in Int
        /\ \A k \in 1 .. Len(accepted') :
              k \in 1 .. Len(accepted) \/ k = Len(accepted) + 1
        /\ accepted'[Len(accepted) + 1].seqno = seq_no
        /\ Len(accepted) \in Nat
    BY <1>u, <1>p, <1>f DEF TakenTypes
  <1>3. Order'
    <2>1. /\ \A k \in 1 .. Len(accepted) : accepted[k].seqno < seq_no
          /\ NeverGoesBack
      BY DEF IInv, Order
    <2>2. \A k \in 1 .. Len(accepted') : accepted'[k].seqno < seq_no'
      BY <1>u, <1>a, <1>n, <2>1
    <2>3. ASSUME NEW k \in 1 .. Len(accepted'), NEW l \in 1 .. Len(accepted'),
                 k < l
          PROVE  accepted'[k].seqno < accepted'[l].seqno
      <3>1. k \in 1 .. Len(accepted)
        BY <2>3, <1>a
      <3>2. CASE l \in 1 .. Len(accepted)
        BY <3>1, <3>2, <2>1, <2>3, <1>a DEF NeverGoesBack
      <3>3. CASE l = Len(accepted) + 1
        BY <3>1, <3>3, <2>1, <1>a
      <3> QED BY <3>2, <3>3, <1>a
    <2> QED BY <2>2, <2>3 DEF Order, NeverGoesBack
  <1>4. LossInv'
    <2> SUFFICES ASSUME faults \subseteq {"loss"} PROVE LossInv'
      BY <1>u DEF LossInv, LossKeepsPrefix
    <2>0. Ascending /\ BelowSender /\ NothingDropped /\ BeyondExpected
          /\ \A k \in 1 .. Len(accepted) : accepted[k].seqno = k - 1
      BY DEF LossInv, LossKeepsPrefix, IInv
    <2>1. Ascending' /\ BelowSender'
      BY BehindTheFirst
    <2>2. i = 1 /\ 1 \in 1 .. Len(net) /\ Data(1)
      BY <1>p, InOrder DEF Taken, Data
    <2>3. dropped = {} /\ Len(accepted) = seq_no /\ seq_no < tx.seq_no
      BY <1>u, <1>n, <2>0, <2>2
         DEF BeyondExpected, NothingDropped, BelowSender
    <2>4. ASSUME NEW k \in 1 .. Len(net'), Data(k)'
          PROVE  seq_no' <= net'[k].seqno
      <3>1. net[1].seqno < net'[k].seqno
        BY <2>2, <2>4, BehindTheFirst
      <3>2. net'[k].seqno \in Int
        BY <1>u, NetNumbers
      <3> QED BY <1>u, <2>2, <3>1, <3>2, <1>n
    <2>5. NothingDropped' /\ BeyondExpected'
      BY <1>u, <1>a, <2>3, <2>4, <1>n DEF NothingDropped, BeyondExpected
    <2>6. LossKeepsPrefix'
      BY <1>u, <1>a, <2>0, <2>3, <1>n DEF LossKeepsPrefix
    <2> QED BY <2>1, <2>5, <2>6 DEF LossInv
  <1>5. SoundInv'
    <2> SUFFICES ASSUME faults = {} PROVE SoundInv'
      BY <1>u DEF SoundInv
    <2>1. /\ i = 1 /\ seq_no < tx.seq_no
          /\ MovedUp
      <3>1. i = 1 /\ MovedUp
        BY InOrder
      <3>2. Data(1)
        BY <3>1, <1>p DEF Data
      <3> QED BY <3>1, <3>2, InOrder
    <2>2. /\ dropped = {} /\ Len(accepted) = seq_no
          /\ Len(net) = tx.seq_no - seq_no + (IF tx.closed THEN 1 ELSE 0)
          /\ \A k \in 1 .. tx.seq_no - seq_no :
                Data(k) /\ net[k].seqno = seq_no + k - 1
          /\ tx.closed => net[Len(net)].len = 0
      BY <1>n DEF SoundInv, IInv
    <2>3. nlen' # -1
      BY <1>c, <1>p, <1>n
    <2>4. /\ Len(net') = tx'.seq_no - seq_no' + (IF tx'.closed THEN 1 ELSE 0)
          /\ seq_no' <= tx'.seq_no
      BY <2>1, <2>2, <1>u, <1>n
    <2>5. ASSUME NEW k \in 1 .. tx'.seq_no - seq_no'
          PROVE  Data(k)' /\ net'[k].seqno = seq_no' + k - 1
      <3>1. k \in 1 .. Len(net') /\ k + 1 \in 1 .. tx.seq_no - seq_no
        BY <2>1, <2>4, <1>u, <1>n
      <3>2. net'[k] = net[k + 1] /\ (Data(k)' <=> Data(k + 1))
        BY <2>1, <3>1 DEF MovedUp
      <3>3. Data(k + 1) /\ net[k + 1].seqno = seq_no + (k + 1) - 1
        BY <2>2, <3>1
      <3> QED BY <3>2, <3>3, <1>u, <1>n
    <2>6. tx'.closed => net'[Len(net')].len = 0
      <3> SUFFICES ASSUME tx.closed PROVE net'[Len(net')].len = 0
        BY <1>u
      <3>0. Len(net) = tx.seq_no - seq_no + 1 /\ seq_no < tx.seq_no
        BY <2>1, <2>2
      <3>1. Len(net') \in 1 .. Len(net') /\ Len(net') + 1 = Len(net)
        BY <3>0, <1>n
      <3> QED BY <3>1, <2>1, <2>2 DEF MovedUp
    <2> QED BY <2>2, <2>3, <2>4, <2>5, <2>6, <1>u, <1>a DEF SoundInv
  <1> QED BY <1>1, <1>2, <1>z, <1>3, <1>4, <1>5 DEF IInv

-----------------------------------------------------------------------------
(* The bytes                                                               *)

ByteSeqs == Seq(Int \X Int)

\* Between calls the caller's buffer is not looked at, and what was copied so
\* far and what nbuf keeps are the bytes of the accepted packets.
StreamInv ==
    /\ delivered \in ByteSeqs
    /\ rpc = "idle" => got = <<>>
    /\ CopiesEveryByte

\* Concatenation of byte sequences.
LEMMA ByteConcat ==
    /\ <<>> \in ByteSeqs
    /\ \A s \in ByteSeqs : s \o <<>> = s
    /\ \A s, t \in ByteSeqs : s \o t \in ByteSeqs
    /\ \A s, t, u \in ByteSeqs : (s \o t) \o u = s \o (t \o u)
  <1>1. <<>> \in ByteSeqs
    BY DEF ByteSeqs
  <1>2. ASSUME NEW s \in ByteSeqs PROVE s \o <<>> = s
    BY ConcatEmptySeq DEF ByteSeqs
  <1>3. ASSUME NEW s \in ByteSeqs, NEW t \in ByteSeqs PROVE s \o t \in ByteSeqs
    BY ConcatProperties DEF ByteSeqs
  <1>4. ASSUME NEW s \in ByteSeqs, NEW t \in ByteSeqs, NEW u \in ByteSeqs
        PROVE  (s \o t) \o u = s \o (t \o u)
    <2> DEFINE S == Int \X Int
    <2>1. s \in Seq(S) /\ t \in Seq(S) /\ u \in Seq(S)
      BY DEF ByteSeqs
    <2> HIDE DEF S
    <2> QED BY <2>1, ConcatAssociative
  <1> QED BY <1>1, <1>2, <1>3, <1>4, Zenon

\* The bytes of a packet, and any two adjacent parts of them.
LEMMA SplitBytes ==
    ASSUME NEW p \in Packets
    PROVE  /\ Bytes(p) \in ByteSeqs /\ Len(Bytes(p)) = p.len /\ p.len \in Nat
           /\ SubSeq(Bytes(p), 1, p.len) = Bytes(p)
           /\ \A k, m \in 0 .. p.len : k <= m =>
                 SubSeq(Bytes(p), 1, k) \o SubSeq(Bytes(p), k + 1, m)
                    = SubSeq(Bytes(p), 1, m)
  <1>1. p.len \in Nat /\ p.seqno \in Int
    BY UdpAssumption DEF Packets
  <1>2. Bytes(p) \in ByteSeqs /\ Len(Bytes(p)) = p.len
    BY <1>1 DEF Bytes, ByteSeqs
  <1>3. SubSeq(Bytes(p), 1, p.len) = Bytes(p)
    BY <1>2, SubSeqFull DEF ByteSeqs
  <1>4. ASSUME NEW k \in 0 .. p.len, NEW m \in 0 .. p.len, k <= m
        PROVE  SubSeq(Bytes(p), 1, k) \o SubSeq(Bytes(p), k + 1, m)
                  = SubSeq(Bytes(p), 1, m)
    <2>1. /\ 1 \in 1 .. Len(Bytes(p)) + 1 /\ k \in 1 - 1 .. Len(Bytes(p))
          /\ m \in k .. Len(Bytes(p))
      BY <1>1, <1>2, <1>4
    <2> HIDE DEF Bytes
    <2> QED BY <1>2, <2>1, ConcatAdjacentSubSeq DEF ByteSeqs
  <1> QED BY <1>1, <1>2, <1>3, <1>4

\* Taking k bytes off the front of a residue leaves the rest of it.
LEMMA SplitResidue ==
    ASSUME NEW p \in Packets, NEW o \in Nat, NEW l \in Nat, NEW k \in 1 .. l,
           o + l <= p.len
    PROVE  SubSeq(SubSeq(Bytes(p), o + 1, o + l), 1, k)
              \o SubSeq(Bytes(p), o + k + 1, o + l)
              = SubSeq(Bytes(p), o + 1, o + l)
  <1> DEFINE B == Bytes(p)
  <1>1. B \in Seq(Int \X Int) /\ Len(B) = p.len /\ p.len \in Nat
    BY SplitBytes DEF ByteSeqs
  <1> HIDE DEF B
  <1>2. SubSeq(SubSeq(B, o + 1, o + l), 1, k) = SubSeq(B, o + 1, o + k)
    <2>1. /\ o + 1 \in 1 .. Len(B) /\ o + l \in 1 .. Len(B)
          /\ 1 \in 1 .. (o + l) - (o + 1) + 1 /\ k \in 1 .. (o + l) - (o + 1) + 1
      BY <1>1
    <2>2. SubSeq(SubSeq(B, o + 1, o + l), 1, k)
             = SubSeq(B, (o + 1) + 1 - 1, (o + 1) + k - 1)
      BY <1>1, <2>1, SubSeqOfSubSeq
    <2>3. (o + 1) + 1 - 1 = o + 1 /\ (o + 1) + k - 1 = o + k
      OBVIOUS
    <2> QED BY <2>2, <2>3
  <1>3. SubSeq(B, o + 1, o + k) \o SubSeq(B, o + k + 1, o + l)
           = SubSeq(B, o + 1, o + l)
    <2>1. /\ o + 1 \in 1 .. Len(B) + 1 /\ o + k \in (o + 1) - 1 .. Len(B)
          /\ o + l \in o + k .. Len(B)
      BY <1>1
    <2> QED BY <1>1, <2>1, ConcatAdjacentSubSeq
  <1> QED BY <1>2, <1>3 DEF B

\* A step that copies nothing and keeps the residue.
LEMMA NothingCopied ==
    ASSUME StreamInv,
           UNCHANGED <<nlen, noffset, nbuf, rpc, got, delivered, stream>>
    PROVE  StreamInv'
  <1>1. Residue' = Residue
    BY DEF Residue, Bytes
  <1> QED BY <1>1 DEF StreamInv, CopiesEveryByte

\* Nothing is in nbuf inside a call.
LEMMA NoResidue ==
    ASSUME IInv, StreamInv, rpc = "loop"
    PROVE  /\ delivered \in ByteSeqs /\ got \in ByteSeqs
           /\ delivered \o got = stream /\ stream \in ByteSeqs
  <1>1. nlen = 0 /\ got \in ByteSeqs /\ delivered \in ByteSeqs
    BY DEF IInv, CallOK, StreamInv, ByteSeqs
  <1>2. Residue = <<>>
    BY <1>1 DEF Residue
  <1>3. delivered \o got \in ByteSeqs
    BY <1>1, ConcatProperties DEF ByteSeqs
  <1>4. delivered \o got \o <<>> = delivered \o got
    BY <1>3, ConcatEmptySeq DEF ByteSeqs
  <1> QED BY <1>1, <1>2, <1>3, <1>4 DEF StreamInv, CopiesEveryByte

\* The call that ends with what it holds, and with no residue.
LEMMA ReturnAll ==
    ASSUME IInv, StreamInv, rpc = "loop", NEW r, Return(r, got), stream' = stream,
           ~(nlen' > 0)
    PROVE  StreamInv'
  <1>1. /\ delivered \in ByteSeqs /\ got \in ByteSeqs
        /\ delivered \o got = stream /\ stream \in ByteSeqs
    BY NoResidue
  <1>2. delivered' = stream /\ got' = <<>> /\ Residue' = <<>>
    BY <1>1 DEF Return, Residue
  <1>3. stream \o <<>> = stream
    BY <1>1, ConcatEmptySeq DEF ByteSeqs
  <1> QED BY <1>1, <1>2, <1>3 DEF StreamInv, CopiesEveryByte

\* The start of a call moves bytes of the residue to the caller.
LEMMA CallStream ==
    ASSUME IInv, StreamInv, Call
    PROVE  StreamInv'
  <1>1. PICK req \in 1 .. MaxReq :
           CallAfterEnd(req) \/ CallFromResidue(req) \/ CallAndWait(req)
    BY DEF Call
  <1>2. /\ got = <<>> /\ delivered \in ByteSeqs /\ nbuf' = nbuf
        /\ stream' = stream
    BY DEF Call, CallStep, StreamInv
  <1>3. delivered \o <<>> = delivered
    BY <1>2, ConcatEmptySeq DEF ByteSeqs
  <1>4. delivered \o Residue = stream
    BY <1>2, <1>3 DEF StreamInv, CopiesEveryByte
  <1>5. nlen \in Int /\ noffset \in Nat /\ req \in Nat /\ req > 0
    BY UdpAssumption DEF IInv, TypeOK
  <1>6. CASE CallAfterEnd(req)
    <2>1. /\ delivered' = delivered /\ got' = <<>> /\ nlen = -1 /\ nlen' = -1
      BY <1>3, <1>6 DEF CallAfterEnd, Return
    <2>2. Residue = <<>> /\ Residue' = <<>>
      BY <2>1 DEF Residue
    <2> QED BY <1>2, <1>3, <1>4, <2>1, <2>2 DEF StreamInv, CopiesEveryByte
  <1>7. CASE CallFromResidue(req)
    <2>1. /\ nlen > req /\ delivered' = delivered \o SubSeq(Residue, 1, req)
          /\ got' = <<>> /\ nlen' = nlen - req /\ noffset' = noffset + req
      BY <1>7 DEF CallFromResidue, Return
    <2>2. nbuf \in Packets /\ noffset + nlen <= nbuf.len /\ nlen \in Nat
      BY <1>5, <2>1 DEF IInv, CallOK
    <2>3. Residue = SubSeq(Bytes(nbuf), noffset + 1, noffset + nlen)
      BY <1>5, <2>1 DEF Residue
    <2>4. Residue' = SubSeq(Bytes(nbuf), noffset + req + 1, noffset + nlen)
      <3>1. nlen' > 0 /\ noffset' + nlen' = noffset + nlen
        BY <1>5, <2>1
      <3>2. Residue' = SubSeq(Bytes(nbuf'), noffset' + 1, noffset' + nlen')
        BY <3>1 DEF Residue, Bytes
      <3> QED BY <1>2, <2>1, <3>1, <3>2
    <2>5. SubSeq(Residue, 1, req) \o Residue' = Residue
      <3>1. req \in 1 .. nlen
        BY <1>5, <2>1
      <3> QED BY <1>5, <2>2, <2>3, <2>4, <3>1, SplitResidue
    <2>6. SubSeq(Residue, 1, req) \in ByteSeqs /\ Residue' \in ByteSeqs
      <3>1. Residue \in ByteSeqs /\ Len(Residue) = nlen
        BY <1>5, <2>1, ResidueFacts DEF ByteSeqs
      <3>2. SubSeq(Residue, 1, req) \in ByteSeqs
        BY <1>5, <2>1, <3>1 DEF ByteSeqs
      <3>3. /\ noffset + req \in Nat /\ nlen - req \in Nat
            /\ (noffset + req) + (nlen - req) <= nbuf.len
            /\ (noffset + req) + (nlen - req) = noffset + nlen
        BY <1>5, <2>1, <2>2
      <3>4. SubSeq(Bytes(nbuf), (noffset + req) + 1, (noffset + req) + (nlen - req))
               \in Seq(Int \X Int)
        BY <2>2, <3>3, BytesOf
      <3> QED BY <2>4, <3>2, <3>3, <3>4 DEF ByteSeqs
    <2>7. /\ delivered' \in ByteSeqs /\ delivered' \o <<>> = delivered'
      BY <1>2, <2>1, <2>6, ConcatProperties, ConcatEmptySeq DEF ByteSeqs
    <2>8. delivered' \o Residue' = stream
      <3>1. (delivered \o SubSeq(Residue, 1, req)) \o Residue'
               = delivered \o (SubSeq(Residue, 1, req) \o Residue')
        BY <1>2, <2>6, ByteConcat
      <3> QED BY <1>4, <2>1, <2>5, <3>1
    <2> QED BY <1>2, <2>1, <2>7, <2>8 DEF StreamInv, CopiesEveryByte
  <1>8. CASE CallAndWait(req)
    <2>1. nlen \in 0 .. req /\ nlen' = 0 /\ Residue' = <<>>
      BY <1>8 DEF CallAndWait, Residue
    <2>2. Residue \in ByteSeqs
      BY <1>5, <2>1, ResidueFacts DEF ByteSeqs
    <2>3. stream \in ByteSeqs /\ stream \o <<>> = stream
      BY <1>2, <1>4, <2>2, ByteConcat
    <2>4. CASE nlen = req
      <3>1. delivered' = stream /\ got' = <<>>
        BY <1>4, <1>8, <2>4 DEF CallAndWait, Return
      <3> QED BY <1>2, <2>1, <2>3, <3>1 DEF StreamInv, CopiesEveryByte
    <2>5. CASE nlen # req
      <3>1. delivered' = delivered /\ got' = Residue /\ rpc' = "loop"
        BY <1>8, <2>5 DEF CallAndWait
      <3>2. delivered' \o got' \o Residue' = stream'
        BY <1>2, <1>4, <2>1, <2>3, <3>1
      <3> QED BY <1>2, <3>1, <3>2 DEF StreamInv, CopiesEveryByte
    <2> QED BY <2>4, <2>5
  <1> QED BY <1>1, <1>6, <1>7, <1>8

\* An accepted packet is copied up to what the call still wants; the rest
\* stays in nbuf.
LEMMA AcceptStream ==
    ASSUME IInv, StreamInv, NEW i \in Nat, Taken(i), RecvAccept(net[i])
    PROVE  StreamInv'
  <1> DEFINE p == net[i]
             B == Bytes(p)
             m == nremain(p)
  <1>1. TakenTypes(i) /\ rpc = "loop" /\ nbuf' = p
    BY TakenFacts DEF Taken
  <1>2. p \in Packets /\ p.len \in Nat /\ p.len > 0 /\ nleft \in Nat /\ nlen = 0
    <2>1. p \in Any /\ p.len > 0
      BY <1>1 DEF RecvAccept, TakenTypes
    <2> QED BY <1>1, <2>1, PacketFacts, UdpAssumption DEF TakenTypes
  <1>3. /\ delivered \in ByteSeqs /\ got \in ByteSeqs
        /\ delivered \o got = stream /\ stream \in ByteSeqs
    BY <1>1, NoResidue
  <1>4. B \in ByteSeqs /\ SubSeq(B, 1, p.len) = B
    BY <1>2, SplitBytes
  <1>5. m = IF p.len < nleft THEN p.len ELSE nleft
    BY DEF nremain, Smaller
  <1>6. /\ stream' = stream \o B
        /\ nleft' = nleft - m
        /\ p.len > nleft => nlen' = p.len - nleft /\ noffset' = nleft
        /\ ~(p.len > nleft) => nlen' = nlen
        /\ nleft' > 0 => /\ got' = got \o SubSeq(B, 1, m)
                         /\ delivered' = delivered /\ rpc' = rpc
        /\ ~(nleft' > 0) => /\ delivered' = delivered \o (got \o SubSeq(B, 1, m))
                            /\ got' = <<>>
    BY DEF RecvAccept, Return, OffsetOfRest
  <1> HIDE DEF p, m
  <1>7. m \in 0 .. p.len /\ SubSeq(B, 1, m) \in ByteSeqs
    <2>1. m \in 0 .. p.len
      BY <1>2, <1>5
    <2>2. SubSeq(Bytes(p), 0 + 1, 0 + m) \in Seq(Int \X Int)
      <3>1. m \in Nat /\ 0 + m <= p.len
        BY <1>2, <2>1
      <3> QED BY <1>2, <3>1, BytesOf
    <2>3. 0 + 1 = 1 /\ 0 + m = m
      BY <2>1
    <2> QED BY <2>1, <2>2, <2>3 DEF ByteSeqs
  <1>8. SubSeq(B, 1, m) \o Residue' = B /\ Residue' \in ByteSeqs
    <2>1. CASE p.len > nleft
      <3>1. /\ m = nleft /\ nlen' > 0 /\ noffset' + 1 = m + 1
            /\ noffset' + nlen' = p.len
        <4>1. nlen' = p.len - nleft /\ noffset' = nleft
          BY <1>6, <2>1
        <4> QED BY <1>2, <1>5, <2>1, <4>1
      <3>2. Residue' = SubSeq(Bytes(nbuf'), noffset' + 1, noffset' + nlen')
        BY <3>1 DEF Residue, Bytes
      <3>3. Residue' = SubSeq(B, m + 1, p.len)
        BY <1>1, <3>1, <3>2 DEF p
      <3>4. SubSeq(B, 1, m) \o SubSeq(B, m + 1, p.len) = SubSeq(B, 1, p.len)
        BY <1>2, <1>7, SplitBytes
      <3>5. SubSeq(Bytes(p), m + 1, m + (p.len - m)) \in Seq(Int \X Int)
        <4>1. m \in Nat /\ p.len - m \in Nat /\ m + (p.len - m) <= p.len
          BY <1>2, <1>7
        <4> QED BY <1>2, <4>1, BytesOf
      <3>6. m + (p.len - m) = p.len
        BY <1>2, <1>7
      <3> QED BY <1>4, <3>3, <3>4, <3>5, <3>6 DEF ByteSeqs
    <2>2. CASE ~(p.len > nleft)
      <3>1. m = p.len /\ ~(nlen' > 0)
        BY <1>2, <1>5, <1>6, <2>2
      <3>2. Residue' = <<>>
        BY <3>1 DEF Residue
      <3>3. SubSeq(B, 1, m) = B
        BY <1>4, <3>1
      <3> QED BY <1>4, <3>2, <3>3, ConcatEmptySeq DEF ByteSeqs
    <2> QED BY <2>1, <2>2
  <1> HIDE DEF B
  <1>9. delivered' \o got' = delivered \o (got \o SubSeq(B, 1, m))
    <2>1. CASE nleft' > 0
      BY <1>6, <2>1
    <2>2. CASE ~(nleft' > 0)
      <3>1. delivered \o (got \o SubSeq(B, 1, m)) \in ByteSeqs
        BY <1>3, <1>7, ConcatProperties DEF ByteSeqs
      <3> QED BY <1>6, <2>2, <3>1, ConcatEmptySeq DEF ByteSeqs
    <2> QED BY <2>1, <2>2
  <1>10. delivered' \o got' \o Residue' = stream'
    <2> DEFINE x == SubSeq(B, 1, m)
               y == Residue'
    <2> HIDE DEF x, y
    <2>1. x \in ByteSeqs /\ y \in ByteSeqs /\ x \o y = B
      BY <1>7, <1>8 DEF x, y
    <2>2. delivered \o (got \o x) = stream \o x
      <3>1. delivered \in ByteSeqs /\ got \in ByteSeqs /\ x \in ByteSeqs
        BY <1>3, <2>1
      <3>2. (delivered \o got) \o x = delivered \o (got \o x)
        BY <3>1, ByteConcat, Zenon
      <3> QED BY <1>3, <3>2
    <2>3. (stream \o x) \o y = stream \o (x \o y)
      <3>1. stream \in ByteSeqs /\ x \in ByteSeqs /\ y \in ByteSeqs
        BY <1>3, <2>1
      <3> QED BY <3>1, ByteConcat, Zenon
    <2> QED BY <1>6, <1>9, <2>1, <2>2, <2>3 DEF x, y
  <1>11. delivered' \in ByteSeqs
    BY <1>3, <1>6, <1>7, ConcatProperties DEF ByteSeqs
  <1>12. rpc' = "idle" => got' = <<>>
    BY <1>1, <1>6
  <1> QED BY <1>10, <1>11, <1>12 DEF StreamInv, CopiesEveryByte

\* Every step keeps the bytes.
LEMMA NextStream == IInv /\ StreamInv /\ [Next]_vars => StreamInv'
  <1> SUFFICES ASSUME IInv, StreamInv, [Next]_vars PROVE StreamInv'
    OBVIOUS
  <1>1. CASE Send \/ SendEnd \/ Lose \/ Duplicate
    BY <1>1, NothingCopied
       DEF Send, SendEnd, Lose, Duplicate, SendStep, rxVars, callVars, history
  <1>2. CASE Call
    BY <1>2, CallStream
  <1>3. CASE Timeout
    <2>1. /\ rpc = "loop" /\ nlen' = nlen /\ stream' = stream
          /\ (got # <<>> \/ Return(EAGAIN, <<>>) \/ Return(Len(got), got))
      BY <1>3 DEF Timeout, TimeoutReturn, rxVars
    <2>2. Return(Len(got), got) \/ Return(EAGAIN, got)
      BY <1>3 DEF Timeout, TimeoutReturn
    <2>3. ~(nlen' > 0)
      BY <2>1 DEF IInv, CallOK
    <2> QED BY <2>1, <2>2, <2>3, ReturnAll
  <1>4. CASE RecvFail
    <2>1. /\ rpc' = "failed" /\ rpc = "loop"
          /\ UNCHANGED <<nlen, noffset, nbuf, got, delivered, stream>>
      BY <1>4 DEF RecvFail, rxVars, history
    <2>2. Residue' = Residue
      BY <2>1 DEF Residue, Bytes
    <2> QED BY <2>1, <2>2 DEF StreamInv, CopiesEveryByte
  <1>5. CASE Recv
    <2>1. PICK i \in Nat :
             /\ Taken(i)
             /\ RecvEnd(net[i]) \/ RecvDrop(net[i]) \/ RecvAccept(net[i])
      BY <1>5, RecvTakes
    <2>2. rpc = "loop"
      BY <2>1 DEF Taken
    <2>3. CASE RecvEnd(net[i])
      BY <2>2, <2>3, ReturnAll DEF RecvEnd
    <2>4. CASE RecvDrop(net[i])
      <3>1. UNCHANGED <<nlen, rpc, got, delivered, stream>> /\ nlen = 0
        BY <2>2, <2>4 DEF RecvDrop, IInv, CallOK
      <3>2. Residue' = Residue
        BY <3>1 DEF Residue
      <3> QED BY <3>1, <3>2 DEF StreamInv, CopiesEveryByte
    <2>5. CASE RecvAccept(net[i])
      BY <2>1, <2>5, AcceptStream
    <2> QED BY <2>1, <2>3, <2>4, <2>5
  <1>6. CASE Quit
    BY <1>6, NothingCopied DEF Quit, rxVars, callVars, history
  <1>7. CASE UNCHANGED vars
    BY <1>7, NothingCopied DEF vars, rxVars, callVars, history
  <1> QED BY <1>1, <1>2, <1>3, <1>4, <1>5, <1>6, <1>7 DEF Next

-----------------------------------------------------------------------------
(* The theorems                                                            *)

LEMMA Invariance == Spec => []IInv
  <1>1. IInv /\ [Next]_vars => IInv'
    <2> SUFFICES ASSUME IInv, [Next]_vars PROVE IInv'
      OBVIOUS
    <2>1. CASE Recv
      <3>1. PICK i \in Nat :
               /\ Taken(i)
               /\ RecvEnd(net[i]) \/ RecvDrop(net[i]) \/ RecvAccept(net[i])
        BY <2>1, RecvTakes
      <3> QED BY <3>1, RecvEndInv, RecvDropInv, RecvAcceptInv
    <2>2. CASE UNCHANGED vars
      <3>1. UNCHANGED <<faults, tx, net, dups, seq_no, nlen, noffset, nbuf,
                        quitflag, complete, rpc, n, nleft, ret, got, accepted,
                        dropped>>
        BY <2>2 DEF vars, rxVars, callVars, history
      <3>2. TypeOK' /\ CallOK' /\ ZeroInv'
        BY <3>1 DEF IInv, TypeOK, CallOK, ZeroInv
      <3> QED BY <3>1, <3>2, NoPacket DEF IInv
    <2> QED BY <2>1, <2>2, SendInv, SendEndInv, LoseInv, DuplicateInv, CallInv,
               TimeoutInv, RecvFailInv, QuitInv DEF Next
  <1> QED BY <1>1, InitInv, PTL DEF Spec

\* TypeOK: whatever the packets, the requests and the network, udp_recv never
\* copies more than the caller's buffer holds, and the rest it keeps in nbuf
\* lies inside the packet.
THEOREM TypeCorrect == Spec => []TypeOK
  <1>1. IInv => TypeOK
    BY DEF IInv
  <1> QED BY <1>1, Invariance, PTL

\* NeverGoesBack: over any network the accepted packets ascend, because each
\* is the one expected and seq_no only grows.
THEOREM ReceiverNeverGoesBack == Spec => []NeverGoesBack
  <1>1. IInv => NeverGoesBack
    BY DEF IInv, Order
  <1> QED BY <1>1, Invariance, PTL

\* LossKeepsPrefix: over a network that only loses packets, what passes the
\* sequence test of udp_recv is a prefix of what udp_send sent; behind the
\* first loss nothing is accepted any more.
THEOREM LossLeavesPrefix == Spec => []LossKeepsPrefix
  <1>1. IInv => LossKeepsPrefix
    BY DEF IInv, LossInv
  <1> QED BY <1>1, Invariance, PTL

\* EndMeansAll: over a sound network and before quitting, the result 0 of
\* udp_recv says that the sender has finished and every packet was accepted.
THEOREM ZeroMeansEnd == Spec => []EndMeansAll
  <1>1. IInv => EndMeansAll
    BY DEF IInv, ZeroInv, SoundInv, EndMeansAll
  <1> QED BY <1>1, Invariance, PTL

\* CopiesEveryByte: however packets and requests are sized, and over any
\* network, udp_recv hands out exactly the bytes of the accepted packets, in
\* order, but for those it still keeps in nbuf.
THEOREM EveryByteCopiedOnce == Spec => []CopiesEveryByte
  <1>1. Init => StreamInv
    <2> SUFFICES ASSUME Init PROVE StreamInv
      OBVIOUS
    <2>1. delivered = <<>> /\ got = <<>> /\ stream = <<>> /\ Residue = <<>>
      BY DEF Init, Residue
    <2>2. <<>> \in ByteSeqs /\ <<>> \o <<>> \o <<>> = <<>>
      BY ConcatEmptySeq DEF ByteSeqs
    <2> QED BY <2>1, <2>2 DEF StreamInv, CopiesEveryByte
  <1>2. StreamInv => CopiesEveryByte
    BY DEF StreamInv
  <1> QED BY <1>1, <1>2, NextStream, Invariance, PTL DEF Spec

=============================================================================

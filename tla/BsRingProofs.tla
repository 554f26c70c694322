---------------------------- MODULE BsRingProofs ----------------------------
(***************************************************************************)
(* What dec_fill_bsbuffer guarantees for any size of the ring and of the   *)
(* fills, any stream, and a VPU that consumes at any time.                 *)
(***************************************************************************)
EXTENDS BsRing, SequenceTheorems, TLAPS

N == STREAM_BUF_SIZE

\* Occupied and Moved without the remainder.
Occ == IF wr >= rd THEN wr - rd ELSE wr - rd + N
At(ptr, k) == IF ptr + k < N THEN ptr + k ELSE ptr + k - N

\* How much a read has stored and Update has not yet announced.
Pending == IF fpc \in {"second", "update"} THEN nread ELSE 0

\* A fill in progress was given space for size bytes, and the VPU only makes
\* more; a second read begins where the first reached the end of the ring.
FillInv ==
    /\ fpc \in {"first", "second", "update"} => size > 0 /\ size + Occ <= N - 1
    /\ fpc = "second" => Splits /\ nread = room
    /\ fpc = "update" => nread <= size

\* The ring holds what was committed and not consumed.
FifoInv ==
    /\ Len(committed) = Len(consumed) + Occ
    /\ \A i \in 1 .. Len(consumed) : consumed[i] = committed[i]
    /\ \A k \in 0 .. Occ - 1 :
          ring[At(rd, k)] = committed[Len(consumed) + k + 1]

\* Behind the write pointer lie the last bytes read, in order.
PendingInv ==
    /\ Pending <= pos
    /\ \A k \in 0 .. Pending - 1 : ring[At(wr, k)] = pos - Pending + k + 1
    /\ \A i \in 1 .. Len(committed) : committed[i] <= pos - Pending

\* From a file every byte read is committed or pending, until the end.
FileInv ==
    source = "file" =>
        /\ fpc \in {"idle", "first"} => pos = Len(committed) \/ pos = length
        /\ fpc = "second" => pos = Len(committed) + nread
        /\ fpc = "update" => eos \/ pos = Len(committed) + nread

\* The source may answer with 0.
AtEnd == pos = length \/ (source = "net" /\ quitflag)

EndInv == ended \/ (fpc = "update" /\ eos) => AtEnd

IInv == TypeOK /\ FillInv /\ FifoInv /\ PendingInv /\ StreamInOrder /\ FileInv
        /\ EndInv

-----------------------------------------------------------------------------
(* Operators                                                               *)

\* Advancing a pointer into the ring wraps at most once.
LEMMA MovedIsAt ==
    ASSUME NEW ptr \in Addrs, NEW k \in 0 .. N
    PROVE  Moved(ptr, k) = At(ptr, k) /\ At(ptr, k) \in Addrs
  BY RingAssumption DEF Moved, At, Addrs, N

\* The distance between the pointers.
LEMMA OccupiedIsOcc ==
    ASSUME rd \in Addrs, wr \in Addrs
    PROVE  Occupied = Occ /\ Occ \in 0 .. N - 1
  BY RingAssumption DEF Occupied, Occ, Addrs, N

\* A function on 1 .. m is a sequence.
LEMMA FunctionIsSeq ==
    ASSUME NEW S, NEW m \in Nat, NEW f \in [1 .. m -> S]
    PROVE  f \in Seq(S) /\ Len(f) = m
  OBVIOUS

\* A fill of unspecified size takes whole blocks of what there is.
LEMMA BlocksFit ==
    ASSUME NEW a \in Nat
    PROVE  (a \div Block) * Block \in Nat /\ (a \div Block) * Block <= a
  BY RingAssumption

\* FillSize never asks for more than the space.
LEMMA FillFits ==
    ASSUME rd \in Addrs, wr \in Addrs, NEW d \in Fills
    PROVE  /\ FillSize(d) \in 0 .. N - 1
           /\ FillSize(d) + Occ <= N - 1
  <1>1. space \in Nat /\ space = N - Occ - 1 /\ N \in Nat /\ Occ \in Nat
    BY OccupiedIsOcc, RingAssumption DEF space, N
  <1>2. d \in Nat
    BY RingAssumption
  <1>3. CASE d = 0
    BY <1>1, <1>3, BlocksFit DEF FillSize
  <1>4. CASE d # 0
    BY <1>1, <1>2, <1>4 DEF FillSize
  <1> QED BY <1>3, <1>4

\* A read of k > 0 bytes returns an error, or at most k bytes and no more
\* than the source has; it returns 0 only at the end of the source.
LEMMA ReadFacts ==
    ASSUME TypeOK, NEW k \in Nat, k > 0, NEW r \in ReadResults(k)
    PROVE  /\ r \in Int
           /\ r >= 0 => r <= k /\ r <= length - pos
           /\ r = 0 => AtEnd
           /\ r < 0 /\ source = "file" => r = -1
  <1>1. length \in Nat /\ pos \in Nat /\ pos <= length
    BY RingAssumption DEF TypeOK
  <1>2. CASE source = "file"
    BY <1>1, <1>2 DEF ReadResults, Smaller, AtEnd
  <1>3. CASE source # "file"
    <2>1. source = "net"
      BY <1>3, RingAssumption DEF TypeOK
    <2>2. r \in {-1, EAGAIN} \cup 1 .. Smaller(k, length - pos)
              \cup {x \in {0} : pos = length \/ quitflag}
      BY <1>3 DEF ReadResults
    <2> QED BY <1>1, <2>1, <2>2 DEF Smaller, EAGAIN, AtEnd
  <1> QED BY <1>2, <1>3

-----------------------------------------------------------------------------
(* The invariant                                                           *)

\* The numbers of a state.
Numbers ==
    /\ N \in Nat /\ N > 0
    /\ length \in Nat /\ pos \in Nat /\ pos <= length
    /\ rd \in Nat /\ rd < N /\ wr \in Nat /\ wr < N
    /\ size \in Nat /\ nread \in Nat
    /\ Occ \in Nat /\ Occ <= N - 1
    /\ Len(committed) \in Nat /\ Len(consumed) \in Nat
    /\ \A i \in 1 .. Len(committed) : committed[i] \in 1 .. length
    /\ \A i \in 1 .. Len(consumed) : consumed[i] \in 1 .. length

LEMMA NumberFacts == TypeOK => Numbers
  <1> SUFFICES ASSUME TypeOK PROVE Numbers
    OBVIOUS
  <1>1. rd \in Addrs /\ wr \in Addrs /\ N \in Nat /\ N > 0
    BY RingAssumption DEF TypeOK, N
  <1>2. /\ length \in Nat /\ pos \in Nat /\ pos <= length
        /\ size \in Nat /\ nread \in Nat
        /\ rd \in Nat /\ rd < N /\ wr \in Nat /\ wr < N
    BY <1>1, RingAssumption DEF TypeOK, Addrs, N
  <1>3. Occ \in Nat /\ Occ <= N - 1
    BY <1>1, OccupiedIsOcc
  <1>4. committed \in Seq(1 .. length) /\ consumed \in Seq(1 .. length)
    BY DEF TypeOK
  <1> QED BY <1>1, <1>2, <1>3, <1>4 DEF Numbers

LEMMA InitInv == Init => IInv
  <1> SUFFICES ASSUME Init PROVE IInv
    OBVIOUS
  <1>1. /\ N \in Nat /\ N > 0 /\ length \in Nat /\ 0 \in Addrs
        /\ length \in 0 .. MaxBytes
    BY RingAssumption DEF Init, Addrs, N
  <1>2. ring \in [Addrs -> 0 .. length]
    BY <1>1 DEF Init
  <1>3. committed \in Seq(1 .. length) /\ consumed \in Seq(1 .. length)
        /\ Len(committed) = 0 /\ Len(consumed) = 0
    BY DEF Init
  <1>4. size \in 0 .. N - 1 /\ nread \in 0 .. N - 1 /\ pos \in 0 .. length
    BY <1>1 DEF Init
  <1>5. TypeOK
    BY <1>1, <1>2, <1>3, <1>4 DEF Init, TypeOK, N
  <1>6. FillInv /\ EndInv
    BY DEF Init, FillInv, EndInv, AtEnd
  <1>7. FifoInv /\ StreamInOrder /\ FileInv
    BY <1>1, <1>3 DEF Init, FifoInv, Occ, StreamInOrder, FileInv
  <1>8. PendingInv
    BY <1>3 DEF Init, PendingInv, Pending
  <1> QED BY <1>5, <1>6, <1>7, <1>8 DEF IInv

\* The VPU takes the oldest byte and leaves the fill more space.
LEMMA ConsumeInv == IInv /\ Consume => IInv'
  <1> SUFFICES ASSUME IInv, Consume PROVE IInv'
    OBVIOUS
  <1>u. /\ UNCHANGED <<source, length, quitflag, pos, ring, wr, ended, fpc, size, nread,
                       eos, fill_end_bs, committed>>
        /\ rd # wr /\ consumed' = Append(consumed, ring[rd])
        /\ rd' = (rd + 1) % STREAM_BUF_SIZE
    BY DEF Consume, envVars
  <1>n. Numbers
    BY NumberFacts DEF IInv
  <1>1. rd' = At(rd, 1) /\ rd' \in Addrs
    <2>1. rd \in Addrs /\ 1 \in 0 .. N
      BY <1>n DEF IInv, TypeOK, Numbers
    <2> QED BY <2>1, <1>u, MovedIsAt DEF Moved
  <1>2. Occ > 0 /\ Occ' = Occ - 1
    BY <1>1, <1>u, <1>n DEF Occ, At, Numbers, N
  <1>3. At(rd, 0) = rd /\ \A k \in 0 .. Occ - 2 : At(rd, k + 1) = At(rd', k)
    BY <1>1, <1>2, <1>n DEF At, Occ, Numbers
  <1>4. ring[rd] = committed[Len(consumed) + 1]
    <2>1. 0 \in 0 .. Occ - 1
      BY <1>2, <1>n DEF Numbers
    <2>2. ring[At(rd, 0)] = committed[Len(consumed) + 0 + 1]
      BY <2>1 DEF IInv, FifoInv
    <2> QED BY <2>2, <1>3, <1>n DEF Numbers
  <1>5. /\ consumed' \in Seq(1 .. length)
        /\ Len(consumed') = Len(consumed) + 1
        /\ \A i \in 1 .. Len(consumed) : consumed'[i] = consumed[i]
        /\ consumed'[Len(consumed) + 1] = ring[rd]
    <2>1. Len(consumed) + 1 \in 1 .. Len(committed)
      BY <1>2, <1>n DEF IInv, FifoInv, Numbers
    <2>2. ring[rd] \in 1 .. length
      BY <2>1, <1>4, <1>n DEF Numbers
    <2>3. consumed \in Seq(1 .. length)
      BY DEF IInv, TypeOK
    <2> QED BY <1>u, <2>2, <2>3
  <1>6. TypeOK'
    BY <1>u, <1>1, <1>5 DEF IInv, TypeOK
  <1>7. FillInv'
    <2>1. Splits' <=> Splits
      BY <1>u DEF Splits
    <2>2. room' = room
      BY <1>u DEF room
    <2> QED BY <1>u, <1>2, <1>n, <2>1, <2>2 DEF IInv, FillInv, Numbers, N
  <1>8. FifoInv'
    <2>1. Len(committed') = Len(consumed') + Occ'
      <3>1. Len(committed) = Len(consumed) + Occ
        BY DEF IInv, FifoInv
      <3>2. Len(consumed) \in Nat /\ Occ \in Nat
        BY <1>n DEF Numbers
      <3> QED BY <1>u, <1>2, <1>5, <3>1, <3>2
    <2>2. \A i \in 1 .. Len(consumed') : consumed'[i] = committed'[i]
      BY <1>u, <1>4, <1>5, <1>n DEF IInv, FifoInv, Numbers
    <2>3. ASSUME NEW k \in 0 .. Occ' - 1
          PROVE  ring'[At(rd', k)] = committed'[Len(consumed') + k + 1]
      <3>1. k + 1 \in 0 .. Occ - 1 /\ k \in 0 .. Occ - 2
        BY <1>2, <1>n DEF Numbers
      <3>2. ring[At(rd, k + 1)] = committed[Len(consumed) + (k + 1) + 1]
        BY <3>1 DEF IInv, FifoInv
      <3>3. Len(consumed) + (k + 1) + 1 = Len(consumed') + k + 1
        BY <1>5, <1>n DEF Numbers
      <3> QED BY <3>1, <3>2, <3>3, <1>3, <1>u
    <2> QED BY <2>1, <2>2, <2>3 DEF FifoInv, At, N
  <1>9. PendingInv' /\ StreamInOrder' /\ FileInv' /\ EndInv'
    BY <1>u DEF IInv, PendingInv, Pending, At, N, StreamInOrder, FileInv, EndInv, AtEnd
  <1> QED BY <1>6, <1>7, <1>8, <1>9 DEF IInv

\* A step that changes neither the ring nor the stream.
LEMMA Quiet ==
    ASSUME IInv,
           UNCHANGED <<source, length, quitflag, pos, ring, rd, wr, committed, consumed>>
    PROVE  FifoInv' /\ StreamInOrder' /\ Occ' = Occ
  BY DEF IInv, FifoInv, StreamInOrder, Occ, At, N

\* A fill begins with nothing pending and within the space.
LEMMA FillBeginInv == IInv /\ FillBegin => IInv'
  <1> SUFFICES ASSUME IInv, FillBegin PROVE IInv'
    OBVIOUS
  <1>u. /\ UNCHANGED <<source, length, quitflag, pos, ring, rd, wr, ended, nread,
                       fill_end_bs, committed, consumed>>
        /\ fpc = "idle" /\ eos' = FALSE
        /\ fpc' = IF size' = 0 THEN "idle" ELSE "first"
    BY DEF FillBegin, FillStep, envVars
  <1>1. PICK d \in Fills : size' = FillSize(d)
    BY DEF FillBegin
  <1>n. Numbers
    BY NumberFacts DEF IInv
  <1>2. size' \in 0 .. N - 1 /\ size' + Occ <= N - 1
    BY <1>1, FillFits DEF IInv, TypeOK
  <1>q. FifoInv' /\ StreamInOrder' /\ Occ' = Occ
    BY <1>u, Quiet
  <1>3. TypeOK'
    BY <1>u, <1>2 DEF IInv, TypeOK, N
  <1>4. FillInv'
    <2>1. size' # 0 => size' > 0
      BY <1>2, <1>n DEF Numbers
    <2> QED BY <1>u, <1>2, <1>q, <2>1 DEF FillInv, N
  <1>5. PendingInv'
    BY <1>u DEF IInv, PendingInv, Pending, At, N
  <1>6. FileInv' /\ EndInv'
    BY <1>u DEF IInv, FileInv, EndInv, AtEnd
  <1> QED BY <1>q, <1>3, <1>4, <1>5, <1>6 DEF IInv

LEMMA VpuFailInv == IInv /\ VpuFail => IInv'
  <1> SUFFICES ASSUME IInv, VpuFail PROVE IInv'
    OBVIOUS
  <1>u. /\ UNCHANGED <<source, length, quitflag, pos, ring, rd, wr, ended, nread, size,
                       fill_end_bs, committed, consumed>>
        /\ fpc' = "failed" /\ eos' \in BOOLEAN
    BY DEF VpuFail, FillStep, envVars
  <1>n. Numbers
    BY NumberFacts DEF IInv
  <1>q. FifoInv' /\ StreamInOrder' /\ Occ' = Occ
    BY <1>u, Quiet
  <1>3. TypeOK'
    BY <1>u DEF IInv, TypeOK
  <1>4. FillInv' /\ FileInv' /\ EndInv'
    BY <1>u DEF IInv, FillInv, FileInv, EndInv, AtEnd
  <1>5. PendingInv'
    BY <1>u, <1>n DEF IInv, PendingInv, Pending, Numbers
  <1> QED BY <1>q, <1>3, <1>4, <1>5 DEF IInv

\* The user quits.
LEMMA QuitInv == IInv /\ Quit => IInv'
  <1> SUFFICES ASSUME IInv, Quit PROVE IInv'
    OBVIOUS
  <1>u. UNCHANGED <<source, length, pos, ring, rd, wr, ended, fpc, size, nread,
                    eos, fill_end_bs, committed, consumed>>
    BY DEF Quit
  <1>b. quitflag' \in BOOLEAN
    BY Zenon DEF Quit
  <1>1. TypeOK'
    BY <1>u, <1>b DEF IInv, TypeOK
  <1>2. EndInv'
    <2>1. AtEnd => AtEnd'
      BY <1>u DEF Quit, AtEnd
    <2> QED BY <1>u, <2>1 DEF IInv, EndInv
  <1>3. FillInv' /\ FifoInv' /\ PendingInv' /\ StreamInOrder' /\ FileInv'
    BY <1>u DEF IInv, FillInv, FifoInv, PendingInv, Pending, StreamInOrder,
                FileInv, Occ, At, N, Splits, room
  <1> QED BY <1>1, <1>2, <1>3 DEF IInv

\* A read that fails leaves the ring alone.  From a file that is the end of
\* the decoding; from the network the fill is abandoned and tried again.
LEMMA ReadFailsInv ==
    ASSUME IInv, FillStep, ReadStep, NEW r \in Int, ReadFails(r),
           source = "file" => r = -1, fpc \in {"first", "second"}
    PROVE  IInv'
  <1>u. /\ UNCHANGED <<source, length, quitflag, pos, ring, rd, wr, ended, nread, size, eos,
                       fill_end_bs, committed, consumed>>
        /\ fpc' = IF r = EAGAIN THEN "idle" ELSE "failed"
    BY DEF FillStep, ReadStep, ReadFails, envVars
  <1>n. Numbers
    BY NumberFacts DEF IInv
  <1>q. FifoInv' /\ StreamInOrder' /\ Occ' = Occ
    BY <1>u, Quiet
  <1>3. TypeOK'
    BY <1>u DEF IInv, TypeOK
  <1>4. FillInv' /\ EndInv'
    BY <1>u DEF IInv, FillInv, EndInv, AtEnd
  <1>5. PendingInv'
    BY <1>u, <1>n DEF IInv, PendingInv, Pending, Numbers
  <1>6. FileInv'
    BY <1>u DEF FileInv, EAGAIN
  <1> QED BY <1>q, <1>3, <1>4, <1>5, <1>6 DEF IInv

\* Storing r bytes from address a on, where none is unread, keeps the queue.
LEMMA StoreKeepsQueue ==
    ASSUME IInv, NEW a \in Nat, NEW r \in Nat, Store(a, r),
           pos + r <= length, a + r <= N,
           \A k \in 0 .. Occ - 1 : At(rd, k) \notin a .. a + r - 1,
           UNCHANGED <<source, length, quitflag, rd, wr, committed, consumed>>
    PROVE  /\ FifoInv' /\ StreamInOrder' /\ Occ' = Occ
           /\ ring' \in [Addrs -> 0 .. length] /\ pos' \in 0 .. length
           /\ \A b \in Addrs :
                 ring'[b] = IF b \in a .. a + r - 1 THEN pos + 1 + b - a
                                                    ELSE ring[b]
  <1>n. Numbers
    BY NumberFacts DEF IInv
  <1>s. pos \in Nat /\ length \in Nat /\ Occ \in Nat /\ N \in Nat
    BY <1>n DEF Numbers
  <1>1. /\ ring' = [b \in Addrs |-> IF b \in a .. a + r - 1 THEN pos + 1 + b - a
                                                           ELSE ring[b]]
        /\ pos' = pos + r
    BY DEF Store
  <1>2. \A b \in Addrs :
           ring'[b] = IF b \in a .. a + r - 1 THEN pos + 1 + b - a ELSE ring[b]
    BY <1>1
  <1>3. ring' \in [Addrs -> 0 .. length] /\ pos' \in 0 .. length
    <2>1. ring \in [Addrs -> 0 .. length]
      BY DEF IInv, TypeOK
    <2>2. ASSUME NEW b \in Addrs
          PROVE  (IF b \in a .. a + r - 1 THEN pos + 1 + b - a ELSE ring[b])
                    \in 0 .. length
      BY <2>1, <1>s
    <2> QED BY <1>1, <1>s, <2>2
  <1>4. Occ' = Occ /\ StreamInOrder'
    BY DEF Occ, N, IInv, StreamInOrder
  <1>5. \A k \in 0 .. Occ - 1 : ring'[At(rd, k)] = ring[At(rd, k)]
    <2>1. \A k \in 0 .. Occ - 1 : At(rd, k) \in Addrs
      <3>1. rd \in Addrs /\ Occ <= N - 1
        BY <1>n DEF IInv, TypeOK, Numbers
      <3> QED BY <3>1, <1>s, MovedIsAt
    <2> QED BY <2>1, <1>2
  <1>6. FifoInv'
    <2>1. \A k \in 0 .. Occ - 1 :
             ring'[At(rd, k)] = committed[Len(consumed) + k + 1]
      BY <1>5 DEF IInv, FifoInv
    <2>2. /\ Len(committed) = Len(consumed) + Occ
          /\ \A i \in 1 .. Len(consumed) : consumed[i] = committed[i]
      BY DEF IInv, FifoInv
    <2> QED BY <1>4, <2>1, <2>2 DEF FifoInv, At, N
  <1> QED BY <1>2, <1>3, <1>4, <1>6

\* The first read: up to the end of the ring, or all of it if that fits.
LEMMA FirstInv ==
    ASSUME IInv, FillStep, ReadStep, fpc = "first",
           NEW r \in ReadResults(IF Splits THEN room ELSE size), r >= 0,
           Store(wr, r), nread' = r, eos' = (r = 0),
           fpc' = IF Splits /\ r = room THEN "second" ELSE "update"
    PROVE  IInv'
  <1>u. UNCHANGED <<source, length, quitflag, rd, wr, ended, size, fill_end_bs, committed,
                    consumed>>
    BY DEF FillStep, ReadStep, envVars
  <1>n. Numbers
    BY NumberFacts DEF IInv
  <1>s. /\ pos \in Nat /\ length \in Nat /\ pos <= length /\ Occ \in Nat
        /\ N \in Nat /\ size \in Nat /\ wr \in Nat /\ wr < N /\ rd \in Nat
        /\ rd < N /\ room = N - wr /\ room \in Nat /\ room > 0
        /\ (Splits <=> wr + size > N)
    BY <1>n DEF Numbers, room, Splits, N
  <1>f. size > 0 /\ size + Occ <= N - 1
    BY DEF IInv, FillInv
  <1>r. /\ r \in Nat /\ pos + r <= length /\ r <= size /\ r <= room
        /\ r = 0 => AtEnd
    <2> DEFINE k == IF Splits THEN room ELSE size
    <2>1. k \in Nat /\ k > 0 /\ k <= size /\ k <= room
      BY <1>s, <1>f
    <2> HIDE DEF k
    <2>2. r \in ReadResults(k)
      BY DEF k
    <2>3. /\ r \in Int
          /\ r >= 0 => r <= k /\ r <= length - pos
          /\ r = 0 => AtEnd
      BY <2>1, <2>2, ReadFacts DEF IInv
    <2> QED BY <2>1, <2>3, <1>s
  <1>1. \A k \in 0 .. Occ - 1 : At(rd, k) \notin wr .. wr + r - 1
    BY <1>s, <1>f, <1>r DEF At, Occ
  <1>2. /\ FifoInv' /\ StreamInOrder' /\ Occ' = Occ
        /\ ring' \in [Addrs -> 0 .. length] /\ pos' \in 0 .. length
        /\ \A b \in Addrs :
              ring'[b] = IF b \in wr .. wr + r - 1 THEN pos + 1 + b - wr
                                                   ELSE ring[b]
    <2>1. wr + r <= N
      BY <1>s, <1>r
    <2> QED BY <1>u, <1>s, <1>r, <1>1, <2>1, StoreKeepsQueue
  <1>3. pos' = pos + r /\ Pending = 0 /\ Pending' = r
    BY DEF Store, Pending
  <1>4. TypeOK'
    <2>1. nread' \in 0 .. N - 1
      BY <1>r, <1>s, <1>f
    <2>2. fpc' \in {"second", "update"} /\ eos' \in BOOLEAN
      OBVIOUS
    <2> QED BY <1>u, <1>2, <2>1, <2>2 DEF IInv, TypeOK, N
  <1>5. FillInv'
    <2>1. (Splits' <=> Splits) /\ room' = room
      BY <1>u DEF Splits, room
    <2> QED BY <1>u, <1>f, <1>r, <1>2, <2>1 DEF FillInv, N
  <1>6. PendingInv'
    <2>1. ASSUME NEW k \in 0 .. r - 1
          PROVE  ring'[At(wr, k)] = pos' - r + k + 1
      <3>1. At(wr, k) = wr + k /\ wr + k \in Addrs /\ wr + k \in wr .. wr + r - 1
        BY <1>s, <1>r DEF At, Addrs, N
      <3>2. ring'[wr + k] = pos + 1 + (wr + k) - wr
        BY <3>1, <1>2
      <3> QED BY <3>1, <3>2, <1>3, <1>s, <1>r
    <2>2. \A i \in 1 .. Len(committed) : committed[i] <= pos' - r
      <3>1. \A i \in 1 .. Len(committed) : committed[i] <= pos - 0
        BY <1>3 DEF IInv, PendingInv
      <3>2. pos' - r = pos /\ pos - 0 = pos
        BY <1>3, <1>s, <1>r
      <3> QED BY <3>1, <3>2
    <2>3. r <= pos'
      BY <1>3, <1>s, <1>r
    <2> QED BY <1>u, <1>3, <2>1, <2>2, <2>3 DEF PendingInv, At, N
  <1>7. EndInv'
    <2>1. CASE r = 0
      <3>1. AtEnd /\ pos' = pos
        BY <2>1, <1>3, <1>r, <1>s
      <3> QED BY <3>1, <1>u DEF EndInv, AtEnd
    <2>2. CASE r # 0
      <3>1. pos # length
        BY <2>2, <1>r, <1>s
      <3> QED BY <2>2, <3>1, <1>u DEF IInv, EndInv, AtEnd
    <2> QED BY <2>1, <2>2
  <1>8. FileInv'
    <2> SUFFICES ASSUME source = "file" PROVE FileInv'
      BY <1>u DEF FileInv
    <2>1. pos = Len(committed) \/ pos = length
      BY DEF IInv, FileInv
    <2>2. pos = length => r = 0
      BY <1>r, <1>s
    <2>3. r # 0 => pos' = Len(committed') + nread'
      BY <2>1, <2>2, <1>3, <1>u
    <2>4. fpc' = "second" => r # 0
      BY <1>s
    <2> QED BY <2>3, <2>4, <1>u DEF FileInv
  <1> QED BY <1>2, <1>4, <1>5, <1>6, <1>7, <1>8 DEF IInv

\* The second read: the rest, at the start of the ring.
LEMMA SecondInv ==
    ASSUME IInv, FillStep, ReadStep, fpc = "second",
           NEW r \in ReadResults(size - room), r >= 0,
           Store(0, r), nread' = TotalRead(r), eos' = (r = 0), fpc' = "update"
    PROVE  IInv'
  <1>u. UNCHANGED <<source, length, quitflag, rd, wr, ended, size, fill_end_bs, committed,
                    consumed>>
    BY DEF FillStep, ReadStep, envVars
  <1>n. Numbers
    BY NumberFacts DEF IInv
  <1>s. /\ pos \in Nat /\ length \in Nat /\ pos <= length /\ Occ \in Nat
        /\ N \in Nat /\ size \in Nat /\ wr \in Nat /\ wr < N /\ rd \in Nat
        /\ rd < N /\ room = N - wr /\ room \in Nat /\ room > 0 /\ 0 \in Nat
    BY <1>n DEF Numbers, room, N
  <1>f. size + Occ <= N - 1 /\ wr + size > N /\ nread = room
    BY DEF IInv, FillInv, Splits, N
  <1>r. /\ r \in Nat /\ pos + r <= length /\ nread + r <= size
        /\ r = 0 => AtEnd
    <2> DEFINE k == size - room
    <2>1. k \in Nat /\ k > 0
      BY <1>s, <1>f
    <2> HIDE DEF k
    <2>2. r \in ReadResults(k)
      BY DEF k
    <2>3. /\ r \in Int
          /\ r >= 0 => r <= k /\ r <= length - pos
          /\ r = 0 => AtEnd
      BY <2>1, <2>2, ReadFacts DEF IInv
    <2> QED BY <2>3, <1>s, <1>f DEF k
  <1>1. r + Occ < wr
    BY <1>s, <1>f, <1>r
  <1>2. \A k \in 0 .. Occ - 1 : At(rd, k) \notin 0 .. 0 + r - 1
    BY <1>s, <1>1, <1>r DEF At, Occ
  <1>3. /\ FifoInv' /\ StreamInOrder' /\ Occ' = Occ
        /\ ring' \in [Addrs -> 0 .. length] /\ pos' \in 0 .. length
        /\ \A b \in Addrs :
              ring'[b] = IF b \in 0 .. 0 + r - 1 THEN pos + 1 + b - 0
                                                 ELSE ring[b]
    <2>1. 0 + r <= N
      BY <1>s, <1>r, <1>1
    <2> QED BY <1>u, <1>s, <1>r, <1>2, <2>1, StoreKeepsQueue
  <1>4. pos' = pos + r /\ Pending = nread /\ Pending' = nread + r
        /\ nread' = nread + r
    BY DEF Store, Pending, TotalRead
  <1>5. TypeOK'
    <2>1. nread' \in 0 .. N - 1
      BY <1>4, <1>r, <1>s, <1>f
    <2> QED BY <1>u, <1>3, <2>1 DEF IInv, TypeOK, N
  <1>6. FillInv'
    BY <1>u, <1>f, <1>r, <1>3, <1>4 DEF IInv, FillInv, N
  <1>7. PendingInv'
    <2>0. /\ nread <= pos
          /\ \A k \in 0 .. nread - 1 : ring[At(wr, k)] = pos - nread + k + 1
          /\ \A i \in 1 .. Len(committed) : committed[i] <= pos - nread
      BY <1>4 DEF IInv, PendingInv
    <2>s. nread \in Nat /\ pos' - (nread + r) = pos - nread
      BY <1>4, <1>s, <1>f, <1>r
    <2>1. ASSUME NEW k \in 0 .. (nread + r) - 1
          PROVE  ring'[At(wr, k)] = pos' - (nread + r) + k + 1
      <3>1. CASE k < nread
        <4>1. /\ k \in 0 .. nread - 1 /\ At(wr, k) \in Addrs
              /\ At(wr, k) \notin 0 .. 0 + r - 1
          BY <3>1, <2>s, <1>s, <1>f, <1>1, <1>r DEF At, Addrs, N
        <4> QED BY <4>1, <2>0, <2>s, <1>3
      <3>2. CASE ~(k < nread)
        <4>1. /\ At(wr, k) = k - nread /\ k - nread \in Addrs
              /\ k - nread \in 0 .. 0 + r - 1
          BY <3>2, <2>s, <1>s, <1>f, <1>1, <1>r DEF At, Addrs, N
        <4>2. ring'[k - nread] = pos + 1 + (k - nread) - 0
          BY <4>1, <1>3
        <4> QED BY <4>1, <4>2, <2>s, <1>s
      <3> QED BY <3>1, <3>2
    <2>2. \A i \in 1 .. Len(committed) : committed[i] <= pos' - (nread + r)
      BY <2>0, <2>s
    <2>3. nread + r <= pos'
      BY <2>0, <2>s, <1>4, <1>s, <1>r
    <2> QED BY <1>u, <1>4, <2>1, <2>2, <2>3 DEF PendingInv, At, N
  <1>8. EndInv'
    <2>1. CASE r = 0
      <3>1. AtEnd /\ pos' = pos
        BY <2>1, <1>4, <1>r, <1>s
      <3> QED BY <3>1, <1>u DEF EndInv, AtEnd
    <2>2. CASE r # 0
      <3>1. pos # length
        BY <2>2, <1>r, <1>s
      <3> QED BY <2>2, <3>1, <1>u DEF IInv, EndInv, AtEnd
    <2> QED BY <2>1, <2>2
  <1>9. FileInv'
    <2> SUFFICES ASSUME source = "file" PROVE FileInv'
      BY <1>u DEF FileInv
    <2>1. pos = Len(committed) + nread
      BY DEF IInv, FileInv
    <2>2. Len(committed) \in Nat /\ nread \in Nat
      BY <1>n DEF Numbers
    <2>3. pos' = Len(committed') + nread'
      BY <2>1, <2>2, <1>4, <1>u, <1>r
    <2> QED BY <2>3 DEF FileInv
  <1> QED BY <1>3, <1>5, <1>6, <1>7, <1>8, <1>9 DEF IInv

\* The VPU is told of what was read: it joins the queue behind what is there.
LEMMA UpdateInv == IInv /\ Update => IInv'
  <1> SUFFICES ASSUME IInv, Update PROVE IInv'
    OBVIOUS
  <1>u. /\ UNCHANGED <<source, length, quitflag, rd, consumed, pos, ring, size, nread, eos>>
        /\ fpc = "update" /\ fpc' = "idle" /\ fill_end_bs' = eos
    BY DEF Update, FillStep, envVars
  <1>n. Numbers
    BY NumberFacts DEF IInv
  <1>s. /\ pos \in Nat /\ length \in Nat /\ pos <= length /\ Occ \in Nat
        /\ N \in Nat /\ wr \in Nat /\ wr < N /\ rd \in Nat /\ rd < N
        /\ nread \in Nat /\ Len(committed) \in Nat /\ Len(consumed) \in Nat
    BY <1>n DEF Numbers
  <1>f. nread + Occ <= N - 1
    <2>1. size + Occ <= N - 1 /\ nread <= size /\ size \in Nat
      BY <1>u, <1>n DEF IInv, FillInv, Numbers
    <2> QED BY <2>1, <1>s
  <1>p. /\ nread <= pos
        /\ \A k \in 0 .. nread - 1 : ring[At(wr, k)] = pos - nread + k + 1
        /\ \A i \in 1 .. Len(committed) : committed[i] <= pos - nread
    BY <1>u DEF IInv, PendingInv, Pending
  <1>1. CASE eos
    <2>1. ended' = TRUE /\ UNCHANGED <<wr, committed>>
      BY <1>1 DEF Update
    <2>q. FifoInv' /\ StreamInOrder' /\ Occ' = Occ
      BY <1>u, <2>1, Quiet
    <2>2. TypeOK'
      BY <1>u, <2>1 DEF IInv, TypeOK
    <2>3. FillInv'
      BY <1>u DEF FillInv
    <2>4. AtEnd' /\ (source' = "file" => pos' = length')
      BY <1>1, <1>u DEF IInv, EndInv, AtEnd
    <2>5. EndInv' /\ FileInv'
      BY <2>4, <1>u DEF EndInv, FileInv
    <2>6. PendingInv'
      <3>1. \A i \in 1 .. Len(committed) : committed[i] <= pos - 0
        BY <1>p, <1>s, <1>n DEF Numbers
      <3> QED BY <3>1, <1>u, <1>s, <2>1 DEF PendingInv, Pending
    <2> QED BY <2>q, <2>2, <2>3, <2>5, <2>6 DEF IInv
  <1>2. CASE ~eos
    <2> DEFINE new == [k \in 1 .. nread |-> ring[Moved(wr, k - 1)]]
    <2>1. wr' = Moved(wr, nread) /\ committed' = committed \o new
          /\ ended' = ended
      BY <1>2 DEF Update
    <2>2. wr' = At(wr, nread) /\ wr' \in Addrs
      <3>1. wr \in Addrs /\ nread \in 0 .. N
        BY <1>s, <1>f DEF IInv, TypeOK
      <3> QED BY <2>1, <3>1, MovedIsAt
    <2>3. \A k \in 1 .. nread : new[k] = pos - nread + k
      <3> SUFFICES ASSUME NEW k \in 1 .. nread PROVE new[k] = pos - nread + k
        OBVIOUS
      <3>1. wr \in Addrs /\ k - 1 \in 0 .. N /\ k - 1 \in 0 .. nread - 1
        BY <1>s, <1>f DEF IInv, TypeOK
      <3>2. new[k] = ring[At(wr, k - 1)]
        BY <3>1, MovedIsAt
      <3>3. ring[At(wr, k - 1)] = pos - nread + (k - 1) + 1
        BY <3>1, <1>p
      <3> QED BY <3>2, <3>3, <1>s
    <2>4. new \in Seq(1 .. length) /\ Len(new) = nread
      <3>1. \A k \in 1 .. nread : new[k] \in 1 .. length
        BY <2>3, <1>p, <1>s
      <3>2. new = [k \in 1 .. nread |-> new[k]]
        OBVIOUS
      <3> HIDE DEF new
      <3> QED BY <3>1, <3>2, <1>s
    <2> HIDE DEF new
    <2>5. /\ committed' \in Seq(1 .. length)
          /\ Len(committed') = Len(committed) + nread
          /\ \A i \in 1 .. Len(committed) : committed'[i] = committed[i]
          /\ \A k \in 1 .. nread :
                committed'[Len(committed) + k] = pos - nread + k
      <3>1. committed \in Seq(1 .. length)
        BY DEF IInv, TypeOK
      <3>2. /\ committed' \in Seq(1 .. length)
            /\ Len(committed') = Len(committed) + nread
            /\ \A i \in 1 .. Len(committed) + nread :
                  committed'[i] = IF i <= Len(committed) THEN committed[i]
                                  ELSE new[i - Len(committed)]
        BY <2>1, <2>4, <3>1, ConcatProperties
      <3>3. ASSUME NEW k \in 1 .. nread
            PROVE  committed'[Len(committed) + k] = pos - nread + k
        <4>1. /\ Len(committed) + k \in 1 .. Len(committed) + nread
              /\ ~(Len(committed) + k <= Len(committed))
              /\ Len(committed) + k - Len(committed) = k
          BY <1>s
        <4>2. committed'[Len(committed) + k] = new[k]
          BY <3>2, <4>1
        <4> QED BY <4>2, <2>3
      <3>4. \A i \in 1 .. Len(committed) : committed'[i] = committed[i]
        BY <3>2, <1>s
      <3> QED BY <3>2, <3>3, <3>4
    <2>6. Occ' = Occ + nread
      BY <2>2, <1>u, <1>s, <1>f DEF Occ, At, N
    <2>7. TypeOK'
      BY <1>u, <2>1, <2>2, <2>5 DEF IInv, TypeOK
    <2>8. FifoInv'
      <3>0. /\ Len(committed) = Len(consumed) + Occ
            /\ \A i \in 1 .. Len(consumed) : consumed[i] = committed[i]
            /\ \A k \in 0 .. Occ - 1 :
                  ring[At(rd, k)] = committed[Len(consumed) + k + 1]
        BY DEF IInv, FifoInv
      <3>1. Len(committed') = Len(consumed') + Occ'
        BY <3>0, <2>5, <2>6, <1>u, <1>s
      <3>2. \A i \in 1 .. Len(consumed') : consumed'[i] = committed'[i]
        BY <3>0, <2>5, <1>u, <1>s
      <3>3. ASSUME NEW k \in 0 .. Occ + nread - 1
            PROVE  ring[At(rd, k)] = committed'[Len(consumed) + k + 1]
        <4>1. CASE k < Occ
          <5>1. k \in 0 .. Occ - 1 /\ Len(consumed) + k + 1 \in 1 .. Len(committed)
            BY <4>1, <3>0, <1>s
          <5> QED BY <5>1, <3>0, <2>5
        <4>2. CASE ~(k < Occ)
          <5>1. /\ k - Occ \in 0 .. nread - 1
                /\ k - Occ + 1 \in 1 .. nread
                /\ Len(consumed) + k + 1 = Len(committed) + (k - Occ + 1)
            BY <4>2, <3>0, <1>s
          <5>2. At(rd, k) = At(wr, k - Occ)
            BY <5>1, <1>s, <1>f DEF At, Occ
          <5>3. ring[At(wr, k - Occ)] = pos - nread + (k - Occ) + 1
            BY <5>1, <1>p
          <5>4. committed'[Len(committed) + (k - Occ + 1)]
                   = pos - nread + (k - Occ + 1)
            BY <5>1, <2>5
          <5> QED BY <5>1, <5>2, <5>3, <5>4, <1>s
        <4> QED BY <4>1, <4>2
      <3>4. \A k \in 0 .. Occ' - 1 :
               ring'[At(rd, k)'] = committed'[Len(consumed') + k + 1]
        <4> SUFFICES ASSUME NEW k \in 0 .. Occ' - 1
                     PROVE  ring'[At(rd, k)'] = committed'[Len(consumed') + k + 1]
          OBVIOUS
        <4>1. At(rd, k)' = At(rd, k)
          BY <1>u DEF At, N
        <4>2. k \in 0 .. Occ + nread - 1
          <5>1. Occ' - 1 = Occ + nread - 1
            BY <2>6, <1>s
          <5> QED BY <5>1
        <4> QED BY <3>3, <4>1, <4>2, <1>u
      <3> QED BY <3>1, <3>2, <3>4 DEF FifoInv
    <2>9. FillInv' /\ EndInv'
      BY <1>u, <2>1 DEF IInv, FillInv, EndInv, AtEnd
    <2>10. PendingInv'
      <3>1. ASSUME NEW i \in 1 .. Len(committed') PROVE committed'[i] <= pos
        <4>1. CASE i \in 1 .. Len(committed)
          <5>1. committed[i] \in 1 .. length
            BY <4>1, <1>n DEF Numbers
          <5> QED BY <4>1, <5>1, <2>5, <1>p, <1>s
        <4>2. CASE i \notin 1 .. Len(committed)
          <5>1. PICK k \in 1 .. nread : i = Len(committed) + k
            <6>1. i - Len(committed) \in 1 .. nread
              BY <4>2, <2>5, <1>s
            <6> QED BY <6>1, <1>s
          <5>2. committed'[i] = pos - nread + k
            BY <5>1, <2>5
          <5> QED BY <5>2, <1>s
        <4> QED BY <4>1, <4>2
      <3>2. pos' - 0 = pos /\ 0 <= pos
        BY <1>u, <1>s
      <3> QED BY <3>1, <3>2, <1>u DEF PendingInv, Pending
    <2>11. StreamInOrder'
      <3>0. /\ \A i, j \in 1 .. Len(committed) :
                  i < j => committed[i] < committed[j]
            /\ source = "file" =>
                  \A i \in 1 .. Len(committed) : committed[i] = i
        BY DEF IInv, StreamInOrder
      <3>s. \A i \in 1 .. Len(committed') :
               \/ i \in 1 .. Len(committed)
               \/ i - Len(committed) \in 1 .. nread
                  /\ committed'[i] = pos - nread + (i - Len(committed))
        <4> SUFFICES ASSUME NEW i \in 1 .. Len(committed'),
                            i \notin 1 .. Len(committed)
                     PROVE  /\ i - Len(committed) \in 1 .. nread
                            /\ committed'[i] = pos - nread + (i - Len(committed))
          OBVIOUS
        <4>1. i - Len(committed) \in 1 .. nread
          BY <2>5, <1>s
        <4>2. committed'[Len(committed) + (i - Len(committed))]
                 = pos - nread + (i - Len(committed))
          BY <4>1, <2>5
        <4>3. Len(committed) + (i - Len(committed)) = i
          BY <1>s
        <4> QED BY <4>1, <4>2, <4>3
      <3>1. ASSUME NEW i \in 1 .. Len(committed'), NEW j \in 1 .. Len(committed'),
                   i < j
            PROVE  committed'[i] < committed'[j]
        <4>1. CASE j \in 1 .. Len(committed)
          <5>1. i \in 1 .. Len(committed)
            BY <4>1, <3>1, <1>s
          <5>2. committed[i] < committed[j]
            BY <4>1, <5>1, <3>0, <3>1
          <5> QED BY <4>1, <5>1, <5>2, <2>5
        <4>2. CASE j \notin 1 .. Len(committed) /\ i \in 1 .. Len(committed)
          <5>1. committed[i] \in 1 .. length /\ committed[i] <= pos - nread
            BY <4>2, <1>n, <1>p DEF Numbers
          <5>2. committed'[i] = committed[i]
            BY <4>2, <2>5
          <5>3. /\ j - Len(committed) \in 1 .. nread
                /\ committed'[j] = pos - nread + (j - Len(committed))
            BY <4>2, <3>s
          <5> QED BY <5>1, <5>2, <5>3, <1>s
        <4>3. CASE j \notin 1 .. Len(committed) /\ i \notin 1 .. Len(committed)
          <5>1. /\ i - Len(committed) \in 1 .. nread
                /\ committed'[i] = pos - nread + (i - Len(committed))
            BY <4>3, <3>s
          <5>2. /\ j - Len(committed) \in 1 .. nread
                /\ committed'[j] = pos - nread + (j - Len(committed))
            BY <4>3, <3>s
          <5> QED BY <5>1, <5>2, <3>1, <1>s
        <4> QED BY <4>1, <4>2, <4>3
      <3>2. ASSUME source = "file", NEW i \in 1 .. Len(committed')
            PROVE  committed'[i] = i
        <4>1. pos = Len(committed) + nread
          BY <3>2, <1>u, <1>2 DEF IInv, FileInv
        <4>2. CASE i \in 1 .. Len(committed)
          BY <4>2, <3>0, <3>2, <2>5
        <4>3. CASE i \notin 1 .. Len(committed)
          BY <4>1, <4>3, <3>s, <1>s
        <4> QED BY <4>2, <4>3
      <3> QED BY <3>1, <3>2, <1>u DEF StreamInOrder
    <2>12. FileInv'
      <3> SUFFICES ASSUME source = "file" PROVE pos' = Len(committed')
        BY <1>u DEF FileInv
      <3>1. pos = Len(committed) + nread
        BY <1>u, <1>2 DEF IInv, FileInv
      <3> QED BY <3>1, <2>5, <1>u
    <2> QED BY <2>7, <2>8, <2>9, <2>10, <2>11, <2>12 DEF IInv
  <1> QED BY <1>1, <1>2

-----------------------------------------------------------------------------
(* The theorems                                                            *)

LEMMA Invariance == Spec => []IInv
  <1>1. IInv /\ [Next]_vars => IInv'
    <2> SUFFICES ASSUME IInv, [Next]_vars PROVE IInv'
      OBVIOUS
    <2>n. Numbers
      BY NumberFacts DEF IInv
    <2>1. CASE ReadFirst
      <3>1. PICK r \in ReadResults(IF Splits THEN room ELSE size) :
               \/ ReadFails(r)
               \/ /\ r >= 0 /\ Store(wr, r) /\ nread' = r /\ eos' = (r = 0)
                  /\ fpc' = IF Splits /\ r = room THEN "second" ELSE "update"
        BY <2>1 DEF ReadFirst
      <3>2. fpc = "first" /\ FillStep /\ ReadStep
        BY <2>1 DEF ReadFirst
      <3>3. r \in Int /\ (r < 0 /\ source = "file" => r = -1)
        <4> DEFINE k == IF Splits THEN room ELSE size
        <4>1. k \in Nat /\ k > 0
          <5>1. size > 0 /\ size \in Nat /\ room \in Nat /\ room > 0
            BY <3>2, <2>n DEF IInv, FillInv, Numbers, room, N
          <5> QED BY <5>1
        <4> HIDE DEF k
        <4>2. r \in ReadResults(k)
          BY DEF k
        <4> QED BY <4>1, <4>2, ReadFacts DEF IInv
      <3>4. CASE ReadFails(r)
        <4>1. source = "file" => r = -1
          BY <3>3, <3>4 DEF ReadFails
        <4> QED BY <3>2, <3>3, <3>4, <4>1, ReadFailsInv
      <3> QED BY <3>1, <3>2, <3>4, FirstInv
    <2>2. CASE ReadSecond
      <3>1. PICK r \in ReadResults(size - room) :
               \/ ReadFails(r)
               \/ /\ r >= 0 /\ Store(0, r) /\ nread' = TotalRead(r)
                  /\ eos' = (r = 0) /\ fpc' = "update"
        BY <2>2 DEF ReadSecond
      <3>2. fpc = "second" /\ FillStep /\ ReadStep
        BY <2>2 DEF ReadSecond
      <3>3. r \in Int /\ (r < 0 /\ source = "file" => r = -1)
        <4> DEFINE k == size - room
        <4>1. k \in Nat /\ k > 0
          BY <3>2, <2>n DEF IInv, FillInv, Numbers, room, Splits, N
        <4> HIDE DEF k
        <4>2. r \in ReadResults(k)
          BY DEF k
        <4> QED BY <4>1, <4>2, ReadFacts DEF IInv
      <3>4. CASE ReadFails(r)
        <4>1. source = "file" => r = -1
          BY <3>3, <3>4 DEF ReadFails
        <4> QED BY <3>2, <3>3, <3>4, <4>1, ReadFailsInv
      <3> QED BY <3>1, <3>2, <3>4, SecondInv
    <2>3. CASE UNCHANGED vars
      <3>1. UNCHANGED <<source, length, quitflag, pos, ring, rd, wr, ended, fpc, size,
                        nread, eos, fill_end_bs, committed, consumed>>
        BY <2>3 DEF vars, envVars
      <3>2. FifoInv' /\ StreamInOrder' /\ Occ' = Occ
        BY <3>1, Quiet
      <3>3. TypeOK' /\ FileInv' /\ EndInv'
        BY <3>1 DEF IInv, TypeOK, FileInv, EndInv, AtEnd
      <3>4. FillInv' /\ PendingInv'
        BY <3>1, <3>2 DEF IInv, FillInv, PendingInv, Pending, Splits, room, At, N
      <3> QED BY <3>2, <3>3, <3>4 DEF IInv
    <2> QED BY <2>1, <2>2, <2>3, ConsumeInv, FillBeginInv, UpdateInv, VpuFailInv,
               QuitInv
            DEF Next
  <1> QED BY <1>1, InitInv, PTL DEF Spec

\* TypeOK: dec_fill_bsbuffer never reads more than the ring's free space and
\* the write pointer stays inside the ring.
THEOREM TypeCorrect == Spec => []TypeOK
  <1>1. IInv => TypeOK
    BY DEF IInv
  <1> QED BY <1>1, Invariance, PTL

\* RingIsFifo: whatever the sizes and however far the VPU gets during a call,
\* a fill overwrites nothing the VPU has yet to read.
THEOREM RingStaysFifo == Spec => []RingIsFifo
  <1>1. IInv => RingIsFifo
    <2> SUFFICES ASSUME IInv PROVE RingIsFifo
      OBVIOUS
    <2>n. Numbers
      BY NumberFacts DEF IInv
    <2>1. /\ rd \in Addrs /\ wr \in Addrs /\ consumed \in Seq(1 .. length)
          /\ committed \in Seq(1 .. length)
      BY DEF IInv, TypeOK
    <2>2. Occupied = Occ /\ Occ \in Nat /\ Occ <= N - 1 /\ N \in Nat
          /\ Len(consumed) \in Nat
      BY <2>1, <2>n, OccupiedIsOcc DEF Numbers
    <2>3. /\ Len(committed) = Len(consumed) + Occ
          /\ \A i \in 1 .. Len(consumed) : consumed[i] = committed[i]
          /\ \A k \in 0 .. Occ - 1 :
                ring[At(rd, k)] = committed[Len(consumed) + k + 1]
      BY DEF IInv, FifoInv
    <2>4. \A k \in 1 .. Occ : Unread[k] = committed[Len(consumed) + k]
      <3> SUFFICES ASSUME NEW k \in 1 .. Occ
                   PROVE  Unread[k] = committed[Len(consumed) + k]
        OBVIOUS
      <3>1. k - 1 \in 0 .. N /\ k - 1 \in 0 .. Occ - 1 /\ k - 1 + 1 = k
        BY <2>2
      <3>2. Unread[k] = ring[(rd + k - 1) % STREAM_BUF_SIZE]
        BY <2>2 DEF Unread
      <3>3. (rd + (k - 1)) % STREAM_BUF_SIZE = At(rd, k - 1)
        BY <2>1, <3>1, MovedIsAt DEF Moved
      <3>4. rd + k - 1 = rd + (k - 1)
        BY <2>n DEF Numbers
      <3>5. ring[At(rd, k - 1)] = committed[Len(consumed) + (k - 1) + 1]
        BY <2>3, <3>1
      <3>6. Len(consumed) + (k - 1) + 1 = Len(consumed) + k
        BY <2>2
      <3> QED BY <3>2, <3>3, <3>4, <3>5, <3>6
    <2>5. Unread \in Seq(1 .. length) /\ Len(Unread) = Occ
      <3>1. \A k \in 1 .. Occ : Unread[k] \in 1 .. length
        <4> SUFFICES ASSUME NEW k \in 1 .. Occ PROVE Unread[k] \in 1 .. length
          OBVIOUS
        <4>1. Len(consumed) + k \in 1 .. Len(committed)
          BY <2>2, <2>3
        <4>2. committed[Len(consumed) + k] \in 1 .. length
          BY <4>1, <2>n DEF Numbers
        <4> QED BY <4>2, <2>4
      <3>2. Unread = [k \in 1 .. Occ |-> Unread[k]]
        BY <2>2 DEF Unread
      <3> DEFINE u == Unread
      <3>3. u = [k \in 1 .. Occ |-> u[k]] /\ \A k \in 1 .. Occ : u[k] \in 1 .. length
        BY <3>1, <3>2
      <3> HIDE DEF u
      <3>4. u \in Seq(1 .. length) /\ Len(u) = Occ
        <4>1. u \in [1 .. Occ -> 1 .. length]
          BY <3>3
        <4> QED BY <4>1, <2>2, FunctionIsSeq
      <3> QED BY <3>4 DEF u
    <2> DEFINE all == consumed \o Unread
    <2>6. /\ all \in Seq(1 .. length) /\ Len(all) = Len(consumed) + Occ
          /\ \A i \in 1 .. Len(consumed) + Occ :
                all[i] = IF i <= Len(consumed) THEN consumed[i]
                         ELSE Unread[i - Len(consumed)]
      BY <2>1, <2>5, ConcatProperties
    <2> HIDE DEF all
    <2>7. \A i \in 1 .. Len(committed) : all[i] = committed[i]
      <3> SUFFICES ASSUME NEW i \in 1 .. Len(committed)
                   PROVE  all[i] = committed[i]
        OBVIOUS
      <3>1. CASE i <= Len(consumed)
        BY <3>1, <2>2, <2>3, <2>6
      <3>2. CASE ~(i <= Len(consumed))
        <4>1. i - Len(consumed) \in 1 .. Occ
              /\ Len(consumed) + (i - Len(consumed)) = i
          BY <3>2, <2>2, <2>3
        <4>2. Unread[i - Len(consumed)]
                 = committed[Len(consumed) + (i - Len(consumed))]
          BY <4>1, <2>4
        <4> QED BY <3>2, <4>1, <4>2, <2>3, <2>6
      <3> QED BY <3>1, <3>2
    <2>8. all = committed
      BY <2>1, <2>3, <2>6, <2>7, SeqEqual
    <2> QED BY <2>8 DEF RingIsFifo, all
  <1> QED BY <1>1, Invariance, PTL

\* StreamInOrder: the VPU gets no byte twice or out of order, and of a file a
\* prefix, wherever the reads fall in the ring.
THEOREM StreamStaysInOrder == Spec => []StreamInOrder
  <1>1. IInv => StreamInOrder
    BY DEF IInv
  <1> QED BY <1>1, Invariance, PTL

\* EndMarkIsTrue: vpu_DecUpdateBitstreamBuffer(0) is called only when the
\* source has no more data, or the user has quit a network stream, whatever
\* the reads returned before.
THEOREM EndMarkStaysTrue == Spec => []EndMarkIsTrue
  <1>1. IInv => EndMarkIsTrue
    BY DEF IInv, EndInv, AtEnd, EndMarkIsTrue
  <1> QED BY <1>1, Invariance, PTL

=============================================================================

--------------------------- MODULE IpuQueueProofs ---------------------------
(***************************************************************************)
(* ipu_q and its user.  First, the ring buffer of vpu_test.h implements    *)
(* the bounded FIFO, for every QUEUE_SIZE and every set of indices.  Then  *)
(* the IPU display that passes its pictures through such a FIFO: the close *)
(* waits for the thread, and for a steady stream the display flags are     *)
(* those of the pictures on their way to the screen, for every number of   *)
(* buffers.                                                                *)
(***************************************************************************)
EXTENDS BufQueue, IpuDisplay, SequenceTheorems, FiniteSetTheorems, TLAPS

\* The C expression (i + 1) % QUEUE_SIZE, without the remainder.
LEMMA NextSlotWraps ==
    ASSUME NEW i \in Slots
    PROVE  NextSlot(i) = IF i = QUEUE_SIZE - 1 THEN 0 ELSE i + 1
<1>1. QUEUE_SIZE \in Nat /\ QUEUE_SIZE > 0 /\ i \in 0 .. QUEUE_SIZE - 1
  BY QueueAssumption DEF Slots
<1>2. CASE i = QUEUE_SIZE - 1
  <2>1. QUEUE_SIZE % QUEUE_SIZE = 0
    BY <1>1, Z3
  <2> QED BY <2>1, <1>1, <1>2 DEF NextSlot
<1>3. CASE i # QUEUE_SIZE - 1
  <2>1. i + 1 \in 0 .. QUEUE_SIZE - 1
    BY <1>1, <1>3
  <2>2. (i + 1) % QUEUE_SIZE = i + 1
    BY <1>1, <2>1, Z3
  <2> QED BY <2>2, <1>3 DEF NextSlot
<1> QED BY <1>2, <1>3

-----------------------------------------------------------------------------
(* The inductive invariant: a step of one thread leaves the other thread's *)
(* reservation alone, because each side writes only its own index.         *)

\* QueueInv holds initially: the queue is empty and both threads are idle.
LEMMA InitInv == QueueInit => QueueInv
BY QueueAssumption DEF QueueInit, QueueInv, QueueTypeOK, RoomReserved, StoredBeforeVisible,
   FrontStable, Slots

\* Every step of queue_buf, dequeue_buf or neither preserves QueueInv.
LEMMA NextInv == QueueInv /\ [QueueNext]_queueVars => QueueInv'
<1> SUFFICES ASSUME QueueInv, [QueueNext]_queueVars PROVE QueueInv'
  OBVIOUS
<1> USE QueueAssumption DEF QueueInv, QueueTypeOK, RoomReserved, StoredBeforeVisible,
        FrontStable, Slots, queue_size
<1>1. CASE PutFull
  BY <1>1 DEF PutFull
<1>2. ASSUME NEW v \in Values, PutBegin(v) PROVE QueueInv'
  BY <1>2, NextSlotWraps DEF PutBegin
<1>3. CASE PutStore
  BY <1>3 DEF PutStore
<1>4. CASE PutAdvance
  BY <1>4, NextSlotWraps DEF PutAdvance
<1>5. CASE GetEmpty
  BY <1>5 DEF GetEmpty
<1>6. CASE GetBegin
  BY <1>6 DEF GetBegin
<1>7. CASE GetLoad
  BY <1>7 DEF GetLoad
<1>8. CASE GetAdvance
  BY <1>8, NextSlotWraps DEF GetAdvance
<1>9. CASE UNCHANGED queueVars
  BY <1>9 DEF queueVars
<1> QED
  BY <1>1, <1>2, <1>3, <1>4, <1>5, <1>6, <1>7, <1>8, <1>9 DEF QueueNext

\* Type correctness and the thread reservations of the lock-free queue hold
\* in every reachable state, for every QUEUE_SIZE.
THEOREM QueueInvariant == QueueSpec => []QueueInv
BY InitInv, NextInv, PTL DEF QueueSpec

-----------------------------------------------------------------------------
(* Refinement: contents changes exactly when tail or head moves.           *)

ContentsOK ==
    /\ queue_size \in 0 .. QUEUE_SIZE - 1
    /\ contents \in Seq(Values \cup {0})
    /\ Len(contents) = queue_size

\* contents is a sequence of queue_size indices.
LEMMA ContentsType == QueueTypeOK => ContentsOK
<1> SUFFICES ASSUME QueueTypeOK PROVE ContentsOK
  OBVIOUS
<1>1. queue_size \in 0 .. QUEUE_SIZE - 1
  BY QueueAssumption DEF QueueTypeOK, Slots, queue_size
<1>2. ASSUME NEW k \in 1 .. queue_size PROVE SlotOf(k) \in Slots
  BY <1>1, QueueAssumption DEF QueueTypeOK, Slots, SlotOf
<1>3. contents \in [1 .. queue_size -> Values \cup {0}]
  BY <1>2 DEF contents, QueueTypeOK
<1> QED BY <1>1, <1>3 DEF ContentsOK

\* The same in the state a step leads to.
LEMMA ContentsTypeNext == QueueTypeOK' => ContentsOK'
BY ContentsType, PTL

\* Storing behind tail does not touch a queued element.
LEMMA StoreInvisible == QueueInv /\ PutStore => contents' = contents
<1> SUFFICES ASSUME QueueInv, PutStore PROVE contents' = contents
  OBVIOUS
<1>1. queue_size' = queue_size
  BY DEF PutStore, queue_size
<1>2. queue_size < QUEUE_SIZE - 1
  BY DEF QueueInv, RoomReserved, PutStore
<1>3. ASSUME NEW k \in 1 .. queue_size
      PROVE  list'[SlotOf(k)'] = list[SlotOf(k)]
  <2>1. SlotOf(k)' = SlotOf(k)
    BY DEF PutStore, SlotOf
  <2>2. SlotOf(k) # tail
    BY QueueAssumption, <1>2
       DEF QueueInv, QueueTypeOK, Slots, SlotOf, queue_size
  <2> QED BY <2>1, <2>2 DEF PutStore, QueueInv, QueueTypeOK
<1> QED BY <1>1, <1>3 DEF contents

\* Moving tail appends the stored index.
LEMMA AdvanceAppends ==
    QueueInv /\ QueueInv' /\ PutAdvance => contents' = Append(contents, pidx)
<1> SUFFICES ASSUME QueueInv, QueueInv', PutAdvance
             PROVE  contents' = Append(contents, pidx)
  OBVIOUS
<1>1. queue_size' = queue_size + 1
  BY NextSlotWraps, QueueAssumption
     DEF QueueInv, QueueTypeOK, Slots, RoomReserved, PutAdvance, queue_size
<1>2. \A k \in 1 .. queue_size + 1 : SlotOf(k)' = SlotOf(k)
  BY DEF PutAdvance, SlotOf
<1>3. SlotOf(queue_size + 1) = tail
  BY QueueAssumption DEF QueueInv, QueueTypeOK, Slots, SlotOf, queue_size
<1>4. list[tail] = pidx
  BY DEF QueueInv, StoredBeforeVisible, PutAdvance
<1>5. contents' = [k \in 1 .. queue_size + 1 |-> list[SlotOf(k)]]
  BY <1>1, <1>2 DEF contents, PutAdvance
<1>6. /\ contents' \in Seq(Values \cup {0})
      /\ Len(contents') = queue_size + 1
  <2>1. QueueTypeOK'
    BY DEF QueueInv
  <2> QED BY <2>1, <1>1, ContentsTypeNext DEF ContentsOK
<1>7. /\ contents \in Seq(Values \cup {0})
      /\ Len(contents) = queue_size
      /\ queue_size \in Nat
  BY ContentsType, QueueAssumption DEF QueueInv, ContentsOK
<1>8. pidx \in Values \cup {0}
  BY DEF QueueInv, QueueTypeOK
<1> DEFINE app == Append(contents, pidx)
<1>9. /\ app \in Seq(Values \cup {0})
      /\ Len(app) = queue_size + 1
      /\ \A k \in 1 .. queue_size : app[k] = contents[k]
      /\ app[queue_size + 1] = pidx
  BY <1>7, <1>8, AppendProperties
<1>10. ASSUME NEW k \in 1 .. queue_size + 1
       PROVE  contents'[k] = app[k]
  <2>1. contents'[k] = list[SlotOf(k)]
    BY <1>5
  <2>2. CASE k \in 1 .. queue_size
    BY <2>1, <2>2, <1>9 DEF contents
  <2>3. CASE k = queue_size + 1
    BY <2>1, <2>3, <1>9, <1>3, <1>4
  <2> QED BY <2>2, <2>3, <1>7
<1> QED BY <1>6, <1>9, <1>10, SeqEqual

\* Moving head removes the oldest index, which is the one returned.
LEMMA AdvanceRemoves ==
    QueueInv /\ QueueInv' /\ GetAdvance =>
        /\ contents # <<>>
        /\ cret = Head(contents)
        /\ contents' = Tail(contents)
<1> SUFFICES ASSUME QueueInv, QueueInv', GetAdvance
             PROVE  /\ contents # <<>>
                    /\ cret = Head(contents)
                    /\ contents' = Tail(contents)
  OBVIOUS
<1>1. /\ contents \in Seq(Values \cup {0})
      /\ Len(contents) = queue_size
      /\ queue_size \in Nat
  BY ContentsType, QueueAssumption DEF QueueInv, ContentsOK
<1>2. head # tail /\ cret = list[head]
  BY DEF QueueInv, FrontStable, GetAdvance
<1>3. queue_size > 0 /\ queue_size' = queue_size - 1
  BY <1>2, NextSlotWraps, QueueAssumption
     DEF QueueInv, QueueTypeOK, Slots, GetAdvance, queue_size
<1>4. contents # <<>>
  BY <1>1, <1>3, EmptySeq
<1>5. SlotOf(1) = head
  BY QueueAssumption DEF QueueInv, QueueTypeOK, Slots, SlotOf
<1>6. contents[1] = list[head]
  BY <1>1, <1>3, <1>5 DEF contents
<1>7. Head(contents) = contents[1]
  BY <1>1, <1>4
<1>8. /\ contents' \in Seq(Values \cup {0})
      /\ Len(contents') = queue_size - 1
  <2>1. QueueTypeOK'
    BY DEF QueueInv
  <2> QED BY <2>1, <1>3, ContentsTypeNext DEF ContentsOK
<1>9. /\ Tail(contents) \in Seq(Values \cup {0})
      /\ Len(Tail(contents)) = queue_size - 1
      /\ \A k \in 1 .. queue_size - 1 : Tail(contents)[k] = contents[k + 1]
  BY <1>1, <1>4, HeadTailProperties
<1>10. ASSUME NEW k \in 1 .. queue_size - 1
       PROVE  contents'[k] = Tail(contents)[k]
  <2>1. SlotOf(k)' = SlotOf(k + 1)
    <3>1. queue_size < QUEUE_SIZE
      BY ContentsType, QueueAssumption DEF QueueInv, ContentsOK
    <3>2. head' = IF head = QUEUE_SIZE - 1 THEN 0 ELSE head + 1
      BY NextSlotWraps DEF QueueInv, QueueTypeOK, GetAdvance
    <3>3. head \in 0 .. QUEUE_SIZE - 1 /\ QUEUE_SIZE \in Nat
      BY QueueAssumption DEF QueueInv, QueueTypeOK, Slots
    <3> QED BY <1>1, <3>1, <3>2, <3>3 DEF SlotOf
  <2>2. contents'[k] = list[SlotOf(k + 1)]
    BY <2>1, <1>3 DEF contents, GetAdvance
  <2>3. contents[k + 1] = list[SlotOf(k + 1)]
    BY <1>1 DEF contents
  <2> QED BY <2>2, <2>3, <1>9
<1>11. contents' = Tail(contents)
  BY <1>8, <1>9, <1>10, SeqEqual
<1> QED BY <1>2, <1>4, <1>6, <1>7, <1>11

\* Every step of the ring buffer is a step of the bounded FIFO or leaves it
\* unchanged.
LEMMA StepSimulation ==
    QueueInv /\ QueueInv' /\ [QueueNext]_queueVars => [Fifo!Next]_(Fifo!fvars)
<1> SUFFICES ASSUME QueueInv, QueueInv', [QueueNext]_queueVars
             PROVE  [Fifo!Next]_(Fifo!fvars)
  OBVIOUS
<1> USE DEF Fifo!Next, Fifo!fvars
<1>0. /\ contents \in Seq(Values \cup {0})
      /\ Len(contents) = queue_size
      /\ queue_size \in 0 .. QUEUE_SIZE - 1
  BY ContentsType DEF QueueInv, ContentsOK
<1>1. CASE PutFull
  <2>1. contents' = contents
    BY <1>1 DEF PutFull, contents, queue_size, SlotOf
  <2>2. queue_size = QUEUE_SIZE - 1
    BY <1>1, NextSlotWraps, QueueAssumption
       DEF PutFull, QueueInv, QueueTypeOK, Slots, queue_size
  <2> QED BY <1>0, <1>1, <2>1, <2>2 DEF PutFull, Fifo!PutFull
<1>2. ASSUME NEW v \in Values, PutBegin(v)
      PROVE  UNCHANGED (Fifo!fvars)
  BY <1>2 DEF PutBegin, contents, queue_size, SlotOf
<1>3. CASE PutStore
  BY <1>3, StoreInvisible DEF PutStore
<1>4. CASE PutAdvance
  <2>1. contents' = Append(contents, pidx)
    BY <1>4, AdvanceAppends
  <2>2. Len(contents) < QUEUE_SIZE - 1
    BY <1>0, <1>4 DEF QueueInv, RoomReserved, PutAdvance
  <2>3. pidx \in Values
    BY <1>4 DEF QueueInv, QueueTypeOK, PutAdvance
  <2>4. Fifo!Put(pidx)
    BY <1>4, <2>1, <2>2 DEF PutAdvance, Fifo!Put
  <2> QED BY <2>3, <2>4
<1>5. CASE GetEmpty
  <2>1. contents' = contents
    BY <1>5 DEF GetEmpty, contents, queue_size, SlotOf
  <2>2. queue_size = 0
    BY <1>5 DEF GetEmpty, QueueInv, QueueTypeOK, Slots, queue_size
  <2>3. contents = <<>>
    BY <1>0, <2>2, EmptySeq
  <2> QED BY <1>5, <2>1, <2>3 DEF GetEmpty, Fifo!GetEmpty
<1>6. CASE GetBegin
  BY <1>6 DEF GetBegin, contents, queue_size, SlotOf
<1>7. CASE GetLoad
  BY <1>7 DEF GetLoad, contents, queue_size, SlotOf
<1>8. CASE GetAdvance
  <2>1. Fifo!Get
    BY <1>8, AdvanceRemoves DEF GetAdvance, Fifo!Get
  <2> QED BY <2>1
<1>9. CASE UNCHANGED queueVars
  BY <1>9 DEF queueVars, contents, queue_size, SlotOf
<1> QED
  BY <1>1, <1>2, <1>3, <1>4, <1>5, <1>6, <1>7, <1>8, <1>9 DEF QueueNext

\* queue_buf and dequeue_buf, called by one producer and one consumer with no
\* lock, implement an atomic bounded first-in first-out queue, whatever the
\* number of slots.
THEOREM QueueImplementsFifo == QueueSpec => RefinesFifo
<1>1. QueueInit => Fifo!Init
  <2> SUFFICES ASSUME QueueInit PROVE Fifo!Init
    OBVIOUS
  <2>1. QueueInv
    BY InitInv
  <2>2. queue_size = 0
    BY DEF QueueInit, queue_size
  <2>3. contents = <<>>
    BY <2>1, <2>2, ContentsType, EmptySeq DEF QueueInv, ContentsOK
  <2> QED BY <2>3 DEF QueueInit, Fifo!Init
<1> QED
  BY <1>1, QueueInvariant, StepSimulation, PTL
     DEF QueueSpec, RefinesFifo, Fifo!Spec

\* head and tail stay in range, however often they wrap.
THEOREM QueueTypes == QueueSpec => []QueueTypeOK
<1>1. QueueInv => QueueTypeOK
  BY DEF QueueInv
<1> QED
  BY <1>1, QueueInvariant, PTL

\* The free slot queue_buf tested for is still free when it stores.
THEOREM RoomStaysReserved == QueueSpec => []RoomReserved
<1>1. QueueInv => RoomReserved
  BY DEF QueueInv
<1> QED
  BY <1>1, QueueInvariant, PTL

\* The element dequeue_buf loads is still the oldest one when head moves.
THEOREM FrontStaysStable == QueueSpec => []FrontStable
<1>1. QueueInv => FrontStable
  BY DEF QueueInv
<1> QED
  BY <1>1, QueueInvariant, PTL

-----------------------------------------------------------------------------
(* The IPU display.  First the facts that hold for every stream: types,    *)
(* what the thread's position says about its locals, and what the close    *)
(* has seen of the thread.                                                 *)

\* The thread has returned or is about to.
Ended == {"uninit", "exit", "failed"}

\* The thread has a picture in index.
Holding == {"task", "begun", "updated", "clear"}

\* ipu_running tells whether the thread is in its loop, index is a picture
\* while one is shown, and the IPU has a buffer once a picture was shown.
ThreadInv ==
    /\ TypeOK
    /\ ipu_running <=> ipc \notin {"start", "exit"}
    /\ ipc \in Holding => index \in Bufs
    /\ ipc \in {"begun", "updated", "clear"} => held # <<>>
    /\ ncount > 0 /\ ipc # "exit" => held # <<>>
    /\ pc = "put" /\ ~pp => interlaced \in stream

\* Storing into tmp_idx.
LEMMA StoreIndex ==
    ASSUME NEW S, NEW t \in S \X S \X S, NEW v \in S
    PROVE  /\ [t EXCEPT ![1] = v] = <<v, t[2], t[3]>>
           /\ [t EXCEPT ![2] = v] = <<t[1], v, t[3]>>
           /\ [t EXCEPT ![3] = v] = <<t[1], t[2], v>>
OBVIOUS

\* The sequences of buffers the steps build.
LEMMA BufferSeqs ==
    ASSUME NEW s \in Seq(Bufs), NEW a \in Bufs
    PROVE  /\ Append(s, a) \in Seq(Bufs) /\ Append(s, a) # <<>>
           /\ <<a>> \in Seq(Bufs) /\ <<a>> # <<>>
           /\ s # <<>> => /\ <<Last(s), a>> \in Seq(Bufs)
                          /\ <<Last(s), a>> # <<>>
                          /\ Head(s) \in Bufs /\ Tail(s) \in Seq(Bufs)
<1>1. Append(s, a) \in Seq(Bufs) /\ Append(s, a) # <<>>
  BY AppendProperties
<1>2. <<a>> \in Seq(Bufs) /\ <<a>> # <<>>
  OBVIOUS
<1>3. ASSUME s # <<>>
      PROVE  Last(s) \in Bufs /\ Head(s) \in Bufs /\ Tail(s) \in Seq(Bufs)
  BY <1>3 DEF Last
<1> QED BY <1>1, <1>2, <1>3

\* The initial state.
LEMMA InitThread == Init => ThreadInv
<1> SUFFICES ASSUME Init PROVE ThreadInv
  OBVIOUS
<1>1. 0 \in Bufs /\ 0 \in RegBufs
  BY IpuAssumption DEF Bufs, RegBufs
<1>2. ipu_q \in Seq(Bufs) /\ held \in Seq(Bufs)
  BY DEF Init
<1>3. tmp_idx \in Bufs \X Bufs \X Bufs /\ out \in RegBufs
  BY <1>1 DEF Init
<1>4. ncount = 0 /\ ncount \in 0 .. 3 /\ index = -1 /\ disp_clr_index = -1
  BY DEF Init
<1>5. TypeOK
  <2>1. /\ interlaced \in BOOLEAN /\ vpuOpen \in BOOLEAN /\ quitflag \in BOOLEAN
        /\ deinterlaced \in BOOLEAN /\ stopping \in BOOLEAN /\ freed \in BOOLEAN
        /\ ipu_running \in BOOLEAN /\ ipu_waiting \in BOOLEAN
        /\ vdi \in BOOLEAN /\ late \in BOOLEAN
        /\ pending \in BOOLEAN /\ decodefinish \in BOOLEAN
    BY Zenon DEF Init
  <2> QED BY <1>2, <1>3, <1>4, <2>1 DEF Init, TypeOK
<1> QED BY <1>4, <1>5 DEF Init, ThreadInv, Holding

\* A step of the decoder.
LEMMA DecoderTypes ==
    ASSUME ThreadInv, Decoder PROVE ThreadInv'
<1> USE DEF ThreadInv, TypeOK
<1>0. pp \in BOOLEAN /\ \A x \in Streams : x \subseteq BOOLEAN
  BY IpuAssumption
<1>1. CASE DecodePicture
  <2>1. /\ interlaced' \in BOOLEAN /\ stream' = stream /\ pp' = pp
        /\ ~pp => interlaced' \in stream
    BY <1>0, <1>1 DEF DecodePicture, DecStep, cfgVars
  <2>2. out' \in RegBufs /\ flagged' \in SUBSET RegBufs
    BY <1>1 DEF DecodePicture
  <2>3. pending' \in BOOLEAN /\ decodefinish' \in BOOLEAN
    BY <1>1 DEF DecodePicture
  <2>4. pc' \in {"vpuclose", "decode", "put"}
    BY <1>1 DEF DecodePicture, AfterOutput
  <2> QED BY <1>1, <2>1, <2>2, <2>3, <2>4
          DEF DecodePicture, DecStep, cfgVars, locVars, ipuVars
<1>2. CASE DecodeLast
  <2>1. pc' \in {"vpuclose", "decode", "put"}
    BY <1>2 DEF DecodeLast, AfterOutput
  <2>2. decodefinish' \in BOOLEAN
    BY <1>2, Zenon DEF DecodeLast
  <2>3. UNCHANGED <<cfgVars, vpuOpen, stopping, ncount, freed, quitflag,
                    ipu_running, ipu_waiting, locVars, ipuVars, late, out,
                    interlaced, pending, flagged, ipu_q, deinterlaced, ipc>>
    BY <1>2 DEF DecodeLast, DecStep
  <2>4. TypeOK'
    BY <2>1, <2>2, <2>3 DEF cfgVars, locVars, ipuVars
  <2>5. pp'
    BY <1>2, <2>3, Zenon DEF DecodeLast, cfgVars
  <2> QED BY <2>3, <2>4, <2>5 DEF locVars, ipuVars, Holding
<1>3. CASE DecodeStop \/ PutField \/ PutSignal
  BY <1>3 DEF DecodeStop, PutField, PutSignal, Signalled, DecStep, cfgVars,
              endVars, locVars, ipuVars, Holding
<1>5. CASE PutQueue
  <2>1. actual_display_index \in Bufs
    BY IpuAssumption DEF actual_display_index, rotid, Bufs, RegBufs
  <2>2. ipu_q' \in Seq(Bufs)
    BY <1>5, <2>1, BufferSeqs DEF PutQueue
  <2> QED BY <1>5, <2>2 DEF PutQueue, DecStep, cfgVars, endVars, locVars, ipuVars
<1>4. CASE VpuClose \/ CloseStop \/ CloseProgressive \/ CloseDrain
           \/ CloseWake \/ CloseJoin \/ CloseFree
  <2> USE DEF CloseStep, cfgVars, endVars, locVars, ipuVars, Holding
  <2>1. CASE VpuClose
    <3>1. vpuOpen' \in BOOLEAN
      BY <2>1, Zenon DEF VpuClose
    <3> QED BY <2>1, <3>1 DEF VpuClose
  <2>2. CASE CloseStop
    BY <2>2 DEF CloseStop
  <2>3. CASE CloseProgressive
    <3>1. deinterlaced' \in BOOLEAN
      BY <2>3, Zenon DEF CloseProgressive
    <3> QED BY <2>3, <3>1 DEF CloseProgressive
  <2>4. CASE CloseDrain
    BY <2>4 DEF CloseDrain
  <2>5. CASE CloseWake
    BY <2>5 DEF CloseWake, Signalled
  <2>6. CASE CloseJoin
    BY <2>6 DEF CloseJoin
  <2>7. CASE CloseFree
    BY <2>7 DEF CloseFree
  <2> QED BY <1>4, <2>1, <2>2, <2>3, <2>4, <2>5, <2>6, <2>7
<1> QED BY <1>1, <1>2, <1>3, <1>4, <1>5 DEF Decoder

\* The thread shows a picture.
LEMMA TaskTypes ==
    ASSUME ThreadInv, ThreadTask PROVE ThreadInv'
<1> USE DEF ThreadInv, TypeOK, Holding
<1>1. /\ ipc = "task" /\ index \in Bufs
      /\ UNCHANGED <<cfgVars, decVars, vpuOpen, deinterlaced, stopping, freed,
                     late, flagged, ipu_q, ncount, ipu_running, ipu_waiting,
                     index, disp_clr_index>>
  BY DEF ThreadTask, ThreadStep
<1>2. CASE TaskCollect
  <2>1. held' \in Seq(Bufs) /\ held' # <<>>
    BY <1>1, <1>2, BufferSeqs DEF TaskCollect
  <2>2. ncount = 0 \/ ncount = 1
    BY <1>2 DEF TaskCollect, Collects
  <2>3. tmp_idx' \in Bufs \X Bufs \X Bufs
    BY <1>1, <1>2, <2>2, StoreIndex DEF TaskCollect
  <2> QED BY <1>1, <1>2, <2>1, <2>3 DEF TaskCollect, cfgVars, decVars, endVars
<1>3. CASE TaskInit \/ TaskUpdate
  <2>1. held # <<>>
    BY <1>1, <1>3 DEF TaskInit, TaskUpdate, Begins, Collects
  <2>2. held' \in Seq(Bufs) /\ held' # <<>>
    BY <1>1, <1>3, <2>1, BufferSeqs DEF TaskInit, TaskUpdate
  <2>3. vdi' \in BOOLEAN /\ ipc' \in {"begun", "updated"} /\ UNCHANGED <<tmp_idx, quitflag>>
    BY <1>3 DEF TaskInit, TaskUpdate, ThreeFields
  <2> QED BY <1>1, <2>2, <2>3 DEF cfgVars, decVars, endVars
<1>4. CASE TaskFail
  BY <1>1, <1>4 DEF TaskFail, ipuVars, cfgVars, decVars, endVars
<1> QED BY <1>2, <1>3, <1>4 DEF ThreadTask

\* A step of the thread.
LEMMA ThreadTypes ==
    ASSUME ThreadInv, Thread \/ ThreadSpurious PROVE ThreadInv'
<1> USE DEF ThreadInv, TypeOK, ThreadStep, cfgVars, decVars, endVars, locVars, ipuVars
<1>1. CASE ThreadStart \/ ThreadWait \/ ThreadBlock \/ ThreadSpurious \/ ThreadWoken
  <2>1. CASE ThreadStart
    BY <2>1 DEF ThreadStart, Holding
  <2>2. CASE ThreadWait
    BY <2>2 DEF ThreadWait, Holding
  <2>3. CASE ThreadBlock
    BY <2>3 DEF ThreadBlock, Holding
  <2>4. CASE ThreadSpurious
    BY <2>4 DEF ThreadSpurious, Holding
  <2>5. CASE ThreadWoken
    <3>1. ipu_waiting' \in BOOLEAN
      BY <2>5, Zenon DEF ThreadWoken
    <3> QED BY <2>5, <3>1 DEF ThreadWoken, Holding
  <2> QED BY <1>1, <2>1, <2>2, <2>3, <2>4, <2>5
<1>2. CASE ThreadDequeue \/ ThreadRetry
  <2>1. CASE ipu_q = <<>>
    <3>1. CASE ThreadDequeue
      BY <2>1, <3>1 DEF ThreadDequeue, Holding
    <3>2. CASE ThreadRetry
      BY <2>1, <3>2 DEF ThreadRetry, Holding
    <3> QED BY <1>2, <3>1, <3>2
  <2>2. CASE ipu_q # <<>>
    <3>1. 0 \in Bufs
      BY IpuAssumption DEF Bufs
    <3>2. Head(ipu_q) \in Bufs /\ Tail(ipu_q) \in Seq(Bufs)
      BY <2>2, <3>1, BufferSeqs
    <3>3. CASE ThreadDequeue
      <4>1. /\ index' \in Bufs /\ disp_clr_index' = index /\ ipu_q' \in Seq(Bufs)
            /\ ipc' = "task" /\ ipc = "dequeue"
        BY <2>2, <3>2, <3>3 DEF ThreadDequeue
      <4> QED BY <3>3, <4>1 DEF ThreadDequeue, Holding
    <3>4. CASE ThreadRetry
      <4>1. /\ index' \in Bufs /\ ipu_q' \in Seq(Bufs)
            /\ ipc' = "task" /\ ipc = "retry"
        BY <2>2, <3>2, <3>4 DEF ThreadRetry
      <4> QED BY <3>4, <4>1 DEF ThreadRetry, Holding
    <3> QED BY <1>2, <3>3, <3>4
  <2> QED BY <2>1, <2>2
<1>3. CASE ThreadTask
  BY <1>3, TaskTypes
<1>4. CASE ThreadBook
  <2>1. index \in Bufs /\ ipc' = "clear" /\ held # <<>>
    BY <1>4 DEF ThreadBook, Holding
  <2>2. tmp_idx' \in Bufs \X Bufs \X Bufs
    BY <1>4, <2>1, StoreIndex DEF ThreadBook
  <2>3. disp_clr_index' \in Bufs \cup {-1}
    BY <1>4, <2>2 DEF ThreadBook
  <2> QED BY <1>4, <2>1, <2>2, <2>3 DEF ThreadBook
<1>5. CASE ThreadClear
  <2>1. flagged' \in SUBSET RegBufs
    BY <1>5 DEF ThreadClear
  <2>2. ncount' \in 0 .. 3
    BY <1>5 DEF ThreadClear
  <2>3. /\ quitflag' \in BOOLEAN
        /\ ipc' \in {"uninit", "dequeue"} /\ held # <<>> /\ ipc = "clear"
    BY <1>5 DEF ThreadClear
  <2> QED BY <1>5, <2>1, <2>2, <2>3 DEF ThreadClear, Holding
<1>6. CASE ThreadExit
  <2>1. held' \in Seq(Bufs) /\ ipc = "uninit" /\ ipc' = "exit" /\ ~ipu_running'
    BY <1>6 DEF ThreadExit
  <2>2. ipu_running' \in BOOLEAN
    BY <1>6, Zenon DEF ThreadExit
  <2> QED BY <1>6, <2>1, <2>2 DEF ThreadExit, Holding
<1> QED BY <1>1, <1>2, <1>3, <1>4, <1>5, <1>6 DEF Thread

\* Every step keeps the types.
LEMMA NextThread == ThreadInv /\ [Next]_vars => ThreadInv'
<1> SUFFICES ASSUME ThreadInv, [Next]_vars PROVE ThreadInv'
  OBVIOUS
<1>1. CASE UNCHANGED vars
  BY <1>1 DEF vars, cfgVars, decVars, endVars, vpuVars, locVars, ipuVars, ThreadInv, TypeOK
<1> QED BY <1>1, DecoderTypes, ThreadTypes DEF Next

\* Whatever the stream, the IPU library's failures and the interleaving of
\* the two threads, every variable of the display keeps its type: no step
\* shows the index -1 or reads an empty list of held buffers.
THEOREM DisplayTypes == Spec => []TypeOK
<1>1. ThreadInv => TypeOK
  BY DEF ThreadInv
<1> QED BY <1>1, InitThread, NextThread, PTL DEF Spec

-----------------------------------------------------------------------------
(* The close.                                                              *)

\* What the close has seen of a thread that had begun when it looked.
CloseInv ==
    /\ freed => pc = "done"
    /\ vpuOpen <=> pc \in {"decode", "put", "queue", "signal", "vpuclose"}
    /\ vpuOpen => ~stopping
    /\ pc \in {"running?", "join"} /\ ~late => ipc # "start"
    /\ pc \in {"free", "done"} /\ ~late => ipc \in {"exit", "failed"}

\* Every step keeps them.
LEMMA NextClose == ThreadInv /\ CloseInv /\ [Next]_vars => CloseInv'
<1> SUFFICES ASSUME ThreadInv, CloseInv, [Next]_vars PROVE CloseInv'
  OBVIOUS
<1> USE DEF CloseInv
<1>0. (ipu_running <=> ipc \notin {"start", "exit"}) /\ ipu_running \in BOOLEAN
  BY DEF ThreadInv, TypeOK
<1>1. CASE DecodePicture \/ DecodeLast \/ DecodeStop \/ PutField \/ PutQueue \/ PutSignal
  <2>1. /\ pc \in {"decode", "put", "queue", "signal"}
        /\ pc' \in {"decode", "put", "queue", "signal", "vpuclose"}
    BY <1>1 DEF DecodePicture, DecodeLast, DecodeStop, PutField, PutQueue, PutSignal,
                AfterOutput
  <2>2. UNCHANGED <<vpuOpen, stopping, freed, late>>
    BY <1>1 DEF DecodePicture, DecodeLast, DecodeStop, PutField, PutQueue, PutSignal,
                DecStep
  <2> QED BY <2>1, <2>2
<1>2. CASE VpuClose \/ CloseStop \/ CloseProgressive
  BY <1>2 DEF VpuClose, CloseStop, CloseProgressive, CloseStep
<1>3. CASE CloseDrain
  BY <1>0, <1>3 DEF CloseDrain, CloseStep
<1>4. CASE CloseWake \/ CloseJoin \/ CloseFree
  BY <1>0, <1>4 DEF CloseWake, CloseJoin, CloseFree, CloseStep, Signalled
<1>5. CASE ThreadStart
  BY <1>5 DEF ThreadStart, ThreadStep, decVars, endVars
<1>6. CASE Thread \/ ThreadSpurious
  <2>1. CASE ipc = "start"
    <3>1. ThreadStart
      BY <1>6, <2>1 DEF Thread, ThreadSpurious, ThreadDequeue, ThreadWait,
         ThreadBlock, ThreadWoken, ThreadRetry, ThreadTask, ThreadBook,
         ThreadClear, ThreadExit
    <3> QED BY <1>5, <3>1
  <2>2. CASE ipc # "start"
    <3>1. UNCHANGED <<pc, vpuOpen, stopping, freed, late>>
      BY <1>6 DEF Thread, ThreadSpurious, ThreadStart, ThreadDequeue,
         ThreadWait, ThreadBlock, ThreadWoken, ThreadRetry, ThreadTask,
         ThreadBook, ThreadClear, ThreadExit, ThreadStep, decVars, endVars
    <3>2. ipc \notin {"exit", "failed"} /\ ipc' # "start" /\ ipu_running
      BY <1>0, <1>6, <2>2 DEF Thread, ThreadSpurious, ThreadStart,
         ThreadDequeue, ThreadWait, ThreadBlock, ThreadWoken, ThreadRetry,
         ThreadTask, TaskCollect, TaskInit, TaskUpdate, TaskFail,
         ThreadBook, ThreadClear, ThreadExit
    <3> QED BY <3>1, <3>2
  <2> QED BY <2>1, <2>2
<1>7. CASE UNCHANGED vars
  BY <1>7 DEF vars, decVars, vpuVars
<1> QED BY <1>1, <1>2, <1>3, <1>4, <1>6, <1>7 DEF Next, Decoder

\* What the close has seen, in every reachable state.
LEMMA CloseInvariant == Spec => [](ThreadInv /\ CloseInv)
<1>1. Init => CloseInv
  BY DEF Init, CloseInv
<1> QED BY <1>1, InitThread, NextThread, NextClose, PTL DEF Spec

\* Whatever the stream and the failures: disp is freed after the thread has
\* returned, if that had begun when the close looked at ipu_running.
THEOREM FreedLast == Spec => []FreedAfterThread
<1>1. CloseInv => FreedAfterThread
  BY DEF CloseInv, FreedAfterThread
<1> QED BY <1>1, CloseInvariant, PTL

-----------------------------------------------------------------------------
(* The display flags, in steady playback: without post processing, for a   *)
(* stream whose pictures are all interlaced or all progressive.            *)

\* The IPU de-interlaces from three fields.
ThreeMode == stream = {TRUE} /\ ~high_motion

\* The thread looks for a picture a second time.
Waiting == {"wait", "condwait", "blocked", "woken", "retry"}

\* By the time the thread looks at deinterlaced, ipu_put_data has set it.
FieldKnown ==
    /\ deinterlaced => stream = {TRUE}
    /\ ipu_q # <<>> \/ pc \in {"queue", "signal"} \/ ipc \in Holding
       => (stream = {TRUE} => deinterlaced)

\* The picture shown last.
Shown == IF ipc \in Waiting \cup {"task"} THEN disp_clr_index ELSE index

\* The IPU reads one buffer: the picture shown last.  The flag to clear is
\* that of the picture before.
OneHeld ==
    /\ ~vdi
    /\ held = IF Shown = -1 THEN <<>> ELSE <<Shown>>
    /\ ipc # "clear" => (ncount = 0 <=> Shown = -1)
    /\ ipc = "clear" => Shown # -1 /\ (ncount = 0 <=> disp_clr_index = -1)
    /\ ipc \in {"begun", "updated"} => ncount > 0 /\ disp_clr_index # -1

\* The IPU reads two buffers once the first three pictures are there, which
\* tmp_idx remembers.
TwoHeld ==
    LET n == IF ipc = "clear" THEN ncount + 1 ELSE ncount
    IN  /\ vdi <=> (n > 2 \/ ipc = "begun")
        /\ ipc = "begun" => ncount = 2
        /\ ipc = "updated" => ncount = 3
        /\ ipc = "clear" /\ n > 2 => disp_clr_index = tmp_idx[1]
        /\ ipc = "begun" => held = <<tmp_idx[2], index>>
        /\ ipc = "updated" => held = <<tmp_idx[3], index>>
        /\ ipc \notin {"begun", "updated"} =>
              /\ n = 0 => held = <<>>
              /\ n = 1 => held = <<tmp_idx[1]>>
              /\ n = 2 => held = <<tmp_idx[1], tmp_idx[2]>>
              /\ n > 2 => held = <<tmp_idx[2], tmp_idx[3]>>

Window == IF ThreeMode THEN TwoHeld ELSE OneHeld

\* The picture the IPU is done with and the thread has yet to clear.
Due ==
    IF ThreeMode
    THEN CASE ipc = "begun"   -> {tmp_idx[1]}
           [] ipc = "updated" -> {tmp_idx[2]}
           [] ipc = "clear" /\ ncount >= 2 -> {tmp_idx[1]}
           [] OTHER -> {}
    ELSE IF ipc \in {"begun", "updated"} \/ (ipc = "clear" /\ ncount > 0)
         THEN {disp_clr_index} ELSE {}

Queued == Range(ipu_q)
Read   == Range(held)
Hand   == IF ipc = "task" THEN {index} ELSE {}
Given  == IF pc \in {"put", "queue"} THEN {out} ELSE {}

\* No buffer is in two places.
Apart ==
    /\ Due \cap (Read \cup Hand \cup Queued \cup Given) = {}
    /\ Read \cap (Hand \cup Queued \cup Given) = {}
    /\ Hand \cap (Queued \cup Given) = {}
    /\ Due \subseteq flagged
    /\ Len(held) = 2 => held[1] # held[2]

\* The flags are those of the pictures on their way, and of the one due.
FlagInv ==
    /\ Queued \cap Given = {}
    /\ Queued \cup Read \cup Hand \cup Given \subseteq flagged
    /\ ipc \notin Ended =>
          /\ Apart
          /\ pc # "vpuclose"
             => flagged \subseteq Queued \cup Read \cup Hand \cup Given \cup Due

\* The inductive invariant of a steady stream.
OwnInv ==
    Steady =>
        /\ IsInjective(ipu_q) /\ ipu_q \in Seq(RegBufs)
        /\ vpuOpen => /\ FieldKnown
                      /\ ipc \notin Ended => Window
                      /\ FlagInv

\* Queueing a picture.
LEMMA QueueAppend ==
    ASSUME NEW S, NEW s \in Seq(S), NEW x \in S
    PROVE  /\ Range(Append(s, x)) = Range(s) \cup {x}
           /\ IsInjective(s) /\ x \notin Range(s) => IsInjective(Append(s, x))
<1> DEFINE t == Append(s, x)
<1>1. /\ Len(t) = Len(s) + 1 /\ Len(s) \in Nat
      /\ \A i \in 1 .. Len(s) : t[i] = s[i]
      /\ t[Len(s) + 1] = x
  OBVIOUS
<1>2. Range(t) = Range(s) \cup {x}
  <2>1. ASSUME NEW i \in 1 .. Len(t) PROVE t[i] \in Range(s) \cup {x}
    BY <1>1 DEF Range
  <2>2. ASSUME NEW i \in 1 .. Len(s) PROVE s[i] \in Range(t)
    BY <1>1 DEF Range
  <2>3. x \in Range(t)
    BY <1>1 DEF Range
  <2> QED BY <2>1, <2>2, <2>3 DEF Range
<1>3. ASSUME IsInjective(s), x \notin Range(s) PROVE IsInjective(t)
  BY <1>1, <1>3 DEF IsInjective, Range
<1> QED BY <1>2, <1>3

\* Dequeueing one.
LEMMA QueueTail ==
    ASSUME NEW S, NEW s \in Seq(S), s # <<>>
    PROVE  /\ Range(s) = {Head(s)} \cup Range(Tail(s))
           /\ IsInjective(s)
              => IsInjective(Tail(s)) /\ Head(s) \notin Range(Tail(s))
<1> DEFINE t == Tail(s)
<1>1. /\ Len(t) = Len(s) - 1 /\ Len(s) \in Nat \ {0}
      /\ DOMAIN t = 1 .. Len(t) /\ DOMAIN s = 1 .. Len(s)
      /\ \A i \in 1 .. Len(t) : t[i] = s[i + 1]
      /\ Head(s) = s[1]
  BY EmptySeq
<1> HIDE DEF t
<1>2. \A i \in 1 .. Len(t) : i + 1 \in 1 .. Len(s)
  BY <1>1
<1>3. Range(s) = {s[1]} \cup Range(t)
  <2>1. ASSUME NEW i \in 1 .. Len(s), i # 1 PROVE s[i] \in Range(t)
    <3>1. i - 1 \in 1 .. Len(t) /\ t[i - 1] = s[i]
      BY <1>1, <2>1
    <3> QED BY <1>1, <3>1 DEF Range
  <2>2. ASSUME NEW i \in 1 .. Len(t) PROVE t[i] \in Range(s)
    BY <1>1, <1>2 DEF Range
  <2>3. s[1] \in Range(s)
    BY <1>1 DEF Range
  <2> QED BY <1>1, <2>1, <2>2, <2>3 DEF Range
<1>4. ASSUME IsInjective(s) PROVE IsInjective(t) /\ s[1] \notin Range(t)
  <2>1. ASSUME NEW i \in 1 .. Len(t), NEW j \in 1 .. Len(t), t[i] = t[j]
        PROVE  i = j
    <3>1. i + 1 = j + 1
      BY <1>1, <1>2, <1>4, <2>1 DEF IsInjective
    <3> QED BY <3>1
  <2>2. ASSUME NEW i \in 1 .. Len(t), t[i] = s[1] PROVE FALSE
    <3>1. i + 1 = 1
      BY <1>1, <1>2, <1>4, <2>2 DEF IsInjective
    <3> QED BY <3>1
  <2> QED BY <1>1, <2>1, <2>2 DEF IsInjective, Range
<1> QED BY <1>1, <1>3, <1>4 DEF t

\* Two buffers, one after the other.
LEMMA AppendPair ==
    ASSUME NEW S, NEW a \in S, NEW b \in S
    PROVE  Append(<<a>>, b) = <<a, b>>
<1> DEFINE s == Append(<<a>>, b)
           t == <<a, b>>
<1>1. /\ s \in Seq(S) /\ t \in Seq(S) /\ Len(s) = 2 /\ Len(t) = 2
      /\ s[1] = a /\ s[2] = b /\ t[1] = a /\ t[2] = b
  OBVIOUS
<1> HIDE DEF s, t
<1>2. \A i \in 1 .. 2 : s[i] = t[i]
  BY <1>1
<1>3. s = t
  BY <1>1, <1>2, SeqEqual
<1> QED BY <1>3 DEF s, t

\* The buffers the IPU reads.
LEMMA SmallRanges ==
    /\ Range(<<>>) = {} /\ Len(<<>>) # 2
    /\ \A a : Range(<<a>>) = {a} /\ Len(<<a>>) # 2
    /\ \A a, b : Range(<<a, b>>) = {a, b}
BY DEF Range

\* Once a picture is on its way, deinterlaced says whether the stream is
\* interlaced: the thread reads it three times per picture.
LEMMA NextField ==
    ASSUME ThreadInv, CloseInv, Steady, vpuOpen', FieldKnown, Next
    PROVE  FieldKnown'
<1> USE DEF FieldKnown
<1>1. CASE PutField
  <2>1. /\ stream' = stream /\ deinterlaced' = (deinterlaced \/ interlaced)
        /\ interlaced \in stream
    BY <1>1 DEF PutField, DecStep, cfgVars, ThreadInv, Steady
  <2>2. deinterlaced' <=> stream = {TRUE}
    <3>1. CASE stream = {TRUE}
      BY <2>1, <3>1
    <3>2. CASE stream = {FALSE}
      <4>1. ~interlaced /\ stream # {TRUE}
        BY <2>1, <3>2
      <4> QED BY <2>1, <4>1
    <3> QED BY <3>1, <3>2 DEF Steady
  <2> QED BY <2>1, <2>2
<1>2. CASE DecodePicture \/ DecodeStop \/ PutQueue \/ PutSignal
  <2>1. stream' = stream /\ deinterlaced' = deinterlaced
    BY <1>2 DEF DecodePicture, DecodeStop, PutQueue, PutSignal, DecStep, cfgVars
  <2>2. CASE pc \in {"queue", "signal"}
    BY <2>1, <2>2
  <2>3. CASE pc \notin {"queue", "signal"}
    <3>1. DecodePicture \/ DecodeStop
      BY <1>2, <2>3 DEF PutQueue, PutSignal
    <3>2. ipu_q' = ipu_q /\ ipc' = ipc /\ pc' \notin {"queue", "signal"}
      BY <3>1 DEF DecodePicture, DecodeStop, AfterOutput
    <3> QED BY <2>1, <3>2
  <2> QED BY <2>2, <2>3
<1>3. CASE VpuClose \/ CloseStop \/ CloseProgressive \/ CloseDrain
           \/ CloseWake \/ CloseJoin \/ CloseFree
  BY <1>3 DEF VpuClose, CloseStop, CloseProgressive, CloseDrain, CloseWake,
              CloseJoin, CloseFree, CloseInv
<1>4. CASE Thread \/ ThreadSpurious
  <2>1. UNCHANGED <<stream, pc, deinterlaced>>
    BY <1>4 DEF Thread, ThreadSpurious, ThreadStart, ThreadDequeue, ThreadWait,
       ThreadBlock, ThreadWoken, ThreadRetry, ThreadTask, ThreadBook,
       ThreadClear, ThreadExit, ThreadStep, cfgVars, decVars, endVars
  <2>2. CASE ThreadDequeue \/ ThreadRetry
    <3>1. CASE ipu_q = <<>>
      BY <2>1, <2>2, <3>1 DEF ThreadDequeue, ThreadRetry, Holding
    <3>2. CASE ipu_q # <<>>
      BY <2>1, <3>2
    <3> QED BY <3>1, <3>2
  <2>3. CASE ~(ThreadDequeue \/ ThreadRetry)
    <3>1. ipu_q' = ipu_q /\ (ipc' \in Holding => ipc \in Holding)
      BY <1>4, <2>3 DEF Thread, ThreadSpurious, ThreadStart, ThreadWait,
         ThreadBlock, ThreadWoken, ThreadTask, ThreadBook,
         ThreadClear, ThreadExit, Holding
    <3> QED BY <2>1, <3>1
  <2> QED BY <2>2, <2>3
<1> QED BY <1>1, <1>2, <1>3, <1>4 DEF Next, Decoder, DecodeLast, Steady

\* While the thread has a picture, it sees the stream's mode.
LEMMA ModeSeen ==
    ASSUME FieldKnown, Steady, ipc \in Holding
    PROVE  ThreeFields <=> ThreeMode
BY DEF FieldKnown, ThreeFields, ThreeMode

\* A step of the decoder, or of the thread between two pictures, leaves what
\* the IPU reads alone.
LEMMA WindowKept ==
    ASSUME Window, UNCHANGED <<stream, high_motion, ncount, held, vdi, tmp_idx>>,
           ipc \notin Holding, ipc' \notin Holding \ {"task"}, Shown' = Shown
    PROVE  Window'
<1>1. ThreeMode' <=> ThreeMode
  BY DEF ThreeMode
<1>2. CASE ThreeMode
  BY <1>1, <1>2 DEF Window, TwoHeld, Holding
<1>3. CASE ~ThreeMode
  <2>1. OneHeld /\ ipc # "clear" /\ ipc' \notin {"clear", "begun", "updated"}
    BY <1>3 DEF Window, Holding
  <2>2. OneHeld'
    BY <2>1 DEF OneHeld
  <2> QED BY <1>1, <1>3, <2>2 DEF Window
<1> QED BY <1>2, <1>3

\* A picture is shown to an IPU that reads one buffer.
LEMMA TaskOneHeld ==
    ASSUME ThreadInv, ThreadTask, OneHeld, ~ThreeFields, ipc' \notin Ended
    PROVE  /\ OneHeld'
           /\ held' = <<index>> /\ ipc' \in {"begun", "updated", "clear"}
           /\ ncount = 0 => held = <<>> /\ ipc' = "clear"
           /\ ncount > 0 => held = <<disp_clr_index>> /\ ipc' # "clear"
<1>1. /\ ipc = "task" /\ index \in Bufs /\ ncount \in 0 .. 3
      /\ UNCHANGED <<ncount, index, disp_clr_index>>
  BY DEF ThreadTask, ThreadInv, TypeOK, Holding
<1>2. Shown = disp_clr_index /\ index # -1
  BY <1>1, IpuAssumption DEF Shown, Bufs
<1>3. CASE ncount = 0
  <2>1. held = <<>> /\ disp_clr_index = -1
    BY <1>1, <1>2, <1>3 DEF OneHeld
  <2>2. TaskCollect
    BY <1>3 DEF ThreadTask, TaskInit, TaskUpdate, TaskFail, Collects, Begins
  <2>3. held' = <<index>> /\ ipc' = "clear" /\ vdi' = vdi
    BY <2>1, <2>2 DEF TaskCollect
  <2>4. Shown' = index
    BY <1>1, <2>3 DEF Shown, Waiting
  <2> QED BY <1>1, <1>2, <1>3, <2>1, <2>3, <2>4 DEF OneHeld
<1>4. CASE ncount > 0
  <2>1. held = <<disp_clr_index>> /\ disp_clr_index # -1 /\ ~vdi
    BY <1>1, <1>2, <1>4 DEF OneHeld
  <2>2. TaskInit \/ TaskUpdate
    BY <1>4 DEF ThreadTask, TaskCollect, TaskFail, Collects, Begins, Ended
  <2>3. held' = <<index>> /\ ipc' \in {"begun", "updated"} /\ ~vdi'
    BY <2>1, <2>2 DEF TaskInit, TaskUpdate
  <2>4. Shown' = index
    BY <1>1, <2>3 DEF Shown, Waiting
  <2> QED BY <1>1, <1>2, <1>4, <2>1, <2>3, <2>4 DEF OneHeld
<1> QED BY <1>1, <1>3, <1>4

\* A picture is shown to an IPU that reads two.
LEMMA TaskTwoHeld ==
    ASSUME ThreadInv, ThreadTask, TwoHeld, ThreeFields, ipc' \notin Ended
    PROVE  /\ TwoHeld'
           /\ ncount = 0 => held = <<>> /\ held' = <<index>> /\ ipc' = "clear"
           /\ ncount = 1 => /\ held = <<tmp_idx[1]>>
                            /\ held' = <<tmp_idx[1], index>> /\ ipc' = "clear"
           /\ ncount = 2 => /\ held = <<tmp_idx[1], tmp_idx[2]>>
                            /\ held' = <<tmp_idx[2], index>> /\ ipc' = "begun"
                            /\ tmp_idx' = tmp_idx
           /\ ncount = 3 => /\ held = <<tmp_idx[2], tmp_idx[3]>>
                            /\ held' = <<tmp_idx[3], index>> /\ ipc' = "updated"
                            /\ tmp_idx' = tmp_idx
<1>1. /\ ipc = "task" /\ index \in Bufs /\ ncount \in 0 .. 3
      /\ UNCHANGED <<ncount, index, disp_clr_index>>
      /\ tmp_idx \in Bufs \X Bufs \X Bufs
  BY DEF ThreadTask, ThreadInv, TypeOK, Holding
<1>2. CASE ncount = 0
  <2>1. held = <<>> /\ ~vdi
    BY <1>1, <1>2 DEF TwoHeld
  <2>2. TaskCollect
    BY <1>2 DEF ThreadTask, TaskInit, TaskUpdate, TaskFail, Collects, Begins
  <2>3. /\ held' = <<index>> /\ ipc' = "clear" /\ vdi' = vdi
        /\ tmp_idx' = <<index, tmp_idx[2], tmp_idx[3]>>
    BY <1>1, <1>2, <2>1, <2>2, StoreIndex DEF TaskCollect
  <2> QED BY <1>1, <1>2, <2>1, <2>3 DEF TwoHeld
<1>3. CASE ncount = 1
  <2>1. held = <<tmp_idx[1]>> /\ ~vdi
    BY <1>1, <1>3 DEF TwoHeld
  <2>2. TaskCollect
    BY <1>3 DEF ThreadTask, TaskInit, TaskUpdate, TaskFail, Collects, Begins
  <2>3. /\ ipc' = "clear" /\ vdi' = vdi
        /\ tmp_idx' = <<tmp_idx[1], index, tmp_idx[3]>>
    BY <1>1, <1>3, <2>2, StoreIndex DEF TaskCollect
  <2>4. held' = <<tmp_idx[1], index>>
    <3> DEFINE a == tmp_idx[1]
    <3>1. a \in Bufs /\ held = <<a>>
      BY <1>1, <2>1
    <3> HIDE DEF a
    <3>2. Append(<<a>>, index) = <<a, index>>
      BY <1>1, <3>1, AppendPair
    <3> QED BY <2>2, <3>1, <3>2 DEF TaskCollect, a
  <2> QED BY <1>1, <1>3, <2>1, <2>3, <2>4 DEF TwoHeld
<1>4. CASE ncount = 2
  <2>1. held = <<tmp_idx[1], tmp_idx[2]>> /\ Last(held) = tmp_idx[2]
    <3>1. held = <<tmp_idx[1], tmp_idx[2]>>
      BY <1>1, <1>4 DEF TwoHeld
    <3> QED BY <3>1 DEF Last
  <2>2. TaskInit
    BY <1>4 DEF ThreadTask, TaskCollect, TaskUpdate, TaskFail, Collects, Begins,
                Ended
  <2>3. /\ held' = <<tmp_idx[2], index>> /\ ipc' = "begun" /\ vdi'
        /\ tmp_idx' = tmp_idx
    BY <2>1, <2>2 DEF TaskInit
  <2> QED BY <1>1, <1>4, <2>1, <2>3 DEF TwoHeld
<1>5. CASE ncount = 3
  <2>1. held = <<tmp_idx[2], tmp_idx[3]>> /\ Last(held) = tmp_idx[3] /\ vdi
    <3>1. held = <<tmp_idx[2], tmp_idx[3]>> /\ vdi
      BY <1>1, <1>5 DEF TwoHeld
    <3> QED BY <3>1 DEF Last
  <2>2. TaskUpdate
    BY <1>5 DEF ThreadTask, TaskCollect, TaskInit, TaskFail, Collects, Begins,
                Ended
  <2>3. /\ held' = <<tmp_idx[3], index>> /\ ipc' = "updated" /\ vdi'
        /\ tmp_idx' = tmp_idx
    BY <2>1, <2>2 DEF TaskUpdate
  <2> QED BY <1>1, <1>5, <2>1, <2>3 DEF TwoHeld
<1> QED BY <1>1, <1>2, <1>3, <1>4, <1>5

\* The stream and the motion setting are those of the start.
LEMMA StreamStays ==
    ASSUME Next PROVE stream' = stream /\ high_motion' = high_motion /\ pp' = pp
<1>1. CASE Decoder
  BY <1>1 DEF Decoder, DecodePicture, DecodeLast, DecodeStop, PutField, PutQueue, PutSignal,
     VpuClose, CloseStop, CloseProgressive, CloseDrain, CloseWake, CloseJoin,
     CloseFree, DecStep, CloseStep, cfgVars
<1>2. CASE Thread \/ ThreadSpurious
  BY <1>2 DEF Thread, ThreadSpurious, ThreadStart, ThreadDequeue, ThreadWait,
     ThreadBlock, ThreadWoken, ThreadRetry, ThreadTask, ThreadBook, ThreadClear,
     ThreadExit, ThreadStep, cfgVars
<1> QED BY <1>1, <1>2 DEF Next

\* What the IPU reads follows the pictures shown, in every step.
LEMMA NextWindow ==
    ASSUME ThreadInv, CloseInv, Steady, vpuOpen, FieldKnown, Window, Next,
           ipc \notin Ended, ipc' \notin Ended
    PROVE  Window'
<1>0. stream' = stream /\ high_motion' = high_motion /\ (ThreeMode' <=> ThreeMode)
  BY StreamStays DEF ThreeMode
<1>1. CASE Decoder
  <2>1. /\ UNCHANGED <<ncount, held, vdi, tmp_idx, index, disp_clr_index>>
        /\ ipc' = ipc \/ (ipc = "blocked" /\ ipc' = "woken")
    BY <1>1 DEF Decoder, DecodePicture, DecodeLast, DecodeStop, PutField, PutQueue, PutSignal,
       VpuClose, CloseStop, CloseProgressive, CloseDrain, CloseWake, CloseJoin,
       CloseFree, Signalled, DecStep, CloseStep, locVars, ipuVars
  <2>2. CASE ipc' = ipc
    BY <1>0, <2>1, <2>2 DEF Window, TwoHeld, OneHeld, Shown
  <2>3. CASE ipc = "blocked" /\ ipc' = "woken"
    <3>1. Shown' = Shown
      BY <2>1, <2>3 DEF Shown, Waiting
    <3> QED BY <1>0, <2>1, <2>3, <3>1, WindowKept DEF Holding
  <2> QED BY <2>1, <2>2, <2>3
<1>2. CASE ThreadStart \/ ThreadWait \/ ThreadBlock \/ ThreadWoken \/ ThreadSpurious
  <2>1. /\ UNCHANGED <<ncount, held, vdi, tmp_idx>> /\ Shown' = Shown
        /\ ipc \notin Holding /\ ipc' \notin Holding \ {"task"}
    BY <1>2 DEF ThreadStart, ThreadWait, ThreadBlock, ThreadWoken, ThreadSpurious,
       locVars, ipuVars, Shown, Waiting, Holding
  <2> QED BY <1>0, <2>1, WindowKept
<1>3. CASE ThreadDequeue \/ ThreadRetry
  <2>1. /\ UNCHANGED <<ncount, held, vdi, tmp_idx>> /\ Shown' = Shown
        /\ ipc \notin Holding /\ ipc' \notin Holding \ {"task"}
    BY <1>3 DEF ThreadDequeue, ThreadRetry, ipuVars, Shown, Waiting, Holding, Ended
  <2> QED BY <1>0, <2>1, WindowKept
<1>4. CASE ThreadTask
  <2>1. ThreeFields <=> ThreeMode
    BY <1>4, ModeSeen DEF ThreadTask, Holding
  <2> QED BY <1>0, <1>4, <2>1, TaskOneHeld, TaskTwoHeld DEF Window
<1>5. CASE ThreadBook
  <2>1. /\ ThreeFields <=> ThreeMode
        /\ ipc \in {"begun", "updated"} /\ ipc' = "clear"
        /\ UNCHANGED <<ncount, index, held, vdi>>
    BY <1>5, ModeSeen DEF ThreadBook, Holding, ipuVars
  <2>2. /\ tmp_idx \in Bufs \X Bufs \X Bufs /\ index \in Bufs /\ ncount \in 0 .. 3
    BY <2>1 DEF ThreadInv, TypeOK, Holding
  <2>3. CASE ThreeMode
    <3>1. CASE ipc = "begun"
      <4>1. tmp_idx' = <<tmp_idx[1], tmp_idx[2], index>> /\ disp_clr_index' = tmp_idx[1]
        BY <1>5, <2>1, <2>2, <2>3, <3>1, StoreIndex DEF ThreadBook
      <4> QED BY <1>0, <2>1, <2>2, <2>3, <3>1, <4>1 DEF Window, TwoHeld
    <3>2. CASE ipc = "updated"
      <4>1. /\ tmp_idx' = <<tmp_idx[2], tmp_idx[3], index>>
            /\ disp_clr_index' = tmp_idx[2]
        BY <1>5, <2>1, <2>2, <2>3, <3>2 DEF ThreadBook
      <4> QED BY <1>0, <2>1, <2>2, <2>3, <3>2, <4>1 DEF Window, TwoHeld
    <3> QED BY <2>1, <3>1, <3>2
  <2>4. CASE ~ThreeMode
    <3>1. disp_clr_index' = disp_clr_index
      BY <1>5, <2>1, <2>4 DEF ThreadBook
    <3>2. index # -1 /\ Shown = index /\ Shown' = index
      BY <2>1, <2>2, IpuAssumption DEF Shown, Waiting, Bufs
    <3> QED BY <1>0, <2>1, <2>2, <2>4, <3>1, <3>2 DEF Window, OneHeld
  <2> QED BY <2>3, <2>4
<1>6. CASE ThreadClear
  <2>1. /\ ipc = "clear" /\ ipc' = "dequeue" /\ ncount \in 0 .. 3
        /\ ncount' = IF ncount < 3 THEN ncount + 1 ELSE ncount
        /\ UNCHANGED <<index, disp_clr_index, tmp_idx, held, vdi>>
    BY <1>6 DEF ThreadClear, locVars, ipuVars, Ended, ThreadInv, TypeOK
  <2>2. CASE ThreeMode
    BY <1>0, <2>1, <2>2 DEF Window, TwoHeld
  <2>3. CASE ~ThreeMode
    <3>1. Shown = index /\ Shown' = index
      BY <2>1 DEF Shown, Waiting
    <3> QED BY <1>0, <2>1, <2>3, <3>1 DEF Window, OneHeld
  <2> QED BY <2>2, <2>3
<1>7. CASE ThreadExit
  BY <1>7 DEF ThreadExit, Ended
<1> QED BY <1>1, <1>2, <1>3, <1>4, <1>5, <1>6, <1>7 DEF Next, Thread

-----------------------------------------------------------------------------
(* Where the buffers are.                                                  *)

\* A step that moves no buffer and touches no display flag.
LEMMA FlagsKept ==
    ASSUME FlagInv, UNCHANGED <<flagged, held, ipu_q>>,
           Hand' = Hand, Given' = Given, Due' = Due,
           ipc' \notin Ended => ipc \notin Ended,
           pc' # "vpuclose" => pc # "vpuclose"
    PROVE  FlagInv'
<1>1. Queued' = Queued /\ Read' = Read /\ Len(held)' = Len(held)
      /\ held[1]' = held[1] /\ held[2]' = held[2]
  BY DEF Queued, Read
<1> QED BY <1>1 DEF FlagInv, Apart

\* The decoder gets a picture, queues it, or stops.
LEMMA DecoderFlags ==
    ASSUME ThreadInv, CloseInv, Steady, vpuOpen', FlagInv, Decoder
    PROVE  FlagInv'
<1>1. CASE DecodePicture
  <2>1. /\ Given = {} /\ Queued' = Queued /\ Read' = Read /\ Hand' = Hand
        /\ Due' = Due /\ ipc' = ipc /\ held' = held
    BY <1>1 DEF DecodePicture, DecStep, cfgVars, locVars, ipuVars, Given, Queued,
       Read, Hand, Due, ThreeMode
  <2>2. /\ out' \notin flagged /\ flagged' = flagged \cup {out'}
        /\ \/ pc' = "put" /\ Given' = {out'}
           \/ pc' = "vpuclose" /\ Given' = {}
        /\ pc = "decode"
    BY <1>1 DEF DecodePicture, AfterOutput, Given, Steady
  <2> HIDE DEF Given, Queued, Read, Hand, Due
  <2> QED BY <2>1, <2>2 DEF FlagInv, Apart
<1>2. CASE PutQueue
  <2>1. /\ Given = {out} /\ Given' = {} /\ Read' = Read /\ Hand' = Hand
        /\ Due' = Due /\ ipc' = ipc /\ held' = held /\ flagged' = flagged
        /\ pc # "vpuclose"
    BY <1>2 DEF PutQueue, DecStep, cfgVars, locVars, ipuVars, Given, Read, Hand,
       Due, ThreeMode
  <2>2. actual_display_index = out /\ out \in Bufs
    BY IpuAssumption DEF actual_display_index, Steady, ThreadInv, TypeOK, RegBufs, Bufs
  <2>3. Queued' = Queued \cup {out}
    BY <1>2, <2>2, QueueAppend DEF PutQueue, Queued, ThreadInv, TypeOK
  <2> QED BY <2>1, <2>3 DEF FlagInv, Apart
<1>3. CASE DecodeStop \/ PutField \/ PutSignal
  <2>1. /\ UNCHANGED <<flagged, held, ipu_q, index, disp_clr_index, tmp_idx, stream,
                       high_motion, ncount, out>>
        /\ ipc' = ipc \/ (ipc = "blocked" /\ ipc' = "woken")
    BY <1>3 DEF DecodeStop, PutField, PutSignal, Signalled, DecStep, cfgVars,
       endVars, locVars, ipuVars
  <2>2. Hand' = Hand
    BY <2>1 DEF Hand
  <2>3. Due' = Due
    BY <2>1 DEF Due, ThreeMode
  <2>4. Given' = Given /\ (pc' # "vpuclose" => pc # "vpuclose")
    BY <1>3, <2>1 DEF DecodeStop, PutField, PutSignal, Given
  <2> QED BY <2>1, <2>2, <2>3, <2>4, FlagsKept DEF Ended
<1>4. CASE VpuClose \/ CloseStop \/ CloseProgressive \/ CloseDrain
           \/ CloseWake \/ CloseJoin \/ CloseFree
  BY <1>4 DEF VpuClose, CloseStop, CloseProgressive, CloseDrain, CloseWake,
              CloseJoin, CloseFree, CloseInv
<1> QED BY <1>1, <1>2, <1>3, <1>4 DEF Decoder, DecodeLast, Steady

\* The thread takes the oldest picture from the queue.
LEMMA TakeFlags ==
    ASSUME ThreadInv, FlagInv, IsInjective(ipu_q), ipu_q # <<>>,
           ThreadDequeue \/ ThreadRetry
    PROVE  FlagInv'
<1>1. /\ ipc' = "task" /\ index' = Head(ipu_q) /\ ipu_q' = Tail(ipu_q)
      /\ ipc \in {"dequeue", "retry"} /\ pc' = pc
      /\ UNCHANGED <<flagged, held, out, stream, high_motion>>
  BY DEF ThreadDequeue, ThreadRetry, ThreadStep, cfgVars, decVars, endVars, ipuVars
<1>2. /\ Queued = {index'} \cup Queued' /\ index' \notin Queued'
  BY <1>1, QueueTail DEF Queued, ThreadInv, TypeOK
<1>3. /\ Hand = {} /\ Hand' = {index'} /\ Due = {} /\ Due' = {}
      /\ Read' = Read /\ Given' = Given
  BY <1>1 DEF Hand, Due, Read, Given, ThreeMode
<1>4. ipc \notin Ended /\ ipc' \notin Ended
  BY <1>1 DEF Ended
<1> QED BY <1>1, <1>2, <1>3, <1>4 DEF FlagInv, Apart

\* The thread shows the picture: what the IPU read before and does not read
\* any more becomes due.
LEMMA TaskMoves ==
    ASSUME ThreadInv, Steady, FieldKnown, Window, FlagInv, ThreadTask,
           ipc' \notin Ended
    PROVE  /\ Due' \cup Read' = Read \cup {index}
           /\ Due' \cap Read' = {}
           /\ Len(held') = 2 => held'[1] # held'[2]
<1>1. /\ ipc = "task" /\ ncount \in 0 .. 3 /\ (ThreeFields <=> ThreeMode)
      /\ UNCHANGED <<ncount, disp_clr_index, stream, high_motion>>
      /\ ThreeMode' <=> ThreeMode
  BY ModeSeen DEF ThreadTask, ThreadStep, cfgVars, Holding, ThreadInv, TypeOK,
     ThreeMode
<1>2. index \notin Read /\ (Len(held) = 2 => held[1] # held[2])
  BY <1>1 DEF FlagInv, Apart, Hand, Ended
<1>3. CASE ~ThreeMode
  <2>1. /\ held' = <<index>> /\ ipc' \in {"begun", "updated", "clear"}
        /\ ncount = 0 => held = <<>> /\ ipc' = "clear"
        /\ ncount > 0 => held = <<disp_clr_index>> /\ ipc' # "clear"
    BY <1>1, <1>3, TaskOneHeld DEF Window
  <2>2. Read' = {index} /\ Len(held') # 2
    BY <2>1, SmallRanges DEF Read
  <2>3. CASE ncount = 0
    <3>1. Read = {} /\ Due' = {}
      BY <1>1, <1>3, <2>1, <2>3, SmallRanges DEF Read, Due
    <3> QED BY <2>2, <3>1
  <2>4. CASE ncount > 0
    <3>1. Read = {disp_clr_index} /\ Due' = {disp_clr_index}
      BY <1>1, <1>3, <2>1, <2>4, SmallRanges DEF Read, Due
    <3> QED BY <1>2, <2>2, <3>1
  <2> QED BY <1>1, <2>3, <2>4
<1>4. CASE ThreeMode
  <2>1. /\ ncount = 0 => held = <<>> /\ held' = <<index>> /\ ipc' = "clear"
        /\ ncount = 1 => /\ held = <<tmp_idx[1]>>
                         /\ held' = <<tmp_idx[1], index>> /\ ipc' = "clear"
        /\ ncount = 2 => /\ held = <<tmp_idx[1], tmp_idx[2]>>
                         /\ held' = <<tmp_idx[2], index>> /\ ipc' = "begun"
                         /\ tmp_idx' = tmp_idx
        /\ ncount = 3 => /\ held = <<tmp_idx[2], tmp_idx[3]>>
                         /\ held' = <<tmp_idx[3], index>> /\ ipc' = "updated"
                         /\ tmp_idx' = tmp_idx
    BY <1>1, <1>4, TaskTwoHeld DEF Window
  <2>2. CASE ncount = 0
    <3>1. Read = {} /\ Read' = {index} /\ Due' = {} /\ Len(held') # 2
      BY <1>1, <1>4, <2>1, <2>2, SmallRanges DEF Read, Due
    <3> QED BY <3>1
  <2>3. CASE ncount = 1
    <3>1. Read = {tmp_idx[1]} /\ Read' = {tmp_idx[1], index} /\ Due' = {}
      BY <1>1, <1>4, <2>1, <2>3, SmallRanges DEF Read, Due
    <3>2. held'[1] = tmp_idx[1] /\ held'[2] = index
      BY <2>1, <2>3
    <3> QED BY <1>2, <3>1, <3>2
  <2>4. CASE ncount = 2
    <3>1. /\ Read = {tmp_idx[1], tmp_idx[2]} /\ Read' = {tmp_idx[2], index}
          /\ Due' = {tmp_idx[1]}
      BY <1>1, <1>4, <2>1, <2>4, SmallRanges DEF Read, Due
    <3>2. /\ held'[1] = tmp_idx[2] /\ held'[2] = index
          /\ held[1] = tmp_idx[1] /\ held[2] = tmp_idx[2] /\ Len(held) = 2
      BY <2>1, <2>4
    <3> QED BY <1>2, <3>1, <3>2
  <2>5. CASE ncount = 3
    <3>1. /\ Read = {tmp_idx[2], tmp_idx[3]} /\ Read' = {tmp_idx[3], index}
          /\ Due' = {tmp_idx[2]}
      BY <1>1, <1>4, <2>1, <2>5, SmallRanges DEF Read, Due
    <3>2. /\ held'[1] = tmp_idx[3] /\ held'[2] = index
          /\ held[1] = tmp_idx[2] /\ held[2] = tmp_idx[3] /\ Len(held) = 2
      BY <2>1, <2>5
    <3> QED BY <1>2, <3>1, <3>2
  <2> QED BY <1>1, <2>2, <2>3, <2>4, <2>5
<1> QED BY <1>3, <1>4

\* The thread clears the display flag of the picture that is due, and no
\* other.
LEMMA ClearFlags ==
    ASSUME ThreadInv, CloseInv, Steady, vpuOpen, FieldKnown, Window, FlagInv,
           ThreadClear
    PROVE  FlagInv'
<1>1. ipc = "clear" /\ ncount \in 0 .. 3 /\ ~stopping /\ (ThreeFields <=> ThreeMode)
  BY ModeSeen DEF ThreadClear, CloseInv, Holding, ThreadInv, TypeOK
<1>2. Due = IF ClearsFlag THEN {disp_clr_index} ELSE {}
  <2>1. CASE ThreeMode
    <3>1. CASE ncount >= 2
      <4>1. /\ disp_clr_index = tmp_idx[1] /\ Due = {tmp_idx[1]}
            /\ tmp_idx[1] \in Bufs
        BY <1>1, <2>1, <3>1 DEF Window, TwoHeld, Due, ThreadInv, TypeOK
      <4>2. ClearsFlag
        BY <1>1, <3>1, <4>1, IpuAssumption DEF ClearsFlag, Bufs
      <4> QED BY <4>1, <4>2
    <3>2. CASE ~(ncount >= 2)
      <4>1. Due = {} /\ ~ClearsFlag
        BY <1>1, <2>1, <3>2 DEF Due, ClearsFlag
      <4> QED BY <4>1
    <3> QED BY <3>1, <3>2
  <2>2. CASE ~ThreeMode
    <3>1. /\ ncount = 0 <=> disp_clr_index = -1
          /\ disp_clr_index \in Bufs \cup {-1}
      BY <1>1, <2>2 DEF Window, OneHeld, ThreadInv, TypeOK
    <3>2. ClearsFlag <=> ncount > 0
      BY <1>1, <2>2, <3>1, IpuAssumption DEF ClearsFlag, Bufs
    <3>3. Due = IF ncount > 0 THEN {disp_clr_index} ELSE {}
      BY <1>1, <2>2 DEF Due
    <3> QED BY <3>2, <3>3
  <2> QED BY <2>1, <2>2
<1>3. /\ ipc' = "dequeue" /\ flagged' = flagged \ Due
      /\ UNCHANGED <<stream, high_motion, pc, out, ipu_q, held>>
  <2>1. ClearsFlag => disp_clr_index # rotid
    <3>1. Due \subseteq RegBufs
      BY <1>1 DEF FlagInv, Apart, Ended, ThreadInv, TypeOK
    <3>2. rotid \notin RegBufs
      BY IpuAssumption DEF rotid, RegBufs
    <3> QED BY <1>2, <3>1, <3>2
  <2>2. /\ ipc' = "dequeue"
        /\ flagged' = IF ClearsFlag THEN flagged \ {disp_clr_index} ELSE flagged
    BY <2>1 DEF ThreadClear
  <2>3. UNCHANGED <<stream, high_motion, pc, out, ipu_q, held>>
    BY DEF ThreadClear, ThreadStep, cfgVars, decVars, ipuVars
  <2> QED BY <1>2, <2>2, <2>3
<1>4. /\ Hand = {} /\ Hand' = {} /\ Due' = {} /\ Queued' = Queued /\ Read' = Read
      /\ Given' = Given
  BY <1>1, <1>3 DEF Hand, Due, Queued, Read, Given, ThreeMode
<1>5. ipc \notin Ended /\ ipc' \notin Ended
  BY <1>1, <1>3 DEF Ended
<1> QED BY <1>3, <1>4, <1>5 DEF FlagInv, Apart

\* The thread leaves its loop: nothing is cleared any more.
LEMMA EndFlags ==
    ASSUME FlagInv, ipc' \in Ended, Range(held') \subseteq Range(held),
           UNCHANGED <<flagged, ipu_q, pc, out>>
    PROVE  FlagInv'
<1>1. /\ Hand' = {} /\ Queued' = Queued /\ Given' = Given /\ Read' \subseteq Read
  BY DEF Hand, Queued, Given, Read, Ended
<1> QED BY <1>1 DEF FlagInv

\* A step of the thread.
LEMMA ThreadFlags ==
    ASSUME ThreadInv, CloseInv, Steady, vpuOpen, FieldKnown,
           ipc \notin Ended => Window, FlagInv, IsInjective(ipu_q),
           Thread \/ ThreadSpurious
    PROVE  FlagInv'
<1>0. UNCHANGED <<stream, high_motion, pc, out>>
  BY DEF Thread, ThreadSpurious, ThreadStart, ThreadDequeue, ThreadWait,
     ThreadBlock, ThreadWoken, ThreadRetry, ThreadTask, ThreadBook, ThreadClear,
     ThreadExit, ThreadStep, cfgVars, decVars, endVars
<1>1. Given' = Given /\ (ThreeMode' <=> ThreeMode)
  BY <1>0 DEF Given, ThreeMode
<1>2. CASE ThreadStart \/ ThreadWait \/ ThreadBlock \/ ThreadWoken \/ ThreadSpurious
  <2>1. /\ UNCHANGED <<flagged, held, ipu_q>> /\ ipc \notin Ended
        /\ ipc \notin Holding /\ ipc' \notin Holding
    BY <1>2 DEF ThreadStart, ThreadWait, ThreadBlock, ThreadWoken, ThreadSpurious,
       ipuVars, Holding, Ended
  <2>2. Hand' = Hand /\ Due' = Due
    BY <1>1, <2>1 DEF Hand, Due, Holding
  <2> QED BY <1>0, <1>1, <2>1, <2>2, FlagsKept
<1>3. CASE ThreadDequeue \/ ThreadRetry
  <2>1. CASE ipu_q = <<>>
    <3>1. /\ UNCHANGED <<flagged, held, ipu_q>> /\ ipc \notin Ended
          /\ ipc \notin Holding /\ ipc' \notin Holding
      BY <1>3, <2>1 DEF ThreadDequeue, ThreadRetry, ipuVars, Holding, Ended
    <3>2. Hand' = Hand /\ Due' = Due
      BY <1>1, <3>1 DEF Hand, Due, Holding
    <3> QED BY <1>0, <1>1, <3>1, <3>2, FlagsKept
  <2>2. CASE ipu_q # <<>>
    BY <1>3, <2>2, TakeFlags
  <2> QED BY <2>1, <2>2
<1>4. CASE ThreadTask
  <2>1. ipc = "task" /\ ipc \notin Ended /\ UNCHANGED <<flagged, ipu_q>>
    BY <1>4 DEF ThreadTask, Ended
  <2>2. CASE ipc' \in Ended
    <3>1. held' = held
      BY <1>4, <2>2 DEF ThreadTask, TaskCollect, TaskInit, TaskUpdate, TaskFail,
         ipuVars, Ended
    <3> QED BY <1>0, <2>1, <2>2, <3>1, EndFlags
  <2>3. CASE ipc' \notin Ended
    <3>1. /\ Due' \cup Read' = Read \cup {index} /\ Due' \cap Read' = {}
          /\ Len(held') = 2 => held'[1] # held'[2]
      BY <1>4, <2>1, <2>3, TaskMoves
    <3>2. /\ Hand = {index} /\ Due = {} /\ Queued' = Queued
      BY <2>1 DEF Hand, Due, Queued
    <3>3. Hand' = {}
      BY <1>4, <2>3 DEF ThreadTask, TaskCollect, TaskInit, TaskUpdate, TaskFail,
         Hand, Ended
    <3> QED BY <1>0, <1>1, <2>1, <2>3, <3>1, <3>2, <3>3 DEF FlagInv, Apart
  <2> QED BY <2>2, <2>3
<1>5. CASE ThreadBook
  <2>1. /\ ThreeFields <=> ThreeMode
        /\ ipc \in {"begun", "updated"} /\ ipc' = "clear"
        /\ UNCHANGED <<ncount, index, held, flagged, ipu_q>>
    BY <1>5, ModeSeen DEF ThreadBook, Holding, ipuVars
  <2>2. Hand' = Hand /\ ipc \notin Ended
    BY <2>1 DEF Hand, Ended
  <2>3. tmp_idx \in Bufs \X Bufs \X Bufs /\ index \in Bufs
    BY <2>1 DEF ThreadInv, TypeOK, Holding
  <2>4. Due' = Due
    <3>1. CASE ThreeMode
      <4>1. ncount >= 2
        BY <2>1, <2>2, <3>1 DEF Window, TwoHeld
      <4>2. CASE ipc = "begun"
        <5>1. tmp_idx' = <<tmp_idx[1], tmp_idx[2], index>>
          BY <1>5, <2>3, <4>2, StoreIndex DEF ThreadBook
        <5> QED BY <1>1, <2>1, <3>1, <4>1, <4>2, <5>1 DEF Due
      <4>3. CASE ipc = "updated"
        <5>1. tmp_idx' = <<tmp_idx[2], tmp_idx[3], index>>
          BY <1>5, <2>1, <3>1, <4>3 DEF ThreadBook
        <5> QED BY <1>1, <2>1, <3>1, <4>1, <4>3, <5>1 DEF Due
      <4> QED BY <2>1, <4>2, <4>3
    <3>2. CASE ~ThreeMode
      <4>1. disp_clr_index' = disp_clr_index /\ ncount > 0
        BY <1>5, <2>1, <2>2, <3>2 DEF ThreadBook, Window, OneHeld
      <4> QED BY <1>1, <2>1, <3>2, <4>1 DEF Due
    <3> QED BY <3>1, <3>2
  <2> QED BY <1>0, <1>1, <2>1, <2>2, <2>4, FlagsKept
<1>6. CASE ThreadClear
  <2>1. ipc \notin Ended
    BY <1>6 DEF ThreadClear, Ended
  <2> QED BY <1>6, <2>1, ClearFlags
<1>7. CASE ThreadExit
  <2>1. /\ ipc' \in Ended /\ held' = <<>> /\ UNCHANGED <<flagged, ipu_q>>
    BY <1>7 DEF ThreadExit, Ended
  <2>2. Range(held') \subseteq Range(held)
    BY <2>1, SmallRanges
  <2> QED BY <1>0, <2>1, <2>2, EndFlags
<1> QED BY <1>2, <1>3, <1>4, <1>5, <1>6, <1>7 DEF Thread

\* ipu_q holds no picture twice, and only registered buffers.
LEMMA NextOnce ==
    ASSUME ThreadInv, CloseInv, Steady, vpuOpen => FlagInv, IsInjective(ipu_q),
           ipu_q \in Seq(RegBufs), Next
    PROVE  IsInjective(ipu_q') /\ ipu_q' \in Seq(RegBufs)
<1>1. CASE PutQueue
  <2>1. out \in RegBufs /\ ipu_q' = Append(ipu_q, out)
    BY <1>1 DEF PutQueue, actual_display_index, Steady, ThreadInv, TypeOK
  <2>2. out \notin Range(ipu_q)
    BY <1>1 DEF PutQueue, CloseInv, FlagInv, Queued, Given
  <2>3. Append(ipu_q, out) \in Seq(RegBufs)
    BY <2>1, AppendProperties
  <2> QED BY <2>1, <2>2, <2>3, QueueAppend
<1>2. CASE ThreadDequeue \/ ThreadRetry
  <2>1. ipu_q' = ipu_q \/ (ipu_q # <<>> /\ ipu_q' = Tail(ipu_q))
    BY <1>2 DEF ThreadDequeue, ThreadRetry
  <2>2. CASE ipu_q' = ipu_q
    BY <2>2
  <2>3. CASE ipu_q # <<>> /\ ipu_q' = Tail(ipu_q)
    <3>1. IsInjective(Tail(ipu_q)) /\ Tail(ipu_q) \in Seq(RegBufs)
      BY <2>3, QueueTail
    <3> QED BY <2>3, <3>1
  <2> QED BY <2>1, <2>2, <2>3
<1>3. CASE Decoder /\ ~PutQueue
  <2>1. ipu_q' = ipu_q
    BY <1>3 DEF Decoder, DecodePicture, DecodeLast, DecodeStop, PutField, PutSignal,
       VpuClose, CloseStop, CloseProgressive, CloseDrain, CloseWake, CloseJoin,
       CloseFree, CloseStep
  <2> QED BY <2>1
<1>4. CASE (Thread \/ ThreadSpurious) /\ ~(ThreadDequeue \/ ThreadRetry)
  <2>1. ipu_q' = ipu_q
    BY <1>4 DEF Thread, ThreadSpurious, ThreadStart, ThreadWait, ThreadBlock,
       ThreadWoken, ThreadTask, ThreadBook, ThreadClear, ThreadExit
  <2> QED BY <2>1
<1> QED BY <1>1, <1>2, <1>3, <1>4 DEF Next

\* Every step keeps the ownership of the buffers.
LEMMA NextOwn ==
    ThreadInv /\ CloseInv /\ OwnInv /\ [Next]_vars => OwnInv'
<1> SUFFICES ASSUME ThreadInv, CloseInv, OwnInv, [Next]_vars, Steady'
             PROVE  /\ IsInjective(ipu_q') /\ ipu_q' \in Seq(RegBufs)
                    /\ vpuOpen' => /\ FieldKnown'
                                   /\ ipc' \notin Ended => Window'
                                   /\ FlagInv'
  BY DEF OwnInv
<1>1. CASE Next
  <2>1. Steady
    <3>1. stream' = stream /\ (pp' <=> pp)
      BY <1>1, StreamStays
    <3> QED BY <3>1 DEF Steady
  <2>2. /\ IsInjective(ipu_q) /\ ipu_q \in Seq(RegBufs)
        /\ vpuOpen => FieldKnown /\ (ipc \notin Ended => Window) /\ FlagInv
    BY <2>1 DEF OwnInv
  <2>3. IsInjective(ipu_q') /\ ipu_q' \in Seq(RegBufs)
    BY <1>1, <2>1, <2>2, NextOnce
  <2>4. ASSUME vpuOpen' PROVE FieldKnown' /\ (ipc' \notin Ended => Window') /\ FlagInv'
    <3>1. vpuOpen
      BY <1>1, <2>4 DEF Next, Decoder, DecodePicture, DecodeLast, DecodeStop, PutField,
         PutQueue, PutSignal, VpuClose, CloseStop, CloseProgressive, CloseDrain,
         CloseWake, CloseJoin, CloseFree, Thread, ThreadSpurious, ThreadStart,
         ThreadDequeue, ThreadWait, ThreadBlock, ThreadWoken, ThreadRetry,
         ThreadTask, ThreadBook, ThreadClear, ThreadExit, DecStep, ThreadStep
    <3>2. FieldKnown'
      BY <1>1, <2>1, <2>2, <2>4, <3>1, NextField
    <3>3. ipc' \notin Ended => ipc \notin Ended
      BY <1>1 DEF Next, Decoder, DecodePicture, DecodeLast, DecodeStop, PutField, PutQueue,
         PutSignal, VpuClose, CloseStop, CloseProgressive, CloseDrain, CloseWake,
         CloseJoin, CloseFree, Signalled, Thread, ThreadSpurious, ThreadStart,
         ThreadDequeue, ThreadWait, ThreadBlock, ThreadWoken, ThreadRetry,
         ThreadTask, ThreadBook, ThreadClear, ThreadExit, Ended
    <3>4. ipc' \notin Ended => Window'
      BY <1>1, <2>1, <2>2, <3>1, <3>3, NextWindow
    <3>5. FlagInv'
      BY <1>1, <2>1, <2>2, <2>4, <3>1, DecoderFlags, ThreadFlags DEF Next
    <3> QED BY <3>2, <3>4, <3>5
  <2> QED BY <2>3, <2>4
<1>2. CASE UNCHANGED vars
  BY <1>2 DEF vars, cfgVars, decVars, endVars, vpuVars, locVars, ipuVars, OwnInv,
     Steady, FieldKnown, Window, ThreeMode, OneHeld, TwoHeld, Shown, FlagInv,
     Apart, Due, Queued, Read, Hand, Given, IsInjective
<1> QED BY <1>1, <1>2

\* The ownership of the buffers in every reachable state.
LEMMA OwnInvariant == Spec => [](ThreadInv /\ CloseInv /\ OwnInv)
<1>1. Init => OwnInv
  <2> SUFFICES ASSUME Init
               PROVE  /\ IsInjective(ipu_q) /\ ipu_q \in Seq(RegBufs)
                      /\ FieldKnown /\ Window /\ FlagInv
    BY DEF OwnInv
  <2>1. IsInjective(ipu_q) /\ ipu_q \in Seq(RegBufs)
    BY DEF Init, IsInjective
  <2>2. FieldKnown
    BY DEF Init, FieldKnown, Holding
  <2>3. Window
    BY DEF Init, Window, OneHeld, TwoHeld, Shown, Waiting
  <2>4. Queued = {} /\ Read = {} /\ Len(held) # 2
    BY SmallRanges DEF Init, Queued, Read
  <2>5. Hand = {} /\ Given = {} /\ Due = {} /\ flagged = {}
    BY DEF Init, Hand, Given, Due
  <2>6. FlagInv
    BY <2>4, <2>5 DEF FlagInv, Apart
  <2> QED BY <2>1, <2>2, <2>3, <2>6
<1>2. ThreadInv /\ CloseInv /\ OwnInv /\ [Next]_vars => OwnInv'
  BY NextOwn
<1> QED BY <1>1, <1>2, CloseInvariant, PTL DEF Spec

\* For every number of buffers: without post processing, and while the
\* stream is all interlaced or all progressive, the VPU cannot write a picture
\* that is queued, in the thread's hands or read by the IPU.
THEOREM ShownNotOverwritten == Spec => []SteadyNoOverwrite
<1>1. OwnInv => SteadyNoOverwrite
  BY DEF OwnInv, SteadyNoOverwrite, NoOverwriteOnDisplay, OnDisplay, Steady,
     actual_display_index, FlagInv, Queued, Read, Hand, Given
<1> QED BY <1>1, OwnInvariant, PTL

\* For every number of buffers no display flag is leaked in steady playback,
\* as long as the thread lives and the VPU is open.
THEOREM NoFlagLeaked == Spec => []SteadyNoBufferLost
<1>1. ThreadInv /\ OwnInv => SteadyNoBufferLost
  <2> SUFFICES ASSUME ThreadInv, OwnInv, Steady, vpuOpen,
                      pc \in {"decode", "signal"}, ipc \notin Ended
               PROVE  flagged \subseteq OnDisplay \cup DueNext \cup {disp_clr_index}
    BY DEF SteadyNoBufferLost, Ended
  <2>1. /\ flagged \subseteq Queued \cup Read \cup Hand \cup Given \cup Due
        /\ Window
    BY DEF OwnInv, FlagInv
  <2>2. Queued \cup Read \cup Hand \cup Given = OnDisplay
    BY DEF OnDisplay, Queued, Read, Hand, Given
  <2>3. Due \subseteq DueNext \cup {disp_clr_index}
    <3>1. ncount \in 0 .. 3
      BY DEF ThreadInv, TypeOK
    <3> QED BY <2>1, <3>1 DEF Due, DueNext, Window, TwoHeld
  <2> QED BY <2>1, <2>2, <2>3
<1> QED BY <1>1, OwnInvariant, PTL

\* ipu_q holds no more pictures than there are frame buffers: fbpool has
\* MAX_BUF_NUM of them and the ring room for as many indices.
QueueHasRoom == Len(ipu_q) <= RegFb

\* ipu_put_data does not look at what queue_buf returns, and need not: in
\* steady playback queue_buf never finds ipu_q full, so the atomic queue
\* without a bound stands for the one that QueueImplementsFifo proves.
THEOREM QueueNeverFull == Spec => [](Steady => QueueHasRoom)
<1>1. ThreadInv /\ OwnInv => (Steady => QueueHasRoom)
  <2> SUFFICES ASSUME ThreadInv, OwnInv, Steady PROVE Len(ipu_q) <= RegFb
    BY DEF QueueHasRoom
  <2>1. ipu_q \in [1 .. Len(ipu_q) -> RegBufs] /\ Len(ipu_q) \in Nat
    BY DEF OwnInv
  <2>2. ipu_q \in Injection(1 .. Len(ipu_q), RegBufs)
    BY <2>1 DEF OwnInv, Injection, IsInjective
  <2>3. IsFiniteSet(RegBufs) /\ Cardinality(RegBufs) = RegFb
    <3>1. /\ RegFb \in Nat \ {0} /\ 0 \in Int /\ RegFb - 1 \in Int
          /\ (RegFb - 1) - 0 + 1 = RegFb /\ ~(0 > RegFb - 1)
      BY IpuAssumption
    <3> QED BY <3>1, FS_Interval DEF RegBufs
  <2>4. Cardinality(1 .. Len(ipu_q)) = Len(ipu_q)
    <3> DEFINE n == Len(ipu_q)
    <3>1. n \in Nat
      BY <2>1
    <3> HIDE DEF n
    <3>2. Cardinality(1 .. n) = IF 1 > n THEN 0 ELSE n - 1 + 1
      BY <3>1, FS_Interval
    <3>3. Cardinality(1 .. n) = n
      BY <3>1, <3>2
    <3> QED BY <3>3 DEF n
  <2>5. Cardinality(1 .. Len(ipu_q)) <= Cardinality(RegBufs)
    BY <2>2, <2>3, FS_Injection
  <2> QED BY <2>3, <2>4, <2>5
<1> QED BY <1>1, OwnInvariant, PTL

=============================================================================

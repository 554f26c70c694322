------------------------------ MODULE BufQueue ------------------------------
(***************************************************************************)
(* struct buf_queue of test/mxc_vpu_test/vpu_test.h and its operations     *)
(* queue_buf, dequeue_buf, peek_next_buf and queue_size, as they run when  *)
(* one thread queues and another dequeues with no lock around the queue    *)
(* (the display thread and the decoder on released_q, the decoder and the  *)
(* IPU thread on ipu_q).  Every load and store of head, tail and list that *)
(* the other thread can observe is a step of its own.                      *)
(*                                                                         *)
(* Stores become visible in program order; the released_q callers get that *)
(* from the semaphore between them.  See the README for ipu_q.             *)
(***************************************************************************)
EXTENDS Integers, Sequences

CONSTANTS QUEUE_SIZE,  \* slots of list; one of them always stays empty
          Values       \* the buffer indices the program queues

\* MAX_BUF_NUM + 1 slots, and indices are never the error code -1.
ASSUME QueueAssumption ==
    /\ QUEUE_SIZE \in Nat \ {0}
    /\ Values \subseteq Nat

VARIABLES
    list, head, tail,  \* the fields of struct buf_queue
    ppc, pidx,         \* the producer: inside queue_buf, its argument
    cpc, cret,         \* the consumer: inside dequeue_buf, its local ret
    putRet, getRet     \* the last value each operation returned

queueVars == <<list, head, tail, ppc, pidx, cpc, cret, putRet, getRet>>

Slots == 0 .. QUEUE_SIZE - 1

\* (i + 1) % QUEUE_SIZE
NextSlot(i) == (i + 1) % QUEUE_SIZE

queue_size ==
    IF tail >= head THEN tail - head ELSE (tail + QUEUE_SIZE) - head

QueueInit ==
    /\ list \in [Slots -> {0}]
    /\ head = 0
    /\ tail = 0
    /\ ppc = "idle"
    /\ pidx = 0
    /\ cpc = "idle"
    /\ cret = -1
    /\ putRet = 0
    /\ getRet = -1

-----------------------------------------------------------------------------
(* queue_buf(q, idx)                                                       *)

\* The full test reads the consumer's head; on a full queue it returns -1.
PutFull ==
    /\ ppc = "idle"
    /\ NextSlot(tail) = head
    /\ putRet' = -1
    /\ UNCHANGED <<list, head, tail, ppc, pidx, cpc, cret, getRet>>

PutBegin(v) ==
    /\ ppc = "idle"
    /\ NextSlot(tail) # head
    /\ ppc' = "store"
    /\ pidx' = v
    /\ UNCHANGED <<list, head, tail, cpc, cret, putRet, getRet>>

\* Mutant: tail is advanced before the slot is written.
PutStoreLate ==
    /\ ppc = "store"
    /\ tail' = NextSlot(tail)
    /\ ppc' = "advance"
    /\ UNCHANGED <<list, head, pidx, cpc, cret, putRet, getRet>>

\* q->list[q->tail] = idx
PutStore ==
    /\ ppc = "store"
    /\ list' = [list EXCEPT ![tail] = pidx]
    /\ ppc' = "advance"
    /\ UNCHANGED <<head, tail, pidx, cpc, cret, putRet, getRet>>

\* q->tail = (q->tail + 1) % QUEUE_SIZE; return 0
PutAdvance ==
    /\ ppc = "advance"
    /\ tail' = NextSlot(tail)
    /\ ppc' = "idle"
    /\ putRet' = 0
    /\ UNCHANGED <<list, head, pidx, cpc, cret, getRet>>

-----------------------------------------------------------------------------
(* dequeue_buf(q)                                                          *)

GetEmpty ==
    /\ cpc = "idle"
    /\ tail = head
    /\ getRet' = -1
    /\ UNCHANGED <<list, head, tail, ppc, pidx, cpc, cret, putRet>>

GetBegin ==
    /\ cpc = "idle"
    /\ tail # head
    /\ cpc' = "load"
    /\ UNCHANGED <<list, head, tail, ppc, pidx, cret, putRet, getRet>>

\* ret = q->list[q->head]
GetLoad ==
    /\ cpc = "load"
    /\ cret' = list[head]
    /\ cpc' = "advance"
    /\ UNCHANGED <<list, head, tail, ppc, pidx, putRet, getRet>>

\* q->head = (q->head + 1) % QUEUE_SIZE; return ret
GetAdvance ==
    /\ cpc = "advance"
    /\ head' = NextSlot(head)
    /\ getRet' = cret
    /\ cpc' = "idle"
    /\ UNCHANGED <<list, tail, ppc, pidx, cret, putRet>>

QueueNext ==
    \/ \E v \in Values : PutBegin(v)
    \/ PutFull
    \/ PutStore
    \/ PutAdvance
    \/ GetEmpty
    \/ GetBegin
    \/ GetLoad
    \/ GetAdvance

QueueSpec == QueueInit /\ [][QueueNext]_queueVars

-----------------------------------------------------------------------------
(* The queue the two indices describe: slot k of the contents.             *)

SlotOf(k) == IF head + k - 1 < QUEUE_SIZE THEN head + k - 1
                                          ELSE head + k - 1 - QUEUE_SIZE

contents == [k \in 1 .. queue_size |-> list[SlotOf(k)]]

Fifo == INSTANCE BoundedFifo WITH
            Capacity <- QUEUE_SIZE - 1, fifo <- contents

\* queue_buf and dequeue_buf, run concurrently by one producer and one
\* consumer without a lock, behave as the atomic bounded queue: nothing is
\* lost, repeated or reordered, and "full" and "empty" are only reported
\* when the queue is full or empty (vpu_test.h, queue_buf/dequeue_buf).
RefinesFifo == Fifo!Spec

-----------------------------------------------------------------------------
(* Invariants.                                                             *)

\* Every field keeps its type; in particular head and tail stay in range.
QueueTypeOK ==
    /\ list \in [Slots -> Values \cup {0}]
    /\ head \in Slots
    /\ tail \in Slots
    /\ ppc \in {"idle", "store", "advance"}
    /\ pidx \in Values \cup {0}
    /\ ppc # "idle" => pidx \in Values
    /\ cpc \in {"idle", "load", "advance"}
    /\ cret \in Values \cup {0, -1}
    /\ putRet \in {0, -1}
    /\ getRet \in Values \cup {0, -1}

\* A producer past its full test still has its free slot: the consumer can
\* only have made room since (queue_buf reads head once, before the store).
RoomReserved == ppc # "idle" => queue_size < QUEUE_SIZE - 1

\* The slot behind tail is completely written before tail moves over it.
StoredBeforeVisible == ppc = "advance" => list[tail] = pidx

\* What dequeue_buf is about to return is still the oldest element when head
\* moves: the producer never overwrites the slot the consumer is reading.
FrontStable ==
    /\ cpc # "idle" => head # tail
    /\ cpc = "advance" => cret = list[head]

QueueInv == QueueTypeOK /\ RoomReserved /\ StoredBeforeVisible /\ FrontStable

=============================================================================

---------------------------- MODULE BoundedFifo ----------------------------
(***************************************************************************)
(* What a caller of queue_buf and dequeue_buf relies on: a first-in        *)
(* first-out queue of buffer indices with a fixed capacity, whose two      *)
(* operations take effect at one instant each.  An operation that fails    *)
(* (queue full, queue empty) leaves the queue alone.                       *)
(***************************************************************************)
EXTENDS Integers, Sequences

CONSTANTS Values,    \* the buffer indices that may be queued
          Capacity   \* how many indices fit

VARIABLES fifo,      \* the queued indices, oldest first
          putRet,    \* what the last queue_buf returned: 0 or -1
          getRet     \* what the last dequeue_buf returned: an index or -1

fvars == <<fifo, putRet, getRet>>

Init ==
    /\ fifo = <<>>
    /\ putRet = 0
    /\ getRet = -1

Put(v) ==
    /\ Len(fifo) < Capacity
    /\ fifo' = Append(fifo, v)
    /\ putRet' = 0
    /\ UNCHANGED getRet

PutFull ==
    /\ Len(fifo) = Capacity
    /\ putRet' = -1
    /\ UNCHANGED <<fifo, getRet>>

Get ==
    /\ fifo # <<>>
    /\ getRet' = Head(fifo)
    /\ fifo' = Tail(fifo)
    /\ UNCHANGED putRet

GetEmpty ==
    /\ fifo = <<>>
    /\ getRet' = -1
    /\ UNCHANGED <<fifo, putRet>>

Next ==
    \/ \E v \in Values : Put(v)
    \/ PutFull
    \/ Get
    \/ GetEmpty

Spec == Init /\ [][Next]_fvars

=============================================================================

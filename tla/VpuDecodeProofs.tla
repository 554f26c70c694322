-------------------------- MODULE VpuDecodeProofs --------------------------
(***************************************************************************)
(* Proofs about module VpuDecode, for every number of buffers.             *)
(*                                                                         *)
(* Types: TypeOK is inductive together with RotidInRange, which keeps the  *)
(* MJPG round robin inside the registered buffers, and PutHasBuffer, which *)
(* keeps the VPU's negative codes away from the display.                   *)
(*                                                                         *)
(* Handshake: LockStep is inductive relative to the types.                 *)
(*                                                                         *)
(* Ownership: OwnerInv, relative to both, says for each of the three modes *)
(* where every buffer is; that none is queued twice, overwritten while     *)
(* shown or lost, and the VPU's budget, follow from it.                    *)
(***************************************************************************)
EXTENDS VpuDecode, FiniteSetTheorems, TLAPS

USE DEF NoPicture

\* The MJPG round robin of decoder_start stays within the registered buffers.
RotidInRange == mode = "mjpg" => rotid \in RegBufs

\* decoder_start only displays a picture the VPU reported.
PutHasBuffer == pc = "put" /\ mode = "plain" => out \in RegBufs

TypeInv == TypeOK /\ RotidInRange /\ PutHasBuffer

\* The buffer counts of decoder_parse and decoder_allocate_framebuffer.
LEMMA Counts ==
    /\ regfbcount \in Nat \ {0}
    /\ rot_buf_count \in Nat \ {0}
    /\ RegBufs \subseteq Bufs
    /\ Bufs \subseteq Nat
    /\ regfbcount \in Bufs
    /\ 0 \in RegBufs
BY FbAssumption DEF regfbcount, rot_buf_count, RegBufs, Bufs

\* What NextRotid returns is a buffer, and in MJPG mode a registered one.
LEMMA NextRotidType ==
    ASSUME TypeInv, mode # "plain"
    PROVE  /\ NextRotid \in Bufs
           /\ mode = "mjpg" => NextRotid \in RegBufs
<1>1. CASE mode = "mjpg"
  <2>1. (rotid + 1) % regfbcount \in 0 .. regfbcount - 1
    BY Counts DEF TypeInv, TypeOK
  <2> QED
    BY <1>1, <2>1, Counts DEF NextRotid, RegBufs
<1>2. CASE mode = "pp" /\ index # -1
  BY <1>2 DEF NextRotid, TypeInv, TypeOK
<1>3. CASE mode = "pp" /\ index = -1
  <2>1. ((rotid + 1 - regfbcount) % rot_buf_count) \in 0 .. rot_buf_count - 1
    BY Counts DEF TypeInv, TypeOK
  <2>2. NextRotid = ((rotid + 1 - regfbcount) % rot_buf_count) + regfbcount
    BY <1>3 DEF NextRotid, extrafb
  <2> QED
    BY <1>3, <2>1, <2>2, Counts DEF Bufs
<1> QED
  BY <1>1, <1>2, <1>3 DEF TypeInv, TypeOK

\* Every step of the decoder thread keeps the types.
LEMMA DecoderTypes ==
    ASSUME TypeInv, DecoderStep \/ PutFail
    PROVE  TypeInv'
<1> USE Counts DEF TypeInv, TypeOK, RotidInRange, PutHasBuffer, DecoderPcs, DisplayPcs
<1> USE DEF cfgVars, drvVars, cntVars, semVars, dispVars
<1>1. CASE DecodePicture
  <2> USE <1>1 DEF DecodePicture, DecodeStep
  <2>1. out' \in RegBufs \cup {-1, -2, -3}
    OBVIOUS
  <2>2. flagged' \in SUBSET RegBufs
    OBVIOUS
  <2> QED
    BY <2>1, <2>2
<1>2. CASE DecodeNoPicture
  BY <1>2 DEF DecodeNoPicture, DecodeStep
<1>3. CASE DecodeEnd
  BY <1>3 DEF DecodeEnd, DecodeStep
<1>4. CASE DecodeIncomplete
  BY <1>4 DEF DecodeIncomplete, DecodeStep
<1>5. CASE DecodeStop
  BY <1>5 DEF DecodeStop, DecodeStep
<1>6. CASE OutinfoStop
  BY <1>6 DEF OutinfoStop, OutinfoStep
<1>7. CASE OutinfoNoPicture
  <2> USE <1>7 DEF OutinfoNoPicture, OutinfoStep
  <2>1. flagged' \in SUBSET RegBufs
    BY DEF ClearedFlags
  <2>2. disp_clr_index' \in Bufs \cup {-1, -2, -3}
    OBVIOUS
  <2>3. pc' \in DecoderPcs
    OBVIOUS
  <2>4. TypeOK'
    BY <2>1, <2>2, <2>3
  <2> QED
    BY <2>4
<1>8. CASE OutinfoDelay
  BY <1>8 DEF OutinfoDelay, OutinfoStep
<1>9. CASE OutinfoDisplay
  BY <1>9 DEF OutinfoDisplay, OutinfoStep, StopsHere
<1>10. CASE PutQueue
  <2> USE <1>10 DEF PutQueue, PutStep
  <2>1. actual_display_index \in Bufs
    BY DEF actual_display_index
  <2>2. driver' \in Seq(Bufs) /\ Len(driver') = Len(driver) + 1
    BY <2>1
  <2>3. shown' \in 0 .. Len(driver')
    BY <2>2
  <2> QED
    BY <2>2, <2>3
<1>11. CASE PutCount
  BY <1>11 DEF PutCount, PutStep
<1>12. CASE PutCheck
  BY <1>12 DEF PutCheck, PutStep
<1>13. CASE PutDequeue
  BY <1>13 DEF PutDequeue, PutStep
<1>14. CASE GetWait
  BY <1>14 DEF GetWait, GetStep
<1>15. CASE GetTest
  BY <1>15 DEF GetTest, GetStep
<1>16. CASE GetPop
  BY <1>16 DEF GetPop, GetStep
<1>17. CASE GetUncount
  BY <1>17 DEF GetUncount, GetStep
<1>18. CASE AfterDisplay
  <2> USE <1>18 DEF AfterDisplay
  <2>1. flagged' \in SUBSET RegBufs
    BY DEF ClearedFlags
  <2>2. rotid' \in Bufs /\ RotidInRange'
    BY NextRotidType
  <2>3. disp_clr_index' \in Bufs \cup {-1, -2, -3}
    OBVIOUS
  <2>4. pc' \in DecoderPcs
    OBVIOUS
  <2>5. TypeOK'
    BY <2>1, <2>2, <2>3, <2>4
  <2> QED
    BY <2>2, <2>5
<1>19. CASE Close
  BY <1>19 DEF Close, CloseStep, decVars
<1>20. CASE CloseJoin
  BY <1>20 DEF CloseJoin, CloseStep, decVars
<1>21. CASE PutFail
  BY <1>21 DEF PutFail, PutStep
<1> QED
  BY <1>1, <1>2, <1>3, <1>4, <1>5, <1>6, <1>7, <1>8, <1>9, <1>10, <1>11, <1>12, <1>13, <1>14, <1>15, <1>16, <1>17, <1>18, <1>19, <1>20, <1>21
     DEF DecoderStep

\* Every step of the display thread keeps the types.
LEMMA DisplayTypes ==
    ASSUME TypeInv, DisplayStep \/ DispDequeueFail
    PROVE  TypeInv'
<1> USE Counts DEF TypeInv, TypeOK, RotidInRange, PutHasBuffer, DecoderPcs,
                   DisplayPcs
<1> USE DEF DispStep, cfgVars, decVars, cntVars, semVars
<1>1. CASE DispLoop
  BY <1>1 DEF DispLoop
<1>2. CASE DispWait
  BY <1>2 DEF DispWait
<1>3. CASE DispQuit
  BY <1>3 DEF DispQuit
<1>4. CASE DispDequeue
  BY <1>4 DEF DispDequeue
<1>5. CASE DispRelease
  BY <1>5 DEF DispRelease
<1>6. CASE DispLock
  BY <1>6 DEF DispLock
<1>7. CASE DispUnlock
  BY <1>7 DEF DispUnlock
<1>8. CASE DispPost
  BY <1>8 DEF DispPost
<1>9. CASE DispDequeueFail
  BY <1>9 DEF DispDequeueFail
<1> QED
  BY <1>1, <1>2, <1>3, <1>4, <1>5, <1>6, <1>7, <1>8, <1>9 DEF DisplayStep

\* The initial state is well typed.
LEMMA InitTypes == Init => TypeInv
<1> SUFFICES ASSUME Init PROVE TypeInv
  OBVIOUS
<1> USE Counts DEF Init
<1>1. rotid \in Bufs /\ RotidInRange
  BY DEF RotidInRange
<1>2. semDecoding \in Nat
  BY FbAssumption DEF regfbcount
<1>3. dpc \in DisplayPcs /\ pc \in DecoderPcs
  BY DEF DisplayPcs, DecoderPcs
<1>4. /\ driver \in Seq(Bufs) /\ released_q \in Seq(Bufs)
      /\ shown \in 0 .. Len(driver)
  OBVIOUS
<1>5. flagged \in SUBSET RegBufs
  OBVIOUS
<1>6. /\ decodefinish \in BOOLEAN /\ quitflag \in BOOLEAN
      /\ error_status \in BOOLEAN /\ perf \in BOOLEAN
  OBVIOUS
<1>7. TypeOK
  BY <1>1, <1>2, <1>3, <1>4, <1>5, <1>6 DEF TypeOK
<1> QED
  BY <1>1, <1>7 DEF TypeInv, PutHasBuffer

\* So does every step.
LEMMA NextTypes == TypeInv /\ [Next]_vars => TypeInv'
<1> SUFFICES ASSUME TypeInv, [Next]_vars PROVE TypeInv'
  OBVIOUS
<1>1. CASE DriverShow
  BY <1>1, Counts
     DEF DriverShow, TypeInv, TypeOK, RotidInRange, PutHasBuffer, cfgVars,
         decVars, cntVars, semVars, dispVars
<1>2. CASE Interrupt
  BY <1>2, Counts
     DEF Interrupt, TypeInv, TypeOK, RotidInRange, PutHasBuffer, cfgVars,
         decVars, drvVars, cntVars, semVars, dispVars
<1>3. CASE UNCHANGED vars
  BY <1>3, Counts
     DEF vars, TypeInv, TypeOK, RotidInRange, PutHasBuffer, cfgVars, decVars,
         drvVars, cntVars, semVars, dispVars
<1> QED
  BY <1>1, <1>2, <1>3, DecoderTypes, DisplayTypes DEF Next, Finished

\* Every variable of the decoder loop and the display thread keeps its type,
\* for every number of buffers: no index leaves the buffer array.
THEOREM TypeCorrect == Spec => []TypeOK
<1>1. Spec => []TypeInv
  BY InitTypes, NextTypes, PTL DEF Spec
<1> QED
  BY <1>1, PTL DEF TypeInv

-----------------------------------------------------------------------------
(* The lock-step of performance mode.                                      *)

\* In every mode the dequeue threshold is the number of extra buffers.
LEMMA ThresholdIsExtFb == threshold = ExtFb
BY FbAssumption DEF threshold, rot_buf_count, regfbcount

\* The decoder's steps keep the handshake in lock-step.
LEMMA DecoderLockStep ==
    ASSUME TypeInv, LockStep, DecoderStep \/ PutFail
    PROVE  LockStep'
<1> USE FbAssumption DEF TypeInv, TypeOK, LockStep, CountsReleased,
        UnitsConserved, OneRequest, InRound, Requested, Serving, One
<1> USE DEF cfgVars, drvVars, cntVars, semVars, dispVars
<1>1. CASE DecodePicture
  BY <1>1 DEF DecodePicture, DecodeStep
<1>2. CASE DecodeNoPicture
  BY <1>2 DEF DecodeNoPicture, DecodeStep
<1>3. CASE DecodeEnd
  BY <1>3 DEF DecodeEnd, DecodeStep
<1>4. CASE DecodeIncomplete
  BY <1>4 DEF DecodeIncomplete, DecodeStep
<1>5. CASE DecodeStop
  BY <1>5 DEF DecodeStop, DecodeStep
<1>6. CASE OutinfoStop
  BY <1>6 DEF OutinfoStop, OutinfoStep
<1>7. CASE OutinfoNoPicture
  BY <1>7 DEF OutinfoNoPicture, OutinfoStep
<1>8. CASE OutinfoDelay
  BY <1>8 DEF OutinfoDelay, OutinfoStep
<1>9. CASE OutinfoDisplay
  BY <1>9 DEF OutinfoDisplay, OutinfoStep, StopsHere
<1>10. CASE PutQueue
  BY <1>10 DEF PutQueue, PutStep
<1>11. CASE PutCount
  BY <1>11 DEF PutCount, PutStep
<1>12. CASE PutCheck
  BY <1>12, ThresholdIsExtFb DEF PutCheck, PutStep
<1>13. CASE PutDequeue
  BY <1>13 DEF PutDequeue, PutStep
<1>14. CASE GetWait
  BY <1>14 DEF GetWait, GetStep
<1>15. CASE GetTest
  BY <1>15 DEF GetTest, GetStep
<1>16. CASE GetPop
  BY <1>16 DEF GetPop, GetStep
<1>17. CASE GetUncount
  BY <1>17 DEF GetUncount, GetStep
<1>18. CASE AfterDisplay
  BY <1>18 DEF AfterDisplay
<1>19. CASE Close
  BY <1>19 DEF Close, CloseStep, decVars
<1>20. CASE CloseJoin
  BY <1>20 DEF CloseJoin, CloseStep, decVars
<1>21. CASE PutFail
  BY <1>21 DEF PutFail, PutStep
<1> QED
  BY <1>1, <1>2, <1>3, <1>4, <1>5, <1>6, <1>7, <1>8, <1>9, <1>10, <1>11, <1>12, <1>13, <1>14, <1>15, <1>16, <1>17, <1>18, <1>19, <1>20, <1>21 DEF DecoderStep

\* The display thread's steps keep it too.
LEMMA DisplayLockStep ==
    ASSUME TypeInv, LockStep, DisplayStep \/ DispDequeueFail
    PROVE  LockStep'
<1> USE FbAssumption DEF TypeInv, TypeOK, LockStep, CountsReleased,
        UnitsConserved, OneRequest, InRound, Requested, Serving, One
<1> USE DEF DispStep, cfgVars, decVars, cntVars, semVars
<1>1. CASE DispLoop
  BY <1>1 DEF DispLoop
<1>2. CASE DispWait
  BY <1>2 DEF DispWait
<1>3. CASE DispQuit
  BY <1>3 DEF DispQuit
<1>4. CASE DispDequeue
  BY <1>4 DEF DispDequeue
<1>5. CASE DispRelease
  BY <1>5 DEF DispRelease
<1>6. CASE DispLock
  BY <1>6 DEF DispLock
<1>7. CASE DispUnlock
  BY <1>7 DEF DispUnlock
<1>8. CASE DispPost
  BY <1>8 DEF DispPost
<1>9. CASE DispDequeueFail
  BY <1>9 DEF DispDequeueFail
<1> QED
  BY <1>1, <1>2, <1>3, <1>4, <1>5, <1>6, <1>7, <1>8, <1>9 DEF DisplayStep

\* The threads start in step: no unit is used and nothing is requested.
LEMMA InitLockStep == Init => LockStep
BY FbAssumption
   DEF Init, LockStep, CountsReleased, UnitsConserved, OneRequest, InRound,
       Requested, Serving, One, regfbcount

\* LockStep is inductive relative to TypeInv: each thread's lemma covers its
\* own steps, the environment changes nothing it speaks of but quitflag.
LEMMA NextLockStep == TypeInv /\ LockStep /\ [Next]_vars => LockStep'
<1> SUFFICES ASSUME TypeInv, LockStep, [Next]_vars PROVE LockStep'
  OBVIOUS
<1> USE DEF LockStep, CountsReleased, UnitsConserved, OneRequest, InRound,
            Requested, Serving, One
<1> USE DEF cfgVars, decVars, drvVars, cntVars, semVars, dispVars
<1>1. CASE DriverShow
  BY <1>1 DEF DriverShow
<1>2. CASE Interrupt
  BY <1>2 DEF Interrupt, TypeInv, TypeOK
<1>3. CASE UNCHANGED vars
  BY <1>3 DEF vars
<1> QED
  BY <1>1, <1>2, <1>3, DecoderLockStep, DisplayLockStep DEF Next, Finished

\* The decoder and the display thread of performance mode run in lock-step:
\* the semaphore units are conserved, dequeued_count tells the truth about
\* released_q, and there is one request at a time, for every number of
\* buffers and every interleaving.
THEOREM HandshakeInLockStep == Spec => []LockStep
<1>1. Spec => [](TypeInv /\ LockStep)
  BY InitTypes, NextTypes, InitLockStep, NextLockStep, PTL DEF Spec
<1> QED
  BY <1>1, PTL

\* v4l_get_buf never takes a buffer from an empty released_q, although it
\* tests dequeued_count without v4l_mutex.
THEOREM PopAlwaysFindsBuffer == Spec => []PopFindsBuffer
<1>1. TypeInv /\ LockStep => PopFindsBuffer
  BY DEF TypeInv, TypeOK, LockStep, CountsReleased, One, PopFindsBuffer
<1> QED
  BY <1>1, InitTypes, NextTypes, InitLockStep, NextLockStep, PTL DEF Spec

\* released_q never holds more than one buffer, so that the display thread
\* may ignore the result of queue_buf.
THEOREM ReleasedQueueFits == Spec => []ReleasedFits
<1>1. TypeInv /\ LockStep => ReleasedFits
  BY DEF TypeInv, TypeOK, LockStep, OneRequest, One, ReleasedFits
<1> QED
  BY <1>1, InitTypes, NextTypes, InitLockStep, NextLockStep, PTL DEF Spec

-----------------------------------------------------------------------------
(* Who holds a frame buffer.  The statements are about a decoder that is   *)
(* not closing and whose display thread had no failing VIDIOC_DQBUF.       *)

Working == pc \notin {"close", "join", "done"} /\ ~error_status

\* The places of a buffer on its way from v4l_put_data back to the VPU, in
\* this order: reported by the VPU, queued in the driver, in the display
\* thread's hand, in released_q, dequeued by the decoder, and remembered for
\* the delayed flag clear.
Reported  == IF pc \in {"outinfo", "put"} /\ out >= 0 THEN {out} ELSE {}
Dequeued  == IF dpc = "release" THEN {dbuf} ELSE {}
Taken     == IF pc \in {"uncount", "after"} /\ index # -1 THEN {index} ELSE {}
Delayed   == IF disp_clr_index >= 0 THEN {disp_clr_index} ELSE {}

\* How many buffers are between VIDIOC_QBUF and the decoder's hand.
Away == Len(driver) + Len(released_q) + One(dpc = "release")

\* queued_count is the length of the driver's queue but for the moments
\* between changing one and the other, and without the display thread it
\* exceeds ExtFb only while the decoder is about to dequeue.
CountsQueued ==
    /\ Len(driver) + One(dpc \in {"release", "lock"})
          = queued_count + One(pc = "count")
    /\ ~perf => queued_count <= ExtFb + One(pc \in {"check", "dqbuf"})
    /\ pc = "dqbuf" => queued_count = ExtFb + 1
    /\ Away <= ExtFb + 1
    /\ pc \in {"uncount", "after"} /\ index # -1 => Away <= ExtFb
    /\ mode = "plain" /\ pc \in {"decode", "outinfo"}
          => Away + One(disp_clr_index >= 0) <= ExtFb + 1

\* Plain mode: the display flags are set exactly for the buffers on their
\* way, each of which is in one place and there once.
PlainOwner ==
    /\ flagged = Range(driver) \cup Dequeued \cup Range(released_q) \cup Taken
                     \cup Delayed \cup Reported
    /\ IsInjective(driver)
    /\ Range(driver) \cap (Dequeued \cup Range(released_q) \cup Taken
                               \cup Delayed \cup Reported) = {}
    /\ Dequeued \cap (Range(released_q) \cup Taken \cup Delayed \cup Reported) = {}
    /\ Range(released_q) \cap (Taken \cup Delayed \cup Reported) = {}
    /\ Taken \cap Delayed = {}
    /\ Delayed \cap Reported = {}

RotBufs == regfbcount .. regfbcount + rot_buf_count - 1

\* No buffer was ever dequeued: the rotation buffers are queued in order.
WarmUp(n) ==
    /\ released_q = <<>>
    /\ rotid = regfbcount + n
    /\ \A i \in 1 .. Len(driver) : driver[i] = regfbcount + i - 1

\* Post-processing mode: the VPU's buffers are flagged for the one frame of
\* delay.
PpFlags ==
    /\ flagged = Delayed \cup (IF pc # "decode" /\ out >= 0 THEN {out} ELSE {})
    /\ pc # "decode" => disp_clr_index < 0 \/ disp_clr_index # out

\* The rotation buffers circulate; one that is queued is queued once and is
\* nowhere else.
PpPlaces ==
    /\ Range(driver) \cup Dequeued \cup Range(released_q) \cup Taken \cup {rotid}
           \subseteq RotBufs
    /\ IsInjective(driver)
    /\ Range(driver) \cap (Dequeued \cup Range(released_q) \cup Taken) = {}

\* The rotator's next target is not with the driver: it is the buffer just
\* dequeued, or during the warm-up the next one never used.
PpRound ==
    InRound =>
        /\ pc \in {"decode", "outinfo", "put"} =>
              /\ rotid \notin Range(driver)
              /\ Away < ExtFb => WarmUp(Len(driver))
        /\ pc \in {"count", "check", "get", "released"} /\ Away <= ExtFb
              => WarmUp(Len(driver) - 1)
        /\ pc = "after" /\ index = -1
              => Away <= ExtFb /\ WarmUp(Len(driver) - 1)
        /\ pc = "pop" => Away > ExtFb
        /\ pc = "uncount" => index # -1
        /\ pc \in {"uncount", "after"} /\ index # -1 => Away = ExtFb

PpOwner == PpFlags /\ PpPlaces /\ PpRound

\* Counting down from 0 goes on at the other end of the registered buffers.
Cyclic(x) == IF x < 0 THEN x + regfbcount ELSE x

\* The place of the round robin where the next picture goes.
NextPlace == IF pc \in {"decode", "outinfo", "put"} THEN rotid ELSE rotid + 1

\* The queue s holds the buffers of the round robin up to the place before n.
Segment(s, n) == \A i \in 1 .. Len(s) : s[i] = Cyclic(n - 1 - Len(s) + i)

\* MJPG mode: no flag is used; the driver holds the last buffers of the
\* round robin.
MjpgOwner == flagged = {} /\ Segment(driver, NextPlace)

OwnerInv ==
    Working => /\ CountsQueued
               /\ mode = "plain" => PlainOwner
               /\ mode = "pp" => PpOwner
               /\ mode = "mjpg" => MjpgOwner

\* The counts start at zero.
LEMMA InitCounts == Init => CountsQueued
<1> SUFFICES ASSUME Init PROVE CountsQueued
  OBVIOUS
<1>1. /\ Len(driver) = 0 /\ Len(released_q) = 0 /\ queued_count = 0
      /\ pc = "decode" /\ dpc \in {"loop", "exit"} /\ disp_clr_index = -1
      /\ perf \in BOOLEAN
  BY DEF Init
<1>2. ExtFb \in Nat
  BY FbAssumption
<1>3. Away = 0
  BY <1>1 DEF One, Away
<1>4. One(disp_clr_index >= 0) = 0
  BY <1>1 DEF One
<1>5. Len(driver) + One(dpc \in {"release", "lock"})
         = queued_count + One(pc = "count")
  BY <1>1 DEF One
<1> QED
  BY <1>1, <1>2, <1>3, <1>4, <1>5 DEF CountsQueued, One

\* The numbers the counting is about.
LEMMA CountTypes ==
    ASSUME TypeInv
    PROVE  /\ ExtFb \in Nat /\ queued_count \in Int
           /\ semDecoding \in Nat /\ semDequeue \in Nat
           /\ Len(driver) \in Nat /\ Len(released_q) \in Nat
           /\ disp_clr_index \in Int /\ index \in Int /\ out \in Int
           /\ perf \in BOOLEAN /\ quitflag \in BOOLEAN
BY FbAssumption, Counts DEF TypeInv, TypeOK

\* The same before and after a step.
LEMMA CountTypesStep ==
    ASSUME TypeInv, TypeInv'
    PROVE  /\ ExtFb \in Nat /\ queued_count \in Int /\ queued_count' \in Int
           /\ Len(driver) \in Nat /\ Len(released_q) \in Nat
           /\ Len(driver)' \in Nat /\ Len(released_q)' \in Nat
           /\ disp_clr_index \in Int /\ disp_clr_index' \in Int
           /\ index \in Int /\ index' \in Int /\ perf \in BOOLEAN
<1>1. /\ queued_count' \in Int
      /\ Len(driver)' \in Nat /\ Len(released_q)' \in Nat
  BY DEF TypeInv, TypeOK
<1>2. disp_clr_index' \in Int
  BY Counts DEF TypeInv, TypeOK
<1>3. index' \in Int
  BY Counts DEF TypeInv, TypeOK
<1> QED
  BY <1>1, <1>2, <1>3, CountTypes

\* While the decoder is in its round and has not come to v4l_get_buf, nothing
\* is with the display thread: all buffers away are in the driver's queue.
LEMMA AllWithDriver ==
    ASSUME TypeInv, LockStep, CountsQueued, InRound,
           pc \in {"decode", "outinfo", "put", "count", "check"}
    PROVE  /\ released_q = <<>>
           /\ dpc \notin {"dqbuf", "release", "lock", "unlock", "post"}
           /\ Away = Len(driver)
           /\ Len(driver) = queued_count + One(pc = "count")
           /\ pc \in {"decode", "outinfo", "put"} => Len(driver) <= ExtFb
<1>1. released_q = <<>> /\ dpc \notin {"dqbuf", "release", "lock", "unlock", "post"}
  BY DEF LockStep, OneRequest, Requested, Serving
<1>2. Away = Len(driver)
  BY <1>1, CountTypes DEF Away, One
<1>3. Len(driver) = queued_count + One(pc = "count")
  BY <1>1, CountTypes DEF CountsQueued, One
<1>4. ASSUME pc \in {"decode", "outinfo", "put"} PROVE Len(driver) <= ExtFb
  <2>1. CASE perf
    BY <1>1, <1>3, <1>4, <2>1, CountTypes DEF LockStep, UnitsConserved, One
  <2>2. CASE ~perf
    BY <1>1, <1>3, <1>4, <2>2, CountTypes DEF CountsQueued, One
  <2> QED
    BY <2>1, <2>2
<1> QED
  BY <1>1, <1>2, <1>3, <1>4

\* The decoder's steps keep the counts.
LEMMA DecoderCounts ==
    ASSUME TypeInv, TypeInv', LockStep, CountsQueued, DecoderStep \/ PutFail, Working'
    PROVE  CountsQueued'
<1> USE CountTypesStep DEF CountsQueued, Away, One, Working
<1> USE DEF cfgVars, drvVars, cntVars, semVars, dispVars
<1>1. CASE DecodePicture
  BY <1>1 DEF DecodePicture, DecodeStep
<1>2. CASE DecodeNoPicture
  BY <1>2 DEF DecodeNoPicture, DecodeStep
<1>3. CASE DecodeEnd
  BY <1>3 DEF DecodeEnd, DecodeStep
<1>4. CASE DecodeIncomplete
  BY <1>4 DEF DecodeIncomplete, DecodeStep
<1>5. CASE DecodeStop \/ OutinfoStop \/ PutFail \/ Close \/ CloseJoin
  BY <1>5 DEF DecodeStop, OutinfoStop, PutFail, Close, CloseJoin
<1>7. CASE OutinfoNoPicture
  BY <1>7 DEF OutinfoNoPicture, OutinfoStep
<1>8. CASE OutinfoDelay
  BY <1>8 DEF OutinfoDelay, OutinfoStep
<1>9. CASE OutinfoDisplay
  BY <1>9 DEF OutinfoDisplay, OutinfoStep
<1>10. CASE PutQueue
  <2>1. InRound
    BY <1>10 DEF PutQueue, InRound
  <2> QED
    BY <1>10, <2>1, AllWithDriver DEF PutQueue, PutStep
<1>11. CASE PutCount
  BY <1>11 DEF PutCount, PutStep
<1>12. CASE PutCheck
  BY <1>12, ThresholdIsExtFb DEF PutCheck, PutStep
<1>13. CASE PutDequeue
  <2>1. Len(driver)' = Len(driver) - 1
    BY <1>13 DEF PutDequeue, TypeInv, TypeOK
  <2>2. /\ pc = "dqbuf" /\ pc' = "after" /\ queued_count' = queued_count - 1
        /\ dpc' = dpc /\ released_q' = released_q /\ perf' = perf
    BY <1>13 DEF PutDequeue, PutStep
  <2>3. dpc = "exit" /\ released_q = <<>>
    BY <2>2 DEF LockStep
  <2>4. Len(driver) = ExtFb + 1 /\ queued_count = ExtFb + 1
    BY <2>2, <2>3
  <2>5. Away' = ExtFb
    BY <2>1, <2>2, <2>3, <2>4
  <2>6. Len(driver)' = ExtFb /\ queued_count' = ExtFb
    BY <2>1, <2>2, <2>4
  <2> HIDE DEF Away
  <2> QED
    BY <2>2, <2>3, <2>5, <2>6
<1>14. CASE GetWait
  BY <1>14 DEF GetWait, GetStep
<1>15. CASE GetTest
  BY <1>15 DEF GetTest, GetStep
<1>16. CASE GetPop
  BY <1>16 DEF GetPop, GetStep
<1>17. CASE GetUncount
  BY <1>17 DEF GetUncount, GetStep
<1>18. CASE AfterDisplay
  BY <1>18 DEF AfterDisplay
<1> QED
  BY <1>1, <1>2, <1>3, <1>4, <1>5, <1>7, <1>8, <1>9, <1>10, <1>11, <1>12, <1>13,
     <1>14, <1>15, <1>16, <1>17, <1>18 DEF DecoderStep

\* So do the display thread's: what it takes from the driver's queue it puts
\* into released_q.
LEMMA DisplayCounts ==
    ASSUME TypeInv, TypeInv', LockStep, CountsQueued,
           DisplayStep \/ DispDequeueFail, Working'
    PROVE  CountsQueued'
<1> USE CountTypesStep DEF CountsQueued, Away, One, Working
<1> USE DEF DispStep, cfgVars, decVars, cntVars, semVars
<1>1. CASE DispLoop
  BY <1>1 DEF DispLoop
<1>2. CASE DispWait
  BY <1>2 DEF DispWait
<1>3. CASE DispQuit
  BY <1>3 DEF DispQuit
<1>4. CASE DispDequeue
  <2>1. Len(driver)' = Len(driver) - 1
    BY <1>4 DEF DispDequeue, TypeInv, TypeOK
  <2>2. /\ dpc = "dqbuf" /\ dpc' = "release" /\ queued_count' = queued_count
        /\ pc' = pc /\ released_q' = released_q /\ perf' = perf
        /\ disp_clr_index' = disp_clr_index /\ index' = index /\ mode' = mode
    BY <1>4 DEF DispDequeue
  <2>3. Away' = Away
    BY <2>1, <2>2
  <2>4. (Len(driver) + One(dpc \in {"release", "lock"}))'
            = Len(driver) + One(dpc \in {"release", "lock"})
    BY <2>1, <2>2
  <2> HIDE DEF Away
  <2> QED
    BY <2>2, <2>3, <2>4
<1>5. CASE DispRelease
  BY <1>5 DEF DispRelease
<1>6. CASE DispLock
  <2>1. /\ dpc = "lock" /\ dpc' = "unlock" /\ queued_count' = queued_count - 1
        /\ pc' = pc /\ released_q' = released_q /\ perf' = perf
        /\ disp_clr_index' = disp_clr_index /\ index' = index /\ mode' = mode
        /\ driver' = driver
    BY <1>6 DEF DispLock
  <2>2. Away' = Away
    BY <2>1
  <2>3. perf
    BY <2>1 DEF LockStep
  <2>4. Len(driver)' = Len(driver)
    BY <2>1
  <2>5. Len(driver) + 1 = queued_count + One(pc = "count")
    BY <2>1
  <2>6. Len(driver) = queued_count - 1 + One(pc = "count")
    BY <2>5
  <2> HIDE DEF Away
  <2>7. pc # "dqbuf"
    BY <2>3 DEF LockStep
  <2> QED
    BY <2>1, <2>2, <2>3, <2>4, <2>6, <2>7
<1>7. CASE DispUnlock
  BY <1>7 DEF DispUnlock
<1>8. CASE DispPost
  BY <1>8 DEF DispPost
<1>9. CASE DispDequeueFail
  BY <1>9 DEF DispDequeueFail
<1> QED
  BY <1>1, <1>2, <1>3, <1>4, <1>5, <1>6, <1>7, <1>8, <1>9 DEF DisplayStep

\* Queueing a buffer adds it to the buffers of the queue; one that was not
\* there is there once.
LEMMA AppendRange ==
    ASSUME NEW S, NEW s \in Seq(S), NEW x \in S
    PROVE  /\ Range(Append(s, x)) = Range(s) \cup {x}
           /\ IsInjective(s) /\ x \notin Range(s) => IsInjective(Append(s, x))
<1> DEFINE t == Append(s, x)
<1>1. /\ Len(t) = Len(s) + 1 /\ Len(s) \in Nat
      /\ \A i \in 1 .. Len(s) : t[i] = s[i]
      /\ t[Len(s) + 1] = x
  OBVIOUS
<1>2. Range(t) = Range(s) \cup {x}
  <2>1. ASSUME NEW i \in 1 .. Len(t) PROVE t[i] \in Range(s) \cup {x}
    BY <1>1 DEF Range
  <2>2. ASSUME NEW i \in 1 .. Len(s) PROVE s[i] \in Range(t)
    BY <1>1 DEF Range
  <2>3. x \in Range(t)
    BY <1>1 DEF Range
  <2> QED
    BY <2>1, <2>2, <2>3 DEF Range
<1>3. ASSUME IsInjective(s), x \notin Range(s) PROVE IsInjective(t)
  BY <1>1, <1>3 DEF IsInjective, Range
<1> QED
  BY <1>2, <1>3

\* Dequeueing takes the head out of the buffers of the queue, and altogether
\* so when it was there once.
LEMMA TailRange ==
    ASSUME NEW S, NEW s \in Seq(S), Len(s) > 0
    PROVE  /\ Range(s) = {Head(s)} \cup Range(Tail(s))
           /\ Head(s) \in S
           /\ IsInjective(s) => IsInjective(Tail(s)) /\ Head(s) \notin Range(Tail(s))
<1> DEFINE t == Tail(s)
<1>1. /\ Len(t) = Len(s) - 1 /\ Len(s) \in Nat
      /\ \A i \in 1 .. Len(t) : t[i] = s[i + 1]
      /\ Head(s) = s[1]
  OBVIOUS
<1>2. Range(s) = {Head(s)} \cup Range(t)
  <2>1. ASSUME NEW i \in 1 .. Len(s) PROVE s[i] \in {Head(s)} \cup Range(t)
    <3>1. CASE i = 1
      BY <1>1, <3>1
    <3>2. CASE i # 1
      <4>1. i - 1 \in 1 .. Len(t) /\ t[i - 1] = s[i]
        BY <1>1, <3>2
      <4>2. DOMAIN t = 1 .. Len(t)
        BY <1>1
      <4> HIDE DEF t
      <4> QED
        BY <4>1, <4>2 DEF Range
    <3> QED
      BY <3>1, <3>2
  <2>2. ASSUME NEW i \in 1 .. Len(t) PROVE t[i] \in Range(s)
    <3>1. i + 1 \in 1 .. Len(s)
      BY <1>1
    <3> QED
      BY <1>1, <3>1 DEF Range
  <2>3. Head(s) \in Range(s)
    BY <1>1 DEF Range
  <2> QED
    BY <2>1, <2>2, <2>3 DEF Range
<1>3. ASSUME IsInjective(s) PROVE IsInjective(t) /\ Head(s) \notin Range(t)
  <2>1. ASSUME NEW i \in 1 .. Len(t) PROVE i + 1 \in 1 .. Len(s)
    BY <1>1
  <2>2. ASSUME NEW i \in 1 .. Len(t), NEW j \in 1 .. Len(t), t[i] = t[j]
        PROVE  i = j
    <3>1. i + 1 = j + 1
      BY <1>1, <1>3, <2>1, <2>2 DEF IsInjective
    <3> QED
      BY <3>1
  <2>3. ASSUME NEW i \in 1 .. Len(t), t[i] = Head(s) PROVE FALSE
    <3>1. 1 \in 1 .. Len(s) /\ s[i + 1] = s[1]
      BY <1>1, <2>3
    <3>2. i + 1 = 1
      BY <1>3, <2>1, <3>1 DEF IsInjective
    <3> QED
      BY <3>2
  <2> QED
    BY <2>2, <2>3 DEF IsInjective, Range
<1>4. Head(s) \in S
  BY <1>1
<1> QED
  BY <1>2, <1>3, <1>4

\* An empty queue holds no buffer.
LEMMA EmptyRange == Range(<<>>) = {} /\ IsInjective(<<>>)
BY DEF Range, IsInjective

\* A step that moves no buffer and touches no display flag.
LEMMA NothingMoves ==
    ASSUME PlainOwner, flagged' = flagged, driver' = driver,
           released_q' = released_q, Dequeued' = Dequeued, Taken' = Taken,
           Delayed' = Delayed, Reported' = Reported
    PROVE  PlainOwner'
<1>1. /\ Range(driver)' = Range(driver) /\ Range(released_q)' = Range(released_q)
      /\ IsInjective(driver)' = IsInjective(driver)
  BY DEF Range, IsInjective
<1> QED
  BY <1>1 DEF PlainOwner

\* Plain mode: every step of the decoder moves a buffer from one place to the
\* next and keeps its display flag, except the delayed flag clear.
LEMMA DecoderPlain ==
    ASSUME TypeInv, TypeInv', LockStep, PlainOwner, DecoderStep, Working',
           mode = "plain"
    PROVE  PlainOwner'
<1> USE DEF Dequeued, Taken, Delayed, Reported, Working
<1> USE DEF cfgVars, drvVars, cntVars, semVars, dispVars
<1> DEFINE D == Range(driver)
           R == Range(released_q)
<1>1. CASE DecodePicture
  <2>1. PICK i \in RegBufs \ flagged : out' = i /\ flagged' = flagged \cup {i}
    BY <1>1 DEF DecodePicture
  <2>2. i >= 0
    BY DEF RegBufs
  <2>3. /\ Reported = {} /\ Taken = {} /\ Reported' = {i} /\ Taken' = {}
        /\ Dequeued' = Dequeued /\ Delayed' = Delayed
        /\ driver' = driver /\ released_q' = released_q
    BY <1>1, <2>1, <2>2 DEF DecodePicture, DecodeStep
  <2>4. D' = D /\ R' = R /\ (IsInjective(driver) => IsInjective(driver)')
    BY <2>3 DEF Range, IsInjective
  <2> HIDE DEF Dequeued, Taken, Delayed, Reported, D, R
  <2> QED
    BY <2>1, <2>3, <2>4 DEF PlainOwner, D, R
<1>2. CASE DecodeNoPicture
  <2>1. Reported = {} /\ Reported' = {}
    BY <1>2 DEF DecodeNoPicture, DecodeStep
  <2> QED
    BY <1>2, <2>1, NothingMoves DEF DecodeNoPicture, DecodeStep
<1>3. CASE DecodeEnd
  BY <1>3, NothingMoves DEF DecodeEnd, DecodeStep
<1>4. CASE DecodeIncomplete
  BY <1>4, NothingMoves DEF DecodeIncomplete, DecodeStep
<1>5. CASE DecodeStop \/ OutinfoStop \/ Close \/ CloseJoin
  BY <1>5 DEF DecodeStop, OutinfoStop, Close, CloseJoin
<1>6. CASE OutinfoNoPicture
  <2>1. CASE perf
    BY <1>6, <2>1, NothingMoves DEF OutinfoNoPicture, OutinfoStep
  <2>2. CASE ~perf
    <3>1. /\ Reported = {} /\ Reported' = {} /\ Taken = {} /\ Taken' = {}
          /\ Dequeued' = Dequeued /\ Delayed' = {}
          /\ driver' = driver /\ released_q' = released_q
      BY <1>6, <2>2 DEF OutinfoNoPicture, OutinfoStep
    <3>2. flagged' = flagged \ Delayed
      BY <1>6, <2>2 DEF OutinfoNoPicture, ClearedFlags
    <3>3. D' = D /\ R' = R /\ (IsInjective(driver) => IsInjective(driver)')
      BY <3>1 DEF Range, IsInjective
    <3> HIDE DEF Dequeued, Taken, Delayed, Reported, D, R
    <3> QED
      BY <3>1, <3>2, <3>3 DEF PlainOwner, D, R
  <2> QED
    BY <2>1, <2>2
<1>7. CASE OutinfoDelay
  BY <1>7 DEF OutinfoDelay
<1>8. CASE OutinfoDisplay
  BY <1>8, NothingMoves DEF OutinfoDisplay, OutinfoStep
<1>9. CASE PutQueue
  <2>1. out \in RegBufs /\ out >= 0 /\ pc = "put"
    BY <1>9 DEF PutQueue, TypeInv, PutHasBuffer, RegBufs
  <2>2. /\ Reported = {out} /\ Reported' = {} /\ Taken = {} /\ Taken' = {}
        /\ Dequeued' = Dequeued /\ Delayed' = Delayed
        /\ driver' = Append(driver, out) /\ released_q' = released_q
        /\ flagged' = flagged
    BY <1>9, <2>1 DEF PutQueue, PutStep, actual_display_index
  <2>3. out \in Bufs /\ driver \in Seq(Bufs)
    BY <2>1, Counts DEF TypeInv, TypeOK
  <2>4. D' = D \cup {out} /\ R' = R
    BY <2>2, <2>3, AppendRange DEF Range
  <2>5. out \notin D /\ IsInjective(driver)
    BY <2>2 DEF PlainOwner
  <2>6. IsInjective(driver)'
    BY <2>2, <2>3, <2>5, AppendRange DEF IsInjective
  <2> HIDE DEF Dequeued, Taken, Delayed, Reported, D, R
  <2> QED
    BY <2>2, <2>4, <2>6 DEF PlainOwner, D, R
<1>10. CASE PutCount
  BY <1>10, NothingMoves DEF PutCount, PutStep
<1>11. CASE PutCheck
  BY <1>11, NothingMoves DEF PutCheck, PutStep
<1>12. CASE PutDequeue
  <2>1. Len(driver) > 0 /\ driver \in Seq(Bufs)
    BY <1>12 DEF PutDequeue, TypeInv, TypeOK
  <2>2. Head(driver) \in Bufs /\ Head(driver) # -1
    BY <2>1, TailRange, Counts
  <2>3. /\ Reported = {} /\ Reported' = {} /\ Taken = {}
        /\ Taken' = {Head(driver)}
        /\ Dequeued' = Dequeued /\ Delayed' = Delayed
        /\ driver' = Tail(driver) /\ released_q' = released_q
        /\ flagged' = flagged
    BY <1>12, <2>2 DEF PutDequeue, PutStep
  <2>4. IsInjective(driver)
    BY DEF PlainOwner
  <2>5. /\ Range(driver) = {Head(driver)} \cup Range(Tail(driver))
        /\ Head(driver) \notin Range(Tail(driver)) /\ IsInjective(Tail(driver))
    BY <2>1, <2>4, TailRange
  <2>6. /\ D' = Range(Tail(driver)) /\ R' = R
        /\ (IsInjective(Tail(driver)) => IsInjective(driver)')
    BY <2>3 DEF Range, IsInjective
  <2> HIDE DEF Dequeued, Taken, Delayed, Reported, D, R
  <2> QED
    BY <2>3, <2>5, <2>6 DEF PlainOwner, D, R
<1>13. CASE GetWait
  BY <1>13, NothingMoves DEF GetWait, GetStep
<1>14. CASE GetTest
  BY <1>14, NothingMoves DEF GetTest, GetStep
<1>15. CASE GetPop
  <2>1. CASE released_q = <<>>
    BY <1>15, <2>1, NothingMoves DEF GetPop, GetStep
  <2>2. CASE released_q # <<>>
    <3>1. Len(released_q) > 0 /\ released_q \in Seq(Bufs) /\ Tail(released_q) = <<>>
      <4>1. perf
        BY <1>15 DEF GetPop, LockStep
      <4>2. /\ released_q \in Seq(Bufs) /\ Len(released_q) \in Nat
            /\ semDequeue \in Nat
        BY DEF TypeInv, TypeOK
      <4>3. Len(released_q) <= 1
        BY <4>1, <4>2 DEF LockStep, OneRequest, One
      <4>4. Len(released_q) > 0
        BY <2>2, <4>2
      <4> QED
        BY <4>2, <4>3, <4>4
    <3>2. Head(released_q) \in Bufs /\ Head(released_q) # -1
      BY <3>1, TailRange, Counts
    <3>3. /\ Reported = {} /\ Reported' = {} /\ Taken = {}
          /\ Taken' = {Head(released_q)}
          /\ Dequeued' = Dequeued /\ Delayed' = Delayed
          /\ driver' = driver /\ released_q' = <<>>
          /\ flagged' = flagged
      BY <1>15, <2>2, <3>1, <3>2 DEF GetPop, GetStep
    <3>4. R = {Head(released_q)} /\ R' = {}
      <4>1. Range(released_q) = {Head(released_q)} \cup Range(<<>>)
        BY <3>1, TailRange
      <4>2. R' = Range(<<>>)
        BY <3>3 DEF Range
      <4> QED
        BY <4>1, <4>2, EmptyRange
    <3>5. D' = D /\ (IsInjective(driver) => IsInjective(driver)')
      BY <3>3 DEF Range, IsInjective
    <3> HIDE DEF Dequeued, Taken, Delayed, Reported, D, R
    <3> QED
      BY <3>3, <3>4, <3>5 DEF PlainOwner, D, R
  <2> QED
    BY <2>1, <2>2
<1>16. CASE GetUncount
  BY <1>16, NothingMoves DEF GetUncount, GetStep
<1>17. CASE AfterDisplay
  <2>1. index # -1 => index >= 0
    BY Counts DEF TypeInv, TypeOK
  <2>2. /\ Reported = {} /\ Reported' = {} /\ Taken' = {}
        /\ Dequeued' = Dequeued /\ Delayed' = Taken
        /\ driver' = driver /\ released_q' = released_q
        /\ flagged' = flagged \ Delayed
    BY <1>17, <2>1 DEF AfterDisplay, ClearedFlags
  <2>3. D' = D /\ R' = R /\ (IsInjective(driver) => IsInjective(driver)')
    BY <2>2 DEF Range, IsInjective
  <2> HIDE DEF Dequeued, Taken, Delayed, Reported, D, R
  <2> QED
    BY <2>2, <2>3 DEF PlainOwner, D, R
<1> QED
  BY <1>1, <1>2, <1>3, <1>4, <1>5, <1>6, <1>7, <1>8, <1>9, <1>10, <1>11, <1>12,
     <1>13, <1>14, <1>15, <1>16, <1>17 DEF DecoderStep

\* So does every step of the display thread.
LEMMA DisplayPlain ==
    ASSUME TypeInv, PlainOwner, DisplayStep, mode = "plain"
    PROVE  PlainOwner'
<1> USE DEF Dequeued, Taken, Delayed, Reported
<1> USE DEF DispStep, cfgVars, decVars, cntVars, semVars
<1> DEFINE D == Range(driver)
           R == Range(released_q)
<1>1. CASE DispLoop
  BY <1>1, NothingMoves DEF DispLoop
<1>2. CASE DispWait
  BY <1>2, NothingMoves DEF DispWait
<1>3. CASE DispQuit
  BY <1>3, NothingMoves DEF DispQuit
<1>4. CASE DispDequeue
  <2>1. Len(driver) > 0 /\ driver \in Seq(Bufs)
    BY <1>4 DEF DispDequeue, TypeInv, TypeOK
  <2>2. /\ Dequeued = {} /\ Dequeued' = {Head(driver)} /\ Taken' = Taken
        /\ Delayed' = Delayed /\ Reported' = Reported
        /\ driver' = Tail(driver) /\ released_q' = released_q
        /\ flagged' = flagged
    BY <1>4 DEF DispDequeue
  <2>3. IsInjective(driver)
    BY DEF PlainOwner
  <2>4. /\ Range(driver) = {Head(driver)} \cup Range(Tail(driver))
        /\ Head(driver) \notin Range(Tail(driver)) /\ IsInjective(Tail(driver))
    BY <2>1, <2>3, TailRange
  <2>5. /\ D' = Range(Tail(driver)) /\ R' = R
        /\ (IsInjective(Tail(driver)) => IsInjective(driver)')
    BY <2>2 DEF Range, IsInjective
  <2> HIDE DEF Dequeued, Taken, Delayed, Reported, D, R
  <2> QED
    BY <2>2, <2>4, <2>5 DEF PlainOwner, D, R
<1>5. CASE DispRelease
  <2>1. released_q \in Seq(Bufs) /\ dbuf \in Bufs
    BY DEF TypeInv, TypeOK
  <2>2. /\ Dequeued = {dbuf} /\ Dequeued' = {} /\ Taken' = Taken
        /\ Delayed' = Delayed /\ Reported' = Reported
        /\ driver' = driver /\ released_q' = Append(released_q, dbuf)
        /\ flagged' = flagged
    BY <1>5 DEF DispRelease
  <2>3. R' = R \cup {dbuf}
    BY <2>1, <2>2, AppendRange DEF Range
  <2>4. D' = D /\ (IsInjective(driver) => IsInjective(driver)')
    BY <2>2 DEF Range, IsInjective
  <2> HIDE DEF Dequeued, Taken, Delayed, Reported, D, R
  <2> QED
    BY <2>2, <2>3, <2>4 DEF PlainOwner, D, R
<1>6. CASE DispLock
  BY <1>6, NothingMoves DEF DispLock
<1>7. CASE DispUnlock
  BY <1>7, NothingMoves DEF DispUnlock
<1>8. CASE DispPost
  BY <1>8, NothingMoves DEF DispPost
<1> QED
  BY <1>1, <1>2, <1>3, <1>4, <1>5, <1>6, <1>7, <1>8 DEF DisplayStep

\* Post processing: the flags follow the picture reported and the one whose
\* flag clear is delayed.
LEMMA DecoderPpFlags ==
    ASSUME TypeInv, PpFlags, DecoderStep, Working', mode = "pp"
    PROVE  PpFlags'
<1> USE CountTypes DEF PpFlags, Delayed, Working
<1> USE DEF cfgVars, drvVars, cntVars, semVars, dispVars
<1>1. CASE DecodePicture
  <2>1. PICK i \in RegBufs \ flagged : out' = i /\ flagged' = flagged \cup {i}
    BY <1>1 DEF DecodePicture
  <2>2. i >= 0
    BY DEF RegBufs
  <2> QED
    BY <1>1, <2>1, <2>2 DEF DecodePicture, DecodeStep
<1>2. CASE DecodeNoPicture
  BY <1>2 DEF DecodeNoPicture, DecodeStep
<1>3. CASE DecodeEnd
  BY <1>3 DEF DecodeEnd, DecodeStep
<1>4. CASE DecodeIncomplete
  BY <1>4 DEF DecodeIncomplete, DecodeStep
<1>5. CASE DecodeStop \/ OutinfoStop \/ Close \/ CloseJoin
  BY <1>5 DEF DecodeStop, OutinfoStop, Close, CloseJoin
<1>6. CASE OutinfoNoPicture
  BY <1>6 DEF OutinfoNoPicture, OutinfoStep, ClearedFlags
<1>7. CASE OutinfoDelay
  BY <1>7 DEF OutinfoDelay, OutinfoStep
<1>8. CASE OutinfoDisplay
  BY <1>8 DEF OutinfoDisplay, OutinfoStep
<1>9. CASE PutQueue \/ PutCount \/ PutCheck \/ PutDequeue
  BY <1>9 DEF PutQueue, PutCount, PutCheck, PutDequeue, PutStep
<1>10. CASE GetWait \/ GetTest \/ GetPop \/ GetUncount
  BY <1>10 DEF GetWait, GetTest, GetPop, GetUncount, GetStep
<1>11. CASE AfterDisplay
  BY <1>11 DEF AfterDisplay, ClearedFlags
<1> QED
  BY <1>1, <1>2, <1>3, <1>4, <1>5, <1>6, <1>7, <1>8, <1>9, <1>10, <1>11
     DEF DecoderStep

\* A step that moves no rotation buffer.
LEMMA NothingRotates ==
    ASSUME PpPlaces, driver' = driver, released_q' = released_q,
           Dequeued' = Dequeued, Taken' = Taken, rotid' = rotid
    PROVE  PpPlaces'
<1>1. /\ Range(driver)' = Range(driver) /\ Range(released_q)' = Range(released_q)
      /\ IsInjective(driver)' = IsInjective(driver)
  BY DEF Range, IsInjective
<1>2. RotBufs' = RotBufs
  BY DEF RotBufs, regfbcount, rot_buf_count
<1> QED
  BY <1>1, <1>2 DEF PpPlaces

\* Post processing: every step of the decoder moves a rotation buffer from
\* one place to the next.
LEMMA DecoderPpPlaces ==
    ASSUME TypeInv, LockStep, CountsQueued, PpPlaces, PpRound, DecoderStep,
           Working', mode = "pp"
    PROVE  PpPlaces'
<1> USE DEF Dequeued, Taken, Working
<1> USE DEF cfgVars, drvVars, cntVars, semVars, dispVars
<1> DEFINE D == Range(driver)
           R == Range(released_q)
<1>0. RotBufs' = RotBufs
  BY DEF RotBufs, regfbcount, rot_buf_count
<1>1. CASE DecodePicture \/ DecodeNoPicture \/ DecodeEnd \/ DecodeIncomplete
  BY <1>1, NothingRotates
     DEF DecodePicture, DecodeNoPicture, DecodeEnd, DecodeIncomplete, DecodeStep
<1>2. CASE DecodeStop \/ OutinfoStop \/ Close \/ CloseJoin
  BY <1>2 DEF DecodeStop, OutinfoStop, Close, CloseJoin
<1>3. CASE OutinfoNoPicture \/ OutinfoDelay \/ OutinfoDisplay
  BY <1>3, NothingRotates
     DEF OutinfoNoPicture, OutinfoDelay, OutinfoDisplay, OutinfoStep
<1>4. CASE PutQueue
  <2>1. pc = "put" /\ InRound
    BY <1>4 DEF PutQueue, InRound
  <2>2. released_q = <<>> /\ dpc # "release"
    BY <2>1, AllWithDriver
  <2>3. rotid \notin D
    BY <2>1 DEF PpRound
  <2>4. /\ Dequeued = {} /\ Dequeued' = {} /\ Taken' = {} /\ rotid' = rotid
        /\ driver' = Append(driver, rotid) /\ released_q' = <<>>
    BY <1>4, <2>1, <2>2 DEF PutQueue, PutStep, actual_display_index
  <2>5. rotid \in Bufs /\ driver \in Seq(Bufs)
    BY DEF TypeInv, TypeOK
  <2>6. D' = D \cup {rotid}
    BY <2>4, <2>5, AppendRange DEF Range
  <2>7. IsInjective(driver)
    BY DEF PpPlaces
  <2>8. IsInjective(driver)'
    BY <2>3, <2>4, <2>5, <2>7, AppendRange DEF IsInjective
  <2>9. R' = {}
    BY <2>4, EmptyRange DEF Range
  <2> HIDE DEF Dequeued, Taken, D, R
  <2> QED
    BY <1>0, <2>4, <2>6, <2>8, <2>9 DEF PpPlaces, D, R
<1>5. CASE PutCount \/ PutCheck
  BY <1>5, NothingRotates DEF PutCount, PutCheck, PutStep
<1>6. CASE PutDequeue
  <2>1. Len(driver) > 0 /\ driver \in Seq(Bufs)
    BY <1>6 DEF PutDequeue, TypeInv, TypeOK
  <2>2. Head(driver) \in Bufs /\ Head(driver) # -1
    BY <2>1, TailRange, Counts
  <2>3. /\ Taken = {} /\ Taken' = {Head(driver)} /\ Dequeued' = Dequeued
        /\ driver' = Tail(driver) /\ released_q' = released_q
        /\ rotid' = rotid
    BY <1>6, <2>2 DEF PutDequeue, PutStep
  <2>4. IsInjective(driver)
    BY DEF PpPlaces
  <2>5. /\ Range(driver) = {Head(driver)} \cup Range(Tail(driver))
        /\ Head(driver) \notin Range(Tail(driver)) /\ IsInjective(Tail(driver))
    BY <2>1, <2>4, TailRange
  <2>6. /\ D' = Range(Tail(driver)) /\ R' = R
        /\ (IsInjective(Tail(driver)) => IsInjective(driver)')
    BY <2>3 DEF Range, IsInjective
  <2> HIDE DEF Dequeued, Taken, D, R
  <2> QED
    BY <1>0, <2>3, <2>5, <2>6 DEF PpPlaces, D, R
<1>7. CASE GetWait \/ GetTest \/ GetUncount
  BY <1>7, NothingRotates DEF GetWait, GetTest, GetUncount, GetStep
<1>8. CASE GetPop
  <2>1. CASE released_q = <<>>
    BY <1>8, <2>1, NothingRotates DEF GetPop, GetStep
  <2>2. CASE released_q # <<>>
    <3>1. Len(released_q) > 0 /\ released_q \in Seq(Bufs)
      BY <2>2 DEF TypeInv, TypeOK
    <3>2. /\ Range(released_q) = {Head(released_q)} \cup Range(Tail(released_q))
          /\ Head(released_q) \in Bufs /\ Head(released_q) # -1
      BY <3>1, TailRange, Counts
    <3>3. /\ Taken = {} /\ Taken' = {Head(released_q)} /\ Dequeued' = Dequeued
          /\ driver' = driver /\ released_q' = Tail(released_q)
          /\ rotid' = rotid
      BY <1>8, <2>2, <3>2 DEF GetPop, GetStep
    <3>4. /\ D' = D /\ R' = Range(Tail(released_q))
          /\ (IsInjective(driver) => IsInjective(driver)')
      BY <3>3 DEF Range, IsInjective
    <3> HIDE DEF Dequeued, Taken, D, R
    <3> QED
      BY <1>0, <3>2, <3>3, <3>4 DEF PpPlaces, D, R
  <2> QED
    BY <2>1, <2>2
<1>9. CASE AfterDisplay
  <2>1. rotid' \in RotBufs
    <3>1. rotid' = NextRotid /\ pc = "after"
      BY <1>9 DEF AfterDisplay
    <3>2. CASE index # -1
      BY <3>1, <3>2 DEF PpPlaces, NextRotid
    <3>3. CASE index = -1
      <4>1. ((rotid + 1 - regfbcount) % rot_buf_count) \in 0 .. rot_buf_count - 1
        BY Counts DEF TypeInv, TypeOK
      <4>2. NextRotid = ((rotid + 1 - regfbcount) % rot_buf_count) + regfbcount
        BY <3>3 DEF NextRotid, extrafb
      <4> QED
        BY <3>1, <4>1, <4>2, Counts DEF RotBufs
    <3> QED
      BY <3>2, <3>3
  <2>2. /\ Taken' = {} /\ Dequeued' = Dequeued
        /\ driver' = driver /\ released_q' = released_q
    BY <1>9 DEF AfterDisplay
  <2>3. D' = D /\ R' = R /\ (IsInjective(driver) => IsInjective(driver)')
    BY <2>2 DEF Range, IsInjective
  <2> HIDE DEF Dequeued, Taken, D, R
  <2> QED
    BY <1>0, <2>1, <2>2, <2>3 DEF PpPlaces, D, R
<1> QED
  BY <1>1, <1>2, <1>3, <1>4, <1>5, <1>6, <1>7, <1>8, <1>9 DEF DecoderStep

\* So does every step of the display thread.
LEMMA DisplayPpPlaces ==
    ASSUME TypeInv, PpPlaces, DisplayStep
    PROVE  PpPlaces'
<1> USE DEF Dequeued, Taken
<1> USE DEF DispStep, cfgVars, decVars, cntVars, semVars
<1> DEFINE D == Range(driver)
           R == Range(released_q)
<1>0. RotBufs' = RotBufs
  BY DEF RotBufs, regfbcount, rot_buf_count
<1>1. CASE DispLoop \/ DispWait \/ DispQuit
  BY <1>1, NothingRotates DEF DispLoop, DispWait, DispQuit
<1>2. CASE DispDequeue
  <2>1. Len(driver) > 0 /\ driver \in Seq(Bufs)
    BY <1>2 DEF DispDequeue, TypeInv, TypeOK
  <2>2. /\ Dequeued = {} /\ Dequeued' = {Head(driver)} /\ Taken' = Taken
        /\ driver' = Tail(driver) /\ released_q' = released_q
        /\ rotid' = rotid
    BY <1>2 DEF DispDequeue
  <2>3. IsInjective(driver)
    BY DEF PpPlaces
  <2>4. /\ Range(driver) = {Head(driver)} \cup Range(Tail(driver))
        /\ Head(driver) \notin Range(Tail(driver)) /\ IsInjective(Tail(driver))
    BY <2>1, <2>3, TailRange
  <2>5. /\ D' = Range(Tail(driver)) /\ R' = R
        /\ (IsInjective(Tail(driver)) => IsInjective(driver)')
    BY <2>2 DEF Range, IsInjective
  <2> HIDE DEF Dequeued, Taken, D, R
  <2> QED
    BY <1>0, <2>2, <2>4, <2>5 DEF PpPlaces, D, R
<1>3. CASE DispRelease
  <2>1. released_q \in Seq(Bufs) /\ dbuf \in Bufs
    BY DEF TypeInv, TypeOK
  <2>2. /\ Dequeued = {dbuf} /\ Dequeued' = {} /\ Taken' = Taken
        /\ driver' = driver /\ released_q' = Append(released_q, dbuf)
        /\ rotid' = rotid
    BY <1>3 DEF DispRelease
  <2>3. R' = R \cup {dbuf}
    BY <2>1, <2>2, AppendRange DEF Range
  <2>4. D' = D /\ (IsInjective(driver) => IsInjective(driver)')
    BY <2>2 DEF Range, IsInjective
  <2> HIDE DEF Dequeued, Taken, D, R
  <2> QED
    BY <1>0, <2>2, <2>3, <2>4 DEF PpPlaces, D, R
<1>4. CASE DispLock \/ DispUnlock \/ DispPost
  BY <1>4, NothingRotates DEF DispLock, DispUnlock, DispPost
<1> QED
  BY <1>1, <1>2, <1>3, <1>4 DEF DisplayStep

\* The round robin of NextRotid: the remainder of a number below the modulus,
\* and of the modulus itself.
LEMMA RoundRobin ==
    ASSUME NEW n \in Nat \ {0}
    PROVE  /\ \A k \in 0 .. n - 1 : k % n = k
           /\ n % n = 0
OBVIOUS

\* PpRound speaks of the driver's queue, released_q, rotid and of where the
\* decoder is.
LEMMA RoundFrame ==
    ASSUME PpRound, driver' = driver, released_q' = released_q, rotid' = rotid,
           Away' = Away, pc' = pc, index' = index, InRound' => InRound
    PROVE  PpRound'
<1>1. \A n : WarmUp(n)' = WarmUp(n)
  BY DEF WarmUp, regfbcount
<1>2. Range(driver)' = Range(driver)
  BY DEF Range
<1> QED
  BY <1>1, <1>2 DEF PpRound

\* A step of the decoder before v4l_put_data.
LEMMA RoundBeforePut ==
    ASSUME PpRound, driver' = driver, released_q' = released_q, rotid' = rotid,
           dpc' = dpc, pc \in {"decode", "outinfo"},
           pc' \in {"decode", "outinfo", "put"}, InRound' => InRound
    PROVE  PpRound'
<1>1. Away' = Away /\ Range(driver)' = Range(driver)
  BY DEF Away, One, Range
<1>2. WarmUp(Len(driver))' = WarmUp(Len(driver))
  BY DEF WarmUp, regfbcount
<1> QED
  BY <1>1, <1>2 DEF PpRound

\* A step of the decoder between VIDIOC_QBUF and the first look at
\* dequeued_count that only moves on.
LEMMA RoundInPut ==
    ASSUME PpRound, driver' = driver, released_q' = released_q, rotid' = rotid,
           dpc' = dpc, pc \in {"count", "check", "get"},
           pc' \in {"check", "get", "released"}, InRound' => InRound
    PROVE  PpRound'
<1>1. Away' = Away
  BY DEF Away, One
<1>2. WarmUp(Len(driver) - 1)' = WarmUp(Len(driver) - 1)
  BY DEF WarmUp, regfbcount
<1> QED
  BY <1>1, <1>2 DEF PpRound

\* Post processing: the decoder's steps keep the rotator's next target away
\* from the driver.
LEMMA DecoderPpRound ==
    ASSUME TypeInv, TypeInv', LockStep, CountsQueued, CountsQueued', PpPlaces,
           PpRound, DecoderStep, Working', mode = "pp"
    PROVE  PpRound'
<1> USE DEF Working
<1> USE DEF cfgVars, drvVars, cntVars, semVars, dispVars
<1>1. CASE DecodePicture \/ DecodeNoPicture \/ DecodeEnd \/ DecodeIncomplete
  BY <1>1, RoundBeforePut
     DEF DecodePicture, DecodeNoPicture, DecodeEnd, DecodeIncomplete, DecodeStep,
         InRound
<1>2. CASE DecodeStop \/ OutinfoStop \/ Close \/ CloseJoin
  BY <1>2 DEF DecodeStop, OutinfoStop, Close, CloseJoin
<1>3. CASE OutinfoNoPicture \/ OutinfoDelay \/ OutinfoDisplay
  BY <1>3, RoundBeforePut
     DEF OutinfoNoPicture, OutinfoDelay, OutinfoDisplay, OutinfoStep, StopsHere,
         InRound
<1>4. CASE PutQueue
  <2>1. pc = "put" /\ pc' = "count" /\ InRound
    BY <1>4 DEF PutQueue, InRound
  <2>2. /\ driver' = Append(driver, rotid) /\ rotid' = rotid
        /\ released_q' = released_q /\ dpc' = dpc
    BY <1>4 DEF PutQueue, PutStep, actual_display_index
  <2>3. driver \in Seq(Bufs) /\ rotid \in Bufs
    BY DEF TypeInv, TypeOK
  <2>4. Len(driver)' = Len(driver) + 1 /\ Away' = Away + 1
    BY <2>2, <2>3, CountTypes DEF Away, One
  <2>5. ASSUME Away' <= ExtFb PROVE WarmUp(Len(driver) - 1)'
    <3>1. WarmUp(Len(driver))
      <4>1. Away < ExtFb
        BY <2>4, <2>5, CountTypes DEF Away, One
      <4> QED
        BY <2>1, <4>1 DEF PpRound
    <3>2. rotid = regfbcount + Len(driver) /\ released_q = <<>>
      BY <3>1 DEF WarmUp
    <3>3. ASSUME NEW i \in 1 .. Len(driver)'
          PROVE  driver'[i] = regfbcount + i - 1
      <4>1. CASE i = Len(driver) + 1
        BY <2>2, <2>3, <3>2, <4>1, Counts
      <4>2. CASE i \in 1 .. Len(driver)
        BY <2>2, <2>3, <3>1, <4>2 DEF WarmUp
      <4> QED
        BY <2>4, <4>1, <4>2, CountTypes
    <3>4. rotid' = regfbcount + (Len(driver)' - 1)
      BY <2>2, <2>4, <3>2, CountTypes, Counts
    <3> QED
      BY <2>2, <3>2, <3>3, <3>4 DEF WarmUp, regfbcount
  <2> QED
    BY <2>1, <2>5 DEF PpRound
<1>5. CASE PutCount
  BY <1>5, RoundInPut DEF PutCount, PutStep, InRound
<1>6. CASE PutCheck
  <2>1. pc = "check" /\ InRound
    BY <1>6 DEF PutCheck, InRound
  <2>2. CASE pc' = "get"
    BY <1>6, <2>1, <2>2, RoundInPut DEF PutCheck, PutStep
  <2>3. CASE pc' = "dqbuf"
    BY <2>3 DEF PpRound
  <2>4. CASE pc' = "after"
    <3>1. /\ index' = -1 /\ queued_count <= ExtFb
          /\ driver' = driver /\ rotid' = rotid
          /\ released_q' = released_q /\ dpc' = dpc
      BY <1>6, <2>4, ThresholdIsExtFb, CountTypes DEF PutCheck, PutStep
    <3>2. Away <= ExtFb
      BY <2>1, <3>1, AllWithDriver, CountTypes DEF One
    <3>3. WarmUp(Len(driver) - 1)
      BY <2>1, <3>2 DEF PpRound
    <3>4. Away' = Away /\ WarmUp(Len(driver) - 1)' = WarmUp(Len(driver) - 1)
      BY <3>1 DEF Away, One, WarmUp, regfbcount
    <3> QED
      BY <2>4, <3>1, <3>2, <3>3, <3>4 DEF PpRound
  <2> QED
    BY <1>6, <2>2, <2>3, <2>4 DEF PutCheck
<1>7. CASE PutDequeue
  <2>1. Len(driver)' = Len(driver) - 1
    BY <1>7 DEF PutDequeue, TypeInv, TypeOK
  <2>2. /\ pc = "dqbuf" /\ pc' = "after" /\ dpc' = dpc
        /\ released_q' = released_q
    BY <1>7 DEF PutDequeue, PutStep
  <2>3. dpc = "exit" /\ released_q = <<>>
    BY <2>2 DEF LockStep
  <2>4. Len(driver) = ExtFb + 1
    BY <2>2, <2>3, CountTypes DEF CountsQueued, One
  <2>5. Away' = ExtFb
    BY <2>1, <2>2, <2>3, <2>4, CountTypes DEF Away, One
  <2>6. index' # -1
    BY <1>7, Counts DEF PutDequeue, TypeInv, TypeOK
  <2> QED
    BY <2>2, <2>5, <2>6 DEF PpRound
<1>8. CASE GetWait
  BY <1>8, RoundInPut DEF GetWait, GetStep, InRound
<1>9. CASE GetTest
  <2> SUFFICES ASSUME InRound' PROVE PpRound'
    BY DEF PpRound
  <2>1. /\ pc = "released" /\ InRound /\ perf
        /\ driver' = driver /\ released_q' = released_q /\ rotid' = rotid
        /\ dpc' = dpc
    BY <1>9 DEF GetTest, GetStep, InRound, LockStep
  <2>2. dpc \notin {"dqbuf", "release", "lock", "unlock", "post"}
    BY <2>1 DEF LockStep, OneRequest, Requested, Serving
  <2>3. Away' = Away /\ WarmUp(Len(driver) - 1)' = WarmUp(Len(driver) - 1)
    BY <2>1 DEF Away, One, WarmUp, regfbcount
  <2>4. dequeued_count = Len(released_q)
    BY <2>1, <2>2, CountTypes DEF LockStep, CountsReleased, One
  <2>5. CASE dequeued_count > 0
    <3>1. pc' = "pop"
      BY <1>9, <2>5 DEF GetTest
    <3>2. released_q # <<>>
      BY <2>4, <2>5
    <3>3. ~(Away <= ExtFb)
      BY <2>1, <3>2 DEF PpRound, WarmUp
    <3>4. Away > ExtFb
      BY <3>3, CountTypes DEF Away, One
    <3> QED
      BY <2>3, <3>1, <3>4 DEF PpRound
  <2>6. CASE ~(dequeued_count > 0)
    <3>1. pc' = "after" /\ index' = -1
      BY <1>9, <2>6 DEF GetTest
    <3>2. Len(released_q) = 0
      BY <2>4, <2>6, CountTypes
    <3>3. queued_count <= ExtFb
      BY <2>1, <2>2, CountTypes DEF LockStep, UnitsConserved, One
    <3>4. Len(driver) = queued_count
      BY <2>1, <2>2, CountTypes DEF CountsQueued, One
    <3>5. Away <= ExtFb
      BY <2>2, <3>2, <3>3, <3>4, CountTypes DEF Away, One
    <3>6. WarmUp(Len(driver) - 1)
      BY <2>1, <3>5 DEF PpRound
    <3> QED
      BY <2>3, <3>1, <3>5, <3>6 DEF PpRound
  <2> QED
    BY <2>5, <2>6
<1>10. CASE GetPop
  <2> SUFFICES ASSUME InRound' PROVE PpRound'
    BY DEF PpRound
  <2>1. pc = "pop" /\ pc' = "uncount" /\ InRound /\ driver' = driver /\ dpc' = dpc
    BY <1>10 DEF GetPop, GetStep, InRound
  <2>2. Away > ExtFb /\ Away <= ExtFb + 1
    BY <2>1 DEF PpRound, CountsQueued
  <2>3. perf
    BY <2>1 DEF LockStep
  <2>4. released_q # <<>> /\ released_q \in Seq(Bufs)
    BY <2>1, <2>3 DEF LockStep, CountsReleased, One, TypeInv, TypeOK
  <2>5. released_q' = Tail(released_q)
    BY <1>10, <2>4 DEF GetPop
  <2>6. Len(released_q)' = Len(released_q) - 1
    BY <2>4, <2>5
  <2>7. Away' = Away - 1
    BY <2>1, <2>6, CountTypes DEF Away, One
  <2>8. Away' = ExtFb
    BY <2>2, <2>7, CountTypes DEF Away, One
  <2>9. index' # -1
    <3>1. Len(released_q) > 0
      BY <2>4
    <3>2. Head(released_q) \in Bufs
      BY <2>4, <3>1, TailRange
    <3> QED
      BY <1>10, <2>4, <3>2, Counts DEF GetPop
  <2> QED
    BY <2>1, <2>8, <2>9 DEF PpRound
<1>11. CASE GetUncount
  <2> SUFFICES ASSUME InRound' PROVE PpRound'
    BY DEF PpRound
  <2>1. /\ pc = "uncount" /\ pc' = "after" /\ InRound /\ index' = index
        /\ driver' = driver /\ released_q' = released_q /\ dpc' = dpc
    BY <1>11 DEF GetUncount, GetStep, InRound
  <2>2. Away' = Away
    BY <2>1 DEF Away, One
  <2> QED
    BY <2>1, <2>2 DEF PpRound
<1>12. CASE AfterDisplay
  <2> SUFFICES ASSUME InRound' PROVE PpRound'
    BY DEF PpRound
  <2>1. /\ pc = "after" /\ pc' = "decode" /\ InRound
        /\ driver' = driver /\ released_q' = released_q /\ dpc' = dpc
        /\ rotid' = NextRotid
    BY <1>12 DEF AfterDisplay, InRound
  <2>2. Away' = Away /\ Range(driver)' = Range(driver)
    BY <2>1 DEF Away, One, Range
  <2>3. CASE index # -1
    <3>1. rotid' = index /\ Taken = {index}
      BY <2>1, <2>3 DEF NextRotid, Taken
    <3>2. Away = ExtFb
      BY <2>1, <2>3 DEF PpRound
    <3>3. index \notin Range(driver)
      BY <3>1 DEF PpPlaces
    <3>4. ~(Away' < ExtFb)
      BY <2>2, <3>2, CountTypes
    <3> QED
      BY <2>1, <2>2, <3>1, <3>3, <3>4 DEF PpRound
  <2>4. CASE index = -1
    <3>1. Away <= ExtFb /\ WarmUp(Len(driver) - 1)
      BY <2>1, <2>4 DEF PpRound
    <3>2. Len(driver) <= ExtFb /\ Len(driver) \in Nat /\ ExtFb \in Nat
      BY <3>1, CountTypes DEF Away, One
    <3>3. rotid = regfbcount + (Len(driver) - 1) /\ released_q = <<>>
      BY <3>1 DEF WarmUp
    <3>4. rotid + 1 - regfbcount = Len(driver)
      BY <3>2, <3>3, Counts
    <3>5. rot_buf_count = ExtFb + 1
      BY FbAssumption DEF rot_buf_count, regfbcount
    <3>6. Len(driver) % rot_buf_count = Len(driver)
      BY <3>2, <3>5, RoundRobin
    <3>7. rotid' = Len(driver) + regfbcount
      BY <2>1, <2>4, <3>4, <3>6 DEF NextRotid, extrafb
    <3>8. \A i \in 1 .. Len(driver) : driver[i] = regfbcount + i - 1
      BY <3>1 DEF WarmUp
    <3>9. rotid' \notin Range(driver)
      <4>1. DOMAIN driver = 1 .. Len(driver)
        BY DEF TypeInv, TypeOK
      <4>2. \A i \in DOMAIN driver : driver[i] # rotid'
        BY <3>2, <3>7, <3>8, <4>1, Counts
      <4> QED
        BY <4>2 DEF Range
    <3>10. WarmUp(Len(driver))'
      BY <2>1, <3>2, <3>3, <3>7, <3>8, Counts DEF WarmUp, regfbcount
    <3> QED
      BY <2>1, <2>2, <3>9, <3>10 DEF PpRound
  <2> QED
    BY <2>3, <2>4
<1> QED
  BY <1>1, <1>2, <1>3, <1>4, <1>5, <1>6, <1>7, <1>8, <1>9, <1>10, <1>11, <1>12
     DEF DecoderStep

\* The display thread takes a rotation buffer only after the warm-up, when
\* ExtFb + 1 buffers are away.
LEMMA DisplayPpRound ==
    ASSUME TypeInv, LockStep, CountsQueued, PpRound, DisplayStep
    PROVE  PpRound'
<1> USE DEF DispStep, cfgVars, decVars, cntVars, semVars
<1>1. CASE DispLoop \/ DispWait \/ DispQuit \/ DispLock \/ DispUnlock \/ DispPost
  <2>1. Away' = Away
    BY <1>1 DEF DispLoop, DispWait, DispQuit, DispLock, DispUnlock, DispPost,
                Away, One
  <2> QED
    BY <1>1, <2>1, RoundFrame
       DEF DispLoop, DispWait, DispQuit, DispLock, DispUnlock, DispPost, InRound
<1>2. CASE DispDequeue \/ DispRelease
  <2> SUFFICES ASSUME InRound' PROVE PpRound'
    BY DEF PpRound
  <2>1. dpc \in {"dqbuf", "release"} /\ InRound /\ pc' = pc
    BY <1>2 DEF DispDequeue, DispRelease, InRound
  <2>2. perf /\ pc = "get" /\ semDecoding = 0
    BY <2>1 DEF LockStep, OneRequest, Requested, Serving
  <2>3. queued_count = ExtFb + 1
    BY <2>1, <2>2, CountTypes DEF LockStep, UnitsConserved, One
  <2>4. Len(driver) + One(dpc = "release") = ExtFb + 1
    BY <2>1, <2>2, <2>3, CountTypes DEF CountsQueued, One
  <2>5. Away' \in Nat /\ Away' > ExtFb
    <3>1. CASE DispDequeue
      <4>1. Len(driver)' = Len(driver) - 1
        BY <3>1 DEF DispDequeue, TypeInv, TypeOK
      <4>2. dpc = "dqbuf" /\ dpc' = "release" /\ released_q' = released_q
        BY <3>1 DEF DispDequeue
      <4>3. Len(driver) = ExtFb + 1
        BY <2>4, <4>2, CountTypes DEF One
      <4> QED
        BY <4>1, <4>2, <4>3, CountTypes DEF Away, One
    <3>2. CASE DispRelease
      <4>1. Len(released_q)' = Len(released_q) + 1
        BY <3>2 DEF DispRelease, TypeInv, TypeOK
      <4>2. dpc = "release" /\ dpc' = "lock" /\ driver' = driver
        BY <3>2 DEF DispRelease
      <4>3. Len(driver) = ExtFb
        BY <2>4, <4>2, CountTypes DEF One
      <4> QED
        BY <4>1, <4>2, <4>3, CountTypes DEF Away, One
    <3> QED
      BY <1>2, <3>1, <3>2
  <2>6. ~(Away' <= ExtFb)
    BY <2>5, CountTypes
  <2> QED
    BY <2>1, <2>2, <2>6 DEF PpRound
<1> QED
  BY <1>1, <1>2 DEF DisplayStep

\* The next buffer of the round robin goes to the end of the queue.
LEMMA SegmentAppend ==
    ASSUME NEW s \in Seq(Bufs), NEW n \in Bufs, Segment(s, n)
    PROVE  Segment(Append(s, n), n + 1)
<1> DEFINE t == Append(s, n)
<1>1. /\ Len(s) \in Nat /\ n \in Nat
      /\ Len(t) = Len(s) + 1 /\ t[Len(s) + 1] = n
      /\ \A i \in 1 .. Len(s) : t[i] = s[i]
  BY Counts
<1> HIDE DEF t
<1>2. ASSUME NEW i \in 1 .. Len(t) PROVE t[i] = Cyclic((n + 1) - 1 - Len(t) + i)
  <2>1. CASE i \in 1 .. Len(s)
    <3>1. s[i] = Cyclic(n - 1 - Len(s) + i)
      BY <2>1 DEF Segment
    <3>2. (n + 1) - 1 - Len(t) + i = n - 1 - Len(s) + i
      BY <1>1, <2>1
    <3> QED
      BY <1>1, <2>1, <3>1, <3>2
  <2>2. CASE i = Len(s) + 1
    <3>1. (n + 1) - 1 - Len(t) + i = n
      BY <1>1, <2>2
    <3>2. Cyclic(n) = n
      BY <1>1 DEF Cyclic
    <3> QED
      BY <1>1, <2>2, <3>1, <3>2
  <2> QED
    BY <1>1, <2>1, <2>2
<1>3. Segment(t, n + 1)
  BY <1>2 DEF Segment
<1> QED
  BY <1>3 DEF t

\* Taking the oldest buffer leaves a shorter segment.
LEMMA SegmentTail ==
    ASSUME NEW s \in Seq(Bufs), NEW n \in Int, Segment(s, n), Len(s) > 0
    PROVE  Segment(Tail(s), n)
<1> DEFINE t == Tail(s)
<1>1. /\ Len(s) \in Nat /\ Len(t) = Len(s) - 1
      /\ \A i \in 1 .. Len(t) : t[i] = s[i + 1]
  OBVIOUS
<1> HIDE DEF t
<1>2. ASSUME NEW i \in 1 .. Len(t) PROVE t[i] = Cyclic(n - 1 - Len(t) + i)
  <2>1. i + 1 \in 1 .. Len(s)
    BY <1>1
  <2>2. s[i + 1] = Cyclic(n - 1 - Len(s) + (i + 1))
    BY <2>1 DEF Segment
  <2>3. n - 1 - Len(s) + (i + 1) = n - 1 - Len(t) + i
    BY <1>1
  <2> QED
    BY <1>1, <2>2, <2>3
<1> QED
  BY <1>2 DEF Segment, t

\* The place behind the last buffer is the place of the first.
LEMMA SegmentWrap ==
    ASSUME NEW s \in Seq(Bufs), Segment(s, regfbcount), Len(s) <= regfbcount
    PROVE  Segment(s, 0)
<1>1. Len(s) \in Nat /\ regfbcount \in Nat
  BY Counts
<1>2. ASSUME NEW i \in 1 .. Len(s) PROVE s[i] = Cyclic(0 - 1 - Len(s) + i)
  <2>1. s[i] = Cyclic(regfbcount - 1 - Len(s) + i)
    BY DEF Segment
  <2>2. Cyclic(regfbcount - 1 - Len(s) + i) = regfbcount - 1 - Len(s) + i
    BY <1>1 DEF Cyclic
  <2>3. Cyclic(0 - 1 - Len(s) + i) = 0 - 1 - Len(s) + i + regfbcount
    BY <1>1 DEF Cyclic
  <2>4. regfbcount - 1 - Len(s) + i = 0 - 1 - Len(s) + i + regfbcount
    BY <1>1
  <2> QED
    BY <2>1, <2>2, <2>3, <2>4
<1> QED
  BY <1>2 DEF Segment

\* A segment of the round robin holds no buffer twice, nor the next one.
LEMMA SegmentNext ==
    ASSUME NEW s \in Seq(Bufs), NEW n \in RegBufs, Segment(s, n),
           Len(s) < regfbcount
    PROVE  n \notin Range(s)
<1>1. Len(s) \in Nat /\ regfbcount \in Nat /\ n \in 0 .. regfbcount - 1
  BY Counts DEF RegBufs
<1>2. ASSUME NEW i \in 1 .. Len(s) PROVE s[i] # n
  <2>1. s[i] = Cyclic(n - 1 - Len(s) + i)
    BY DEF Segment
  <2>2. CASE n - 1 - Len(s) + i < 0
    <3>1. s[i] = n - 1 - Len(s) + i + regfbcount
      BY <2>1, <2>2 DEF Cyclic
    <3> QED
      BY <1>1, <3>1
  <2>3. CASE ~(n - 1 - Len(s) + i < 0)
    <3>1. s[i] = n - 1 - Len(s) + i
      BY <2>1, <2>3 DEF Cyclic
    <3> QED
      BY <1>1, <3>1
  <2> QED
    BY <2>2, <2>3
<1> QED
  BY <1>2 DEF Range

\* MjpgOwner after a step, from the queue and the place after it.
LEMMA SegmentStep ==
    ASSUME flagged' = {}, Segment(driver', NextPlace')
    PROVE  MjpgOwner'
BY DEF MjpgOwner, Segment, Cyclic, regfbcount

\* A step that leaves the driver's queue and the round robin alone.
LEMMA NoTurn ==
    ASSUME MjpgOwner, flagged' = flagged, driver' = driver,
           NextPlace' = NextPlace
    PROVE  MjpgOwner'
BY SegmentStep DEF MjpgOwner

\* Taking the oldest buffer from the driver's queue.
LEMMA TakeOldest ==
    ASSUME TypeInv, MjpgOwner, Len(driver) > 0, flagged' = flagged,
           driver' = Tail(driver), NextPlace' = NextPlace
    PROVE  MjpgOwner'
<1>1. driver \in Seq(Bufs) /\ NextPlace \in Int
  BY Counts DEF TypeInv, TypeOK, NextPlace
<1>2. Segment(Tail(driver), NextPlace)
  BY <1>1, SegmentTail DEF MjpgOwner
<1> QED
  BY <1>2, SegmentStep DEF MjpgOwner

\* MJPG: the decoder's steps keep the driver's queue a segment of the round
\* robin, also where it goes from the last buffer to the first.
LEMMA DecoderMjpg ==
    ASSUME TypeInv, CountsQueued, MjpgOwner, DecoderStep, Working',
           mode = "mjpg"
    PROVE  MjpgOwner'
<1> USE DEF Working
<1> USE DEF cfgVars, drvVars, cntVars, semVars, dispVars
<1>1. CASE DecodePicture \/ DecodeNoPicture \/ DecodeEnd \/ DecodeIncomplete
  BY <1>1, NoTurn
     DEF DecodePicture, DecodeNoPicture, DecodeEnd, DecodeIncomplete, DecodeStep,
         NextPlace
<1>2. CASE DecodeStop \/ OutinfoStop \/ Close \/ CloseJoin
  BY <1>2 DEF DecodeStop, OutinfoStop, Close, CloseJoin
<1>3. CASE OutinfoNoPicture \/ OutinfoDelay \/ OutinfoDisplay
  BY <1>3, NoTurn
     DEF OutinfoNoPicture, OutinfoDelay, OutinfoDisplay, OutinfoStep,
         ClearedFlags, NextPlace
<1>4. CASE PutQueue
  <2>1. /\ driver' = Append(driver, rotid) /\ NextPlace = rotid
        /\ NextPlace' = rotid + 1 /\ flagged' = flagged
    BY <1>4 DEF PutQueue, PutStep, actual_display_index, NextPlace
  <2>2. driver \in Seq(Bufs) /\ rotid \in Bufs
    BY DEF TypeInv, TypeOK
  <2>3. Segment(Append(driver, rotid), rotid + 1)
    BY <2>1, <2>2, SegmentAppend DEF MjpgOwner
  <2> QED
    BY <2>1, <2>3, SegmentStep DEF MjpgOwner
<1>5. CASE PutCount \/ PutCheck
  BY <1>5, NoTurn DEF PutCount, PutCheck, PutStep, NextPlace
<1>6. CASE PutDequeue
  <2>1. Len(driver) > 0
    BY <1>6 DEF PutDequeue, TypeInv, TypeOK
  <2> QED
    BY <1>6, <2>1, TakeOldest DEF PutDequeue, PutStep, NextPlace
<1>7. CASE GetWait \/ GetTest \/ GetPop \/ GetUncount
  BY <1>7, NoTurn DEF GetWait, GetTest, GetPop, GetUncount, GetStep, NextPlace
<1>8. CASE AfterDisplay
  <2>1. /\ driver' = driver /\ flagged' = flagged /\ NextPlace = rotid + 1
        /\ rotid' = (rotid + 1) % regfbcount /\ NextPlace' = rotid'
    BY <1>8 DEF AfterDisplay, ClearedFlags, NextRotid, NextPlace
  <2>2. rotid \in 0 .. regfbcount - 1 /\ regfbcount \in Nat \ {0}
    BY Counts DEF TypeInv, RotidInRange, RegBufs
  <2>3. CASE rotid + 1 < regfbcount
    <3>1. rotid' = rotid + 1
      BY <2>1, <2>2, <2>3, RoundRobin
    <3> QED
      BY <2>1, <3>1, NoTurn
  <2>4. CASE ~(rotid + 1 < regfbcount)
    <3>1. rotid + 1 = regfbcount /\ rotid' = 0
      BY <2>1, <2>2, <2>4, RoundRobin
    <3>2. Len(driver) <= regfbcount /\ Len(driver) \in Nat
      BY CountTypes, FbAssumption DEF CountsQueued, Away, One, regfbcount
    <3>3. driver \in Seq(Bufs)
      BY DEF TypeInv, TypeOK
    <3>4. Segment(driver, 0)
      BY <2>1, <3>1, <3>2, <3>3, SegmentWrap DEF MjpgOwner
    <3> QED
      BY <2>1, <3>1, <3>4, SegmentStep DEF MjpgOwner
  <2> QED
    BY <2>3, <2>4
<1> QED
  BY <1>1, <1>2, <1>3, <1>4, <1>5, <1>6, <1>7, <1>8 DEF DecoderStep

\* So do the display thread's.
LEMMA DisplayMjpg ==
    ASSUME TypeInv, MjpgOwner, DisplayStep
    PROVE  MjpgOwner'
<1> USE DEF DispStep, cfgVars, decVars, cntVars, semVars, NextPlace
<1>1. CASE DispLoop \/ DispWait \/ DispQuit \/ DispRelease
  BY <1>1, NoTurn DEF DispLoop, DispWait, DispQuit, DispRelease
<1>2. CASE DispLock \/ DispUnlock \/ DispPost
  BY <1>2, NoTurn DEF DispLock, DispUnlock, DispPost
<1>3. CASE DispDequeue
  <2>1. Len(driver) > 0
    BY <1>3 DEF DispDequeue, TypeInv, TypeOK
  <2> QED
    BY <1>3, <2>1, TakeOldest DEF DispDequeue
<1> QED
  BY <1>1, <1>2, <1>3 DEF DisplayStep

\* At the start no buffer is anywhere but with the VPU and the rotator.
LEMMA InitOwner == Init => OwnerInv
<1> SUFFICES ASSUME Init PROVE OwnerInv
  OBVIOUS
<1>1. CountsQueued
  BY InitCounts
<1>2. /\ Len(driver) = 0 /\ driver = <<>> /\ released_q = <<>> /\ flagged = {}
      /\ pc = "decode" /\ dpc # "release" /\ disp_clr_index = -1
      /\ (mode = "pp" => rotid = regfbcount)
  BY DEF Init
<1>3. /\ Range(driver) = {} /\ Range(released_q) = {} /\ IsInjective(driver)
      /\ Dequeued = {} /\ Taken = {} /\ Delayed = {} /\ Reported = {}
  BY <1>2, EmptyRange DEF Dequeued, Taken, Delayed, Reported
<1>4. PlainOwner
  BY <1>2, <1>3 DEF PlainOwner
<1>5. ASSUME mode = "pp" PROVE PpOwner
  <2>1. PpFlags
    BY <1>2, <1>3 DEF PpFlags
  <2>2. PpPlaces
    BY <1>2, <1>3, <1>5, Counts DEF PpPlaces, RotBufs
  <2>3. WarmUp(Len(driver))
    BY <1>2, <1>5, Counts DEF WarmUp
  <2>4. PpRound
    BY <1>2, <1>3, <2>3 DEF PpRound
  <2> QED
    BY <2>1, <2>2, <2>4 DEF PpOwner
<1>6. MjpgOwner
  BY <1>2 DEF MjpgOwner, Segment
<1> QED
  BY <1>1, <1>4, <1>5, <1>6 DEF OwnerInv

\* The environment, and stuttering, move no buffer.
LEMMA EnvironmentOwner ==
    ASSUME TypeInv, CountsQueued,
           mode = "plain" => PlainOwner, mode = "pp" => PpOwner,
           mode = "mjpg" => MjpgOwner,
           DriverShow \/ Interrupt \/ UNCHANGED vars
    PROVE  OwnerInv'
<1>1. /\ mode' = mode /\ perf' = perf /\ pc' = pc /\ out' = out
      /\ disp_clr_index' = disp_clr_index /\ rotid' = rotid /\ index' = index
      /\ flagged' = flagged /\ driver' = driver /\ released_q' = released_q
      /\ queued_count' = queued_count /\ dpc' = dpc /\ dbuf' = dbuf
      /\ (quitflag' = quitflag \/ quitflag' = TRUE)
  BY DEF DriverShow, Interrupt, vars, cfgVars, decVars, drvVars, cntVars, dispVars
<1>2. /\ Dequeued' = Dequeued /\ Taken' = Taken /\ Delayed' = Delayed
      /\ Reported' = Reported /\ Away' = Away /\ NextPlace' = NextPlace
      /\ (InRound' => InRound)
  BY <1>1, CountTypes
     DEF Dequeued, Taken, Delayed, Reported, Away, One, NextPlace, InRound
<1>3. CountsQueued'
  BY <1>1, <1>2 DEF CountsQueued, One
<1>4. mode = "plain" => PlainOwner'
  BY <1>1, <1>2, NothingMoves
<1>5. mode = "pp" => PpOwner'
  BY <1>1, <1>2, NothingRotates, RoundFrame DEF PpOwner, PpFlags
<1>6. mode = "mjpg" => MjpgOwner'
  BY <1>1, <1>2, NoTurn
<1> QED
  BY <1>1, <1>3, <1>4, <1>5, <1>6 DEF OwnerInv

\* A decoder that closes does not work again, nor one whose display thread
\* failed.
LEMMA WorkingBefore == ASSUME [Next]_vars, Working' PROVE Working
<1> USE DEF Working
<1> USE DEF cfgVars, decVars, drvVars, cntVars, semVars, dispVars
<1>1. CASE DecoderStep \/ PutFail
  BY <1>1
     DEF DecoderStep, DecodePicture, DecodeNoPicture, DecodeEnd, DecodeIncomplete,
         DecodeStop, DecodeStep, OutinfoStop, OutinfoNoPicture, OutinfoDelay,
         OutinfoDisplay, OutinfoStep, PutQueue, PutCount, PutCheck, PutDequeue,
         PutFail, PutStep, GetWait, GetTest, GetPop, GetUncount, GetStep,
         AfterDisplay, Close, CloseJoin, CloseStep
<1>2. CASE DisplayStep \/ DispDequeueFail
  BY <1>2
     DEF DisplayStep, DispLoop, DispWait, DispQuit, DispDequeue, DispRelease,
         DispLock, DispUnlock, DispPost, DispDequeueFail, DispStep
<1>3. CASE DriverShow \/ Interrupt \/ UNCHANGED vars
  BY <1>3 DEF DriverShow, Interrupt, vars
<1> QED
  BY <1>1, <1>2, <1>3 DEF Next, Finished

\* OwnerInv is inductive relative to TypeInv and LockStep: in each mode the
\* two threads' lemmas cover their own steps.
LEMMA NextOwner ==
    TypeInv /\ LockStep /\ OwnerInv /\ [Next]_vars => OwnerInv'
<1> SUFFICES ASSUME TypeInv, LockStep, OwnerInv, [Next]_vars, Working'
             PROVE  OwnerInv'
  BY DEF OwnerInv
<1>1. TypeInv' /\ Working
  BY NextTypes, WorkingBefore
<1>2. /\ CountsQueued
      /\ mode = "plain" => PlainOwner
      /\ mode = "pp" => PpOwner
      /\ mode = "mjpg" => MjpgOwner
  BY <1>1 DEF OwnerInv
<1>3. CASE DecoderStep
  <2>1. mode' = mode
    BY <1>3
       DEF DecoderStep, DecodePicture, DecodeNoPicture, DecodeEnd,
           DecodeIncomplete, DecodeStop, DecodeStep, OutinfoStop,
           OutinfoNoPicture, OutinfoDelay, OutinfoDisplay, OutinfoStep, PutQueue,
           PutCount, PutCheck, PutDequeue, PutStep, GetWait, GetTest, GetPop,
           GetUncount, GetStep, AfterDisplay, Close, CloseJoin, CloseStep, cfgVars
  <2>2. CountsQueued'
    BY <1>1, <1>2, <1>3, DecoderCounts
  <2>3. mode = "plain" => PlainOwner'
    BY <1>1, <1>2, <1>3, DecoderPlain
  <2>4. mode = "pp" => PpOwner'
    BY <1>1, <1>2, <1>3, <2>2, DecoderPpFlags, DecoderPpPlaces, DecoderPpRound
       DEF PpOwner
  <2>5. mode = "mjpg" => MjpgOwner'
    BY <1>1, <1>2, <1>3, DecoderMjpg
  <2> QED
    BY <2>1, <2>2, <2>3, <2>4, <2>5 DEF OwnerInv
<1>4. CASE DisplayStep
  <2>1. /\ mode' = mode /\ pc' = pc /\ out' = out /\ flagged' = flagged
        /\ disp_clr_index' = disp_clr_index
    BY <1>4
       DEF DisplayStep, DispLoop, DispWait, DispQuit, DispDequeue, DispRelease,
           DispLock, DispUnlock, DispPost, DispStep, cfgVars, decVars
  <2>2. CountsQueued'
    BY <1>1, <1>2, <1>4, DisplayCounts
  <2>3. mode = "plain" => PlainOwner'
    BY <1>2, <1>4, DisplayPlain
  <2>4. PpFlags => PpFlags'
    BY <2>1 DEF PpFlags, Delayed
  <2>5. mode = "pp" => PpOwner'
    BY <1>2, <1>4, <2>4, DisplayPpPlaces, DisplayPpRound DEF PpOwner
  <2>6. mode = "mjpg" => MjpgOwner'
    BY <1>2, <1>4, DisplayMjpg
  <2> QED
    BY <2>1, <2>2, <2>3, <2>5, <2>6 DEF OwnerInv
<1>5. CASE PutFail \/ DispDequeueFail
  BY <1>5 DEF PutFail, DispDequeueFail, Working
<1>6. CASE DriverShow \/ Interrupt \/ UNCHANGED vars
  BY <1>2, <1>6, EnvironmentOwner
<1> QED
  BY <1>3, <1>4, <1>5, <1>6 DEF Next, Finished

\* The three invariants together.
LEMMA OwnerInvariant == Spec => [](TypeInv /\ LockStep /\ OwnerInv)
BY InitTypes, NextTypes, InitLockStep, NextLockStep, InitOwner, NextOwner, PTL
   DEF Spec

\* While the decoder is at work and was not told to quit, the buffer the next
\* picture goes to is not with the driver.
LEMMA NextTargetFree ==
    ASSUME TypeInv, LockStep, OwnerInv, InRound, ~error_status,
           pc \in {"decode", "put"}, mode # "plain"
    PROVE  rotid \notin Range(driver)
<1>1. Working
  BY DEF Working
<1>2. CASE mode = "pp"
  BY <1>1, <1>2 DEF OwnerInv, PpOwner, PpRound
<1>3. CASE mode = "mjpg"
  <2>1. CountsQueued /\ Segment(driver, NextPlace) /\ NextPlace = rotid
    BY <1>1, <1>3 DEF OwnerInv, MjpgOwner, NextPlace
  <2>2. Len(driver) <= ExtFb
    BY <2>1, AllWithDriver
  <2>3. Len(driver) < regfbcount
    BY <2>2, CountTypes, FbAssumption DEF regfbcount
  <2>4. driver \in Seq(Bufs) /\ rotid \in RegBufs
    BY <1>3 DEF TypeInv, TypeOK, RotidInRange
  <2> QED
    BY <2>1, <2>3, <2>4, SegmentNext
<1> QED
  BY <1>2, <1>3 DEF TypeInv, TypeOK

\* v4l_put_data never queues a buffer the driver still holds, in any mode,
\* for every number of buffers and every interleaving with the display
\* thread.
THEOREM DriverHoldsOnce == Spec => []NeverQueuedTwice
<1>1. TypeInv /\ LockStep /\ OwnerInv => NeverQueuedTwice
  <2> SUFFICES ASSUME TypeInv, LockStep, OwnerInv, pc = "put", ~error_status
               PROVE  actual_display_index \notin Range(driver)
    BY DEF NeverQueuedTwice
  <2>1. Working /\ InRound
    BY DEF Working, InRound
  <2>2. CASE mode = "plain"
    <3>1. PlainOwner /\ actual_display_index = out
      BY <2>1, <2>2 DEF OwnerInv, actual_display_index
    <3>2. out >= 0
      BY <2>2 DEF TypeInv, PutHasBuffer, RegBufs
    <3>3. Reported = {out}
      BY <3>2 DEF Reported
    <3> QED
      BY <3>1, <3>3 DEF PlainOwner
  <2>3. CASE mode # "plain"
    BY <2>1, <2>3, NextTargetFree DEF actual_display_index
  <2> QED
    BY <2>2, <2>3
<1> QED
  BY <1>1, OwnerInvariant, PTL

\* While the VPU decodes, what the driver shows or is about to show is safe:
\* in plain mode every such buffer is flagged, in the others the rotator's
\* target is another one.
THEOREM ShownIsProtected == Spec => []NoOverwriteOnDisplay
<1>1. TypeInv /\ LockStep /\ OwnerInv => NoOverwriteOnDisplay
  <2> SUFFICES ASSUME TypeInv, LockStep, OwnerInv, pc = "decode", ~error_status
               PROVE  IF mode = "plain"
                      THEN Range(driver) \subseteq flagged
                      ELSE quitflag \/ rotid \notin Range(driver)
    BY DEF NoOverwriteOnDisplay
  <2>1. Working
    BY DEF Working
  <2>2. CASE mode = "plain"
    <3>1. Range(driver) \subseteq flagged
      BY <2>1, <2>2 DEF OwnerInv, PlainOwner
    <3> QED
      BY <2>2, <3>1
  <2>3. CASE mode # "plain" /\ ~quitflag
    <3>1. InRound
      BY <2>3 DEF InRound
    <3> QED
      BY <2>3, <3>1, NextTargetFree
  <2> QED
    BY <2>2, <2>3
<1> QED
  BY <1>1, OwnerInvariant, PTL

\* Every buffer whose display flag is set is on its way to the delayed flag
\* clear, so none is lost to the VPU.
THEOREM FlagsAccountedFor == Spec => []NoBufferLost
<1>1. TypeInv /\ OwnerInv => NoBufferLost
  <2> SUFFICES ASSUME TypeInv, OwnerInv, Working
               PROVE  flagged \subseteq Range(driver) \cup Range(released_q)
                                 \cup InHand \cup {disp_clr_index}
    BY DEF NoBufferLost, Working
  <2>1. /\ Dequeued \subseteq InHand /\ Taken \subseteq InHand
        /\ Reported \subseteq InHand /\ Delayed \subseteq {disp_clr_index}
        /\ (pc # "decode" => out \in InHand)
    BY DEF Dequeued, Taken, Reported, Delayed, InHand, Working
  <2>2. CASE mode = "plain"
    BY <2>1, <2>2 DEF OwnerInv, PlainOwner
  <2>3. CASE mode = "pp"
    BY <2>1, <2>3 DEF OwnerInv, PpOwner, PpFlags
  <2>4. CASE mode = "mjpg"
    BY <2>4 DEF OwnerInv, MjpgOwner
  <2> QED
    BY <2>2, <2>3, <2>4 DEF TypeInv, TypeOK
<1> QED
  BY <1>1, OwnerInvariant, PTL

\* A queue holds at most as many buffers as it is long.
LEMMA RangeCardinality ==
    ASSUME NEW S, NEW s \in Seq(S)
    PROVE  /\ IsFiniteSet(Range(s)) /\ Cardinality(Range(s)) \in Nat
           /\ Cardinality(Range(s)) <= Len(s)
<1>1. Len(s) \in Nat /\ DOMAIN s = 1 .. Len(s)
  OBVIOUS
<1>2. s \in [1 .. Len(s) -> Range(s)]
  BY <1>1 DEF Range
<1>3. s \in Surjection(1 .. Len(s), Range(s))
  BY <1>1, <1>2 DEF Range, Surjection
<1>4. ExistsSurjection(1 .. Len(s), Range(s))
  BY <1>3 DEF ExistsSurjection
<1>5. IsFiniteSet(Range(s))
  BY <1>1, <1>4, FS_NatSurjection
<1>6. Cardinality(Range(s)) <= Len(s)
  BY <1>1, <1>4, FS_SurjCardinalityBound
<1> QED
  BY <1>5, <1>6, FS_CardinalityType

\* The cardinality of a union of two finite sets is at most the sum.
LEMMA UnionBound ==
    ASSUME NEW S, NEW T, NEW m \in Nat, NEW n \in Nat,
           IsFiniteSet(S), IsFiniteSet(T),
           Cardinality(S) <= m, Cardinality(T) <= n
    PROVE  IsFiniteSet(S \cup T) /\ Cardinality(S \cup T) <= m + n
<1>1. IsFiniteSet(S \cap T)
  BY FS_Subset
<1>2. /\ Cardinality(S) \in Nat /\ Cardinality(T) \in Nat
      /\ Cardinality(S \cap T) \in Nat
  BY <1>1, FS_CardinalityType
<1>3. /\ IsFiniteSet(S \cup T)
      /\ Cardinality(S \cup T)
            = Cardinality(S) + Cardinality(T) - Cardinality(S \cap T)
  BY FS_Union
<1> QED
  BY <1>2, <1>3

\* At most ExtFb + 1 buffers are flagged while the VPU decodes, which leaves
\* it MinFb - 1: one less than the comment in decoder_parse promises it.
THEOREM BudgetKept == Spec => []VpuBufferBudget
<1>1. TypeInv /\ LockStep /\ OwnerInv => VpuBufferBudget
  <2> SUFFICES ASSUME TypeInv, OwnerInv, pc = "decode", ~error_status
               PROVE  Cardinality(flagged) <= ExtFb + 1
    BY DEF VpuBufferBudget
  <2>1. Working /\ ExtFb \in Nat
    BY FbAssumption DEF Working
  <2>2. /\ IsFiniteSet(Delayed) /\ Cardinality(Delayed) = One(disp_clr_index >= 0)
        /\ IsFiniteSet(Dequeued) /\ Cardinality(Dequeued) = One(dpc = "release")
    BY FS_EmptySet, FS_Singleton DEF Delayed, Dequeued, One
  <2>3. One(disp_clr_index >= 0) \in 0 .. 1 /\ One(dpc = "release") \in 0 .. 1
    BY DEF One
  <2>4. CASE mode = "plain"
    <3>1. /\ CountsQueued
          /\ flagged = Range(driver) \cup Dequeued \cup Range(released_q)
                           \cup Delayed
      BY <2>1, <2>4 DEF OwnerInv, PlainOwner, Taken, Reported
    <3>2. /\ driver \in Seq(Bufs) /\ released_q \in Seq(Bufs)
          /\ Len(driver) \in Nat /\ Len(released_q) \in Nat
      BY DEF TypeInv, TypeOK
    <3>3. /\ IsFiniteSet(Range(driver)) /\ Cardinality(Range(driver)) <= Len(driver)
          /\ IsFiniteSet(Range(released_q))
          /\ Cardinality(Range(released_q)) <= Len(released_q)
      BY <3>2, RangeCardinality
    <3> DEFINE m == Len(driver)
               n == Len(released_q)
               r == One(dpc = "release")
               d == One(disp_clr_index >= 0)
    <3>4. /\ m \in Nat /\ n \in Nat /\ r \in Nat /\ d \in Nat
          /\ m + r \in Nat /\ m + r + n \in Nat
          /\ Cardinality(Dequeued) <= r /\ Cardinality(Delayed) <= d
      BY <2>2, <2>3, <3>2
    <3> HIDE DEF m, n, r, d
    <3>5. /\ IsFiniteSet(Range(driver) \cup Dequeued)
          /\ Cardinality(Range(driver) \cup Dequeued) <= m + r
      <4>1. Cardinality(Range(driver)) <= m
        BY <3>3 DEF m
      <4> QED
        BY <2>2, <3>3, <3>4, <4>1, UnionBound
    <3>6. /\ IsFiniteSet(Range(driver) \cup Dequeued \cup Range(released_q))
          /\ Cardinality(Range(driver) \cup Dequeued \cup Range(released_q))
                <= m + r + n
      <4>1. Cardinality(Range(released_q)) <= n
        BY <3>3 DEF n
      <4> QED
        BY <3>3, <3>4, <3>5, <4>1, UnionBound
    <3>7. IsFiniteSet(flagged) /\ Cardinality(flagged) <= m + r + n + d
      BY <2>2, <3>1, <3>4, <3>6, UnionBound
    <3>8. Away + One(disp_clr_index >= 0) <= ExtFb + 1
      BY <2>4, <3>1 DEF CountsQueued
    <3>9. IsFiniteSet(flagged) /\ Cardinality(flagged) \in Nat
      BY <3>7, FS_CardinalityType
    <3>10. Away = m + r + n
      BY <3>4 DEF Away, m, n, r
    <3> QED
      BY <2>1, <3>4, <3>8, <3>9, <3>7, <3>10 DEF d
  <2>5. CASE mode = "pp"
    <3>1. flagged = Delayed
      BY <2>1, <2>5 DEF OwnerInv, PpOwner, PpFlags
    <3> QED
      BY <2>1, <2>2, <2>3, <3>1
  <2>6. CASE mode = "mjpg"
    <3>1. flagged = {}
      BY <2>1, <2>6 DEF OwnerInv, MjpgOwner
    <3> QED
      BY <2>1, <3>1, FS_EmptySet
  <2> QED
    BY <2>4, <2>5, <2>6 DEF TypeInv, TypeOK
<1> QED
  BY <1>1, OwnerInvariant, PTL

=============================================================================

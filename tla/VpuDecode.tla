------------------------------ MODULE VpuDecode ------------------------------
(***************************************************************************)
(* The decoder main loop (decoder_start in test/mxc_vpu_test/dec.c) with   *)
(* the V4L2 display (v4l_put_data, v4l_get_buf, v4l_disp_loop_thread and   *)
(* v4l_display_close in display.c).  Frame buffers circulate between the   *)
(* VPU, which may write a registered buffer unless its display flag is     *)
(* set, the decoder, the V4L2 driver's queue, the display thread and       *)
(* released_q.                                                             *)
(*                                                                         *)
(*   perf  VIDEO_PERFORMANCE_TEST=1: a display thread dequeues, the two    *)
(*         threads meet at two semaphores and released_q; otherwise        *)
(*         v4l_put_data dequeues itself.                                   *)
(*   mode  "plain": the decoded buffer is displayed;                       *)
(*         "pp":    rotation, dering or tiled-to-linear output goes to an  *)
(*                  extra buffer rotid one frame late;                     *)
(*         "mjpg":  the registered buffers are used round robin.           *)
(*                                                                         *)
(* released_q is the atomic FIFO that module BufQueue implements.          *)
(***************************************************************************)
EXTENDS Integers, Sequences, FiniteSets, Functions

CONSTANTS MinFb,    \* initinfo.minFrameBufferCount
          ExtFb     \* VPU_EXTENDED_BUFFER_COUNT (default 2)

\* At least one extra buffer: with none the first DQBUF precedes STREAMON.
ASSUME FbAssumption ==
    /\ MinFb \in Nat \ {0}
    /\ ExtFb \in Nat \ {0}

VARIABLES
    mode, perf,             \* chosen by the command line and environment
    pc,                     \* where the decoder thread is
    out,                    \* outinfo.indexFrameDisplay
    disp_clr_index, rotid, index, decodefinish,  \* locals of decoder_start
    flagged,                \* registered buffers whose display flag is set
    driver, shown,          \* V4L2 queue; how many of its first are shown
    ncount,                 \* disp->ncount; 2 stands for 2 or more
    queued_count, dequeued_count,
    semDecoding, semDequeue, \* avaiable_decoding_frame, avaiable_dequeue_frame
    released_q, v4l_mutex, quitflag,
    dpc, dbuf, error_status \* the display thread and its locals

cfgVars  == <<mode, perf>>
decVars  == <<out, disp_clr_index, rotid, index, decodefinish>>
drvVars  == <<driver, shown, ncount>>
cntVars  == <<queued_count, dequeued_count, v4l_mutex>>
semVars  == <<semDecoding, semDequeue>>
dispVars == <<dpc, dbuf, error_status>>
vars == <<cfgVars, pc, decVars, flagged, drvVars, cntVars, semVars,
          released_q, quitflag, dispVars>>

-----------------------------------------------------------------------------
(* Buffer counts: decoder_parse and decoder_allocate_framebuffer.          *)

regfbcount == MinFb + ExtFb

rot_buf_count == regfbcount - MinFb + 1

extrafb == IF mode = "pp" THEN rot_buf_count ELSE 0

RegBufs == 0 .. regfbcount - 1
Bufs    == 0 .. regfbcount + rot_buf_count - 1

\* Mutant: one more buffer may stay queued.
thresholdLate == regfbcount - MinFb + 1

\* v4l_put_data: how many buffers may stay queued before one is dequeued.
threshold ==
    IF mode = "pp" THEN rot_buf_count - 1 ELSE regfbcount - MinFb

NoPicture == {-2, -3}

Init ==
    /\ mode \in {"plain", "pp", "mjpg"}
    /\ perf \in BOOLEAN
    /\ pc = "decode"
    /\ out = -3
    /\ disp_clr_index = -1
    /\ rotid = IF mode = "pp" THEN regfbcount ELSE 0
    /\ index = -1
    /\ decodefinish = FALSE
    /\ flagged = {}
    /\ driver = <<>>
    /\ shown = 0
    /\ ncount = 0
    /\ queued_count = 0
    /\ dequeued_count = 0
    /\ semDecoding = regfbcount - MinFb
    /\ semDequeue = 0
    /\ released_q = <<>>
    /\ v4l_mutex = "free"
    /\ quitflag = FALSE
    /\ dpc = IF perf THEN "loop" ELSE "exit"
    /\ dbuf \in Bufs             \* buffer.index is uninitialised
    /\ error_status = FALSE

-----------------------------------------------------------------------------
(* decoder_start: decoding one frame.  The VPU is external: it decodes     *)
(* into some registered buffer whose display flag is clear, and sets the   *)
(* flag of the buffer it hands out for display.                            *)

DecodeStep == /\ pc = "decode"
              /\ UNCHANGED <<cfgVars, disp_clr_index, rotid, index, drvVars,
                             cntVars, semVars, released_q, quitflag, dispVars>>

\* A picture to display.  For MJPG the index reported is replaced by rotid.
DecodePicture ==
    /\ DecodeStep
    /\ ~decodefinish
    /\ IF mode = "mjpg"
       THEN /\ out' = rotid
            /\ UNCHANGED flagged
       ELSE \E i \in RegBufs \ flagged :
            /\ out' = i
            /\ flagged' = flagged \cup {i}
    /\ pc' = "outinfo"
    /\ UNCHANGED decodefinish

\* Nothing to display this time: skipped, reordered, or no free buffer.
DecodeNoPicture ==
    /\ DecodeStep
    /\ ~decodefinish
    /\ out' \in NoPicture
    /\ pc' = "outinfo"
    /\ UNCHANGED <<flagged, decodefinish>>

\* End of the stream: indexFrameDisplay is -1 from now on.
DecodeEnd ==
    /\ DecodeStep
    /\ out' = -1
    /\ decodefinish' = TRUE
    /\ pc' = "outinfo"
    /\ UNCHANGED flagged

\* decodingSuccess is 0, or asks for more bitstream: quit or decode again.
DecodeIncomplete ==
    /\ DecodeStep
    /\ ~decodefinish
    /\ pc' = IF quitflag THEN "close" ELSE "decode"
    /\ UNCHANGED <<out, decodefinish, flagged>>

\* A VPU or bitstream error, a hang (vpu_SWReset), the end of a JPEG stream
\* or of a prescanned one: decoder_start returns without displaying.
DecodeStop ==
    /\ DecodeStep
    /\ pc' = "close"
    /\ UNCHANGED <<out, decodefinish, flagged>>

-----------------------------------------------------------------------------
(* decoder_start: what to do with the reported index.                      *)

OutinfoStep == /\ pc = "outinfo"
               /\ UNCHANGED <<cfgVars, out, rotid, index, decodefinish, drvVars,
                              cntVars, semVars, released_q, quitflag, dispVars>>

\* Mutant: the flag of the picture just queued is cleared, not the delayed one.
ClearedFlagsEarly == flagged \ {out}

\* Mutant: no display flag is ever cleared.
ClearedFlagsNever == flagged

\* Clear the display flag of disp_clr_index, unless there is none.
ClearedFlags ==
    IF mode # "mjpg" /\ disp_clr_index >= 0
    THEN flagged \ {disp_clr_index}
    ELSE flagged

StopsHere == (out = -1 /\ mode # "pp") \/ quitflag

OutinfoStop ==
    /\ OutinfoStep
    /\ StopsHere
    /\ pc' = "close"
    /\ UNCHANGED <<disp_clr_index, flagged>>

\* BIT has no picture: the delayed flag clear is done now, except in
\* performance mode.
OutinfoNoPicture ==
    /\ OutinfoStep
    /\ ~StopsHere
    /\ out \in NoPicture
    /\ pc' = "decode"
    /\ IF perf
       THEN UNCHANGED <<disp_clr_index, flagged>>
       ELSE /\ flagged' = ClearedFlags
            /\ disp_clr_index' = out

\* "delay one more frame for PP"
OutinfoDelay ==
    /\ OutinfoStep
    /\ ~StopsHere
    /\ out \notin NoPicture
    /\ mode = "pp"
    /\ disp_clr_index < 0
    /\ disp_clr_index' = out
    /\ pc' = "decode"
    /\ UNCHANGED flagged

OutinfoDisplay ==
    /\ OutinfoStep
    /\ ~StopsHere
    /\ out \notin NoPicture
    /\ mode = "pp" => disp_clr_index >= 0
    /\ pc' = "put"
    /\ UNCHANGED <<disp_clr_index, flagged>>

actual_display_index == IF mode = "plain" THEN out ELSE rotid

-----------------------------------------------------------------------------
(* v4l_put_data(dec, actual_display_index, ...)                            *)

PutStep == UNCHANGED <<cfgVars, out, disp_clr_index, rotid, decodefinish,
                       flagged, released_q, quitflag, dispVars>>

\* VIDIOC_QUERYBUF and VIDIOC_QBUF
PutQueue ==
    /\ pc = "put"
    /\ PutStep
    /\ driver' = Append(driver, actual_display_index)
    /\ pc' = "count"
    /\ UNCHANGED <<index, shown, ncount, cntVars, semVars>>

\* queued_count++ under v4l_mutex, then VIDIOC_STREAMON on the second frame,
\* which may fail.
PutCount ==
    /\ pc = "count"
    /\ PutStep
    /\ v4l_mutex = "free"
    /\ queued_count' = queued_count + 1
    /\ \/ /\ ncount' = IF ncount < 2 THEN ncount + 1 ELSE ncount
          /\ pc' = "check"
       \/ /\ ncount = 1
          /\ pc' = "close"
          /\ UNCHANGED ncount
    /\ UNCHANGED <<index, driver, shown, dequeued_count, v4l_mutex, semVars>>

\* An ioctl fails: v4l_put_data and then decoder_start return -1.
PutFail ==
    /\ pc \in {"put", "dqbuf"}
    /\ PutStep
    /\ pc' = "close"
    /\ UNCHANGED <<index, drvVars, cntVars, semVars>>

\* The test of queued_count is made without the mutex.
PutCheck ==
    /\ pc = "check"
    /\ PutStep
    /\ IF queued_count > threshold
       THEN /\ semDequeue' = IF perf THEN semDequeue + 1 ELSE semDequeue
            /\ pc' = IF perf THEN "get" ELSE "dqbuf"
            /\ UNCHANGED index
       ELSE /\ index' = -1
            /\ pc' = IF perf THEN "get" ELSE "after"
            /\ UNCHANGED semDequeue
    /\ UNCHANGED <<drvVars, cntVars, semDecoding>>

\* VIDIOC_DQBUF by the decoder itself; it blocks until a buffer was shown.
PutDequeue ==
    /\ pc = "dqbuf"
    /\ PutStep
    /\ shown > 0
    /\ index' = Head(driver)
    /\ driver' = Tail(driver)
    /\ shown' = shown - 1
    /\ queued_count' = queued_count - 1
    /\ pc' = "after"
    /\ UNCHANGED <<ncount, dequeued_count, v4l_mutex, semVars>>

-----------------------------------------------------------------------------
(* v4l_get_buf, performance mode                                           *)

GetStep == UNCHANGED <<cfgVars, out, disp_clr_index, rotid, decodefinish,
                       flagged, drvVars, queued_count, v4l_mutex, semDequeue,
                       quitflag, dispVars>>

\* sem_timedwait succeeds, or times out with quitflag set.
GetWait ==
    /\ pc = "get"
    /\ GetStep
    /\ \/ /\ semDecoding > 0
          /\ semDecoding' = semDecoding - 1
       \/ /\ semDecoding = 0
          /\ quitflag
          /\ UNCHANGED semDecoding
    /\ pc' = "released"
    /\ UNCHANGED <<index, dequeued_count, released_q>>

\* dequeued_count is tested without the mutex.
GetTest ==
    /\ pc = "released"
    /\ GetStep
    /\ IF dequeued_count > 0
       THEN /\ pc' = "pop"
            /\ UNCHANGED index
       ELSE /\ pc' = "after"
            /\ index' = -1
    /\ UNCHANGED <<semDecoding, dequeued_count, released_q>>

\* dequeue_buf(&disp->released_q)
GetPop ==
    /\ pc = "pop"
    /\ GetStep
    /\ IF released_q = <<>>
       THEN /\ index' = -1
            /\ UNCHANGED released_q
       ELSE /\ index' = Head(released_q)
            /\ released_q' = Tail(released_q)
    /\ pc' = "uncount"
    /\ UNCHANGED <<semDecoding, dequeued_count>>

\* dequeued_count-- under v4l_mutex
GetUncount ==
    /\ pc = "uncount"
    /\ GetStep
    /\ v4l_mutex = "free"
    /\ dequeued_count' = dequeued_count - 1
    /\ pc' = "after"
    /\ UNCHANGED <<index, semDecoding, released_q>>

-----------------------------------------------------------------------------
(* decoder_start: after the picture was handed to the display.             *)

\* Round robin over the extra buffers, or the buffer just dequeued.
NextRotid ==
    IF mode = "mjpg" THEN (rotid + 1) % regfbcount
    ELSE IF index # -1 THEN index
    ELSE ((rotid + 1 - regfbcount) % extrafb) + regfbcount

\* Mutant: the test of decodefinish behind the display is missing.
AfterDisplayEndless ==
    /\ pc = "after"
    /\ flagged' = ClearedFlags
    /\ rotid' = IF mode = "plain" THEN rotid ELSE NextRotid
    /\ disp_clr_index' = CASE mode = "plain" -> index
                           [] mode = "pp"    -> out
                           [] OTHER          -> disp_clr_index
    /\ pc' \in {"decode", "close"}
    /\ UNCHANGED <<cfgVars, out, index, decodefinish, drvVars, cntVars,
                   semVars, released_q, quitflag, dispVars>>

\* The delayed flag clear, the next rotation buffer, and the loop's end: the
\* frame count is reached, the network fill fails, or the stream is over.
AfterDisplay ==
    /\ pc = "after"
    /\ flagged' = ClearedFlags
    /\ rotid' = IF mode = "plain" THEN rotid ELSE NextRotid
    /\ disp_clr_index' = CASE mode = "plain" -> index
                           [] mode = "pp"    -> out
                           [] OTHER          -> disp_clr_index
    /\ pc' \in IF decodefinish THEN {"close"} ELSE {"decode", "close"}
    /\ UNCHANGED <<cfgVars, out, index, decodefinish, drvVars, cntVars,
                   semVars, released_q, quitflag, dispVars>>

-----------------------------------------------------------------------------
(* v4l_display_close, called from decoder_free_framebuffer                 *)

CloseStep == UNCHANGED <<cfgVars, decVars, flagged, cntVars, semVars,
                         released_q, dispVars>>

Close ==
    /\ pc = "close"
    /\ CloseStep
    /\ quitflag' = (quitflag \/ perf)
    /\ pc' = "join"
    /\ UNCHANGED drvVars

\* pthread_join, then VIDIOC_STREAMOFF gives every queued buffer back.
CloseJoin ==
    /\ pc = "join"
    /\ CloseStep
    /\ dpc = "exit"
    /\ driver' = <<>>
    /\ shown' = 0
    /\ pc' = "done"
    /\ UNCHANGED <<ncount, quitflag>>

-----------------------------------------------------------------------------
(* v4l_disp_loop_thread                                                    *)

DispStep == UNCHANGED <<cfgVars, pc, decVars, flagged, ncount, quitflag>>

\* while (!error_status && !quitflag)
DispLoop ==
    /\ dpc = "loop"
    /\ DispStep
    /\ dpc' = IF error_status \/ quitflag THEN "exit" ELSE "wait"
    /\ UNCHANGED <<dbuf, error_status, driver, shown, cntVars, semVars,
                   released_q>>

\* Mutant: a plain sem_wait, which no quitflag ends.
DispWaitUntimed ==
    /\ dpc = "wait"
    /\ DispStep
    /\ semDequeue > 0
    /\ semDequeue' = semDequeue - 1
    /\ dpc' = "quit?"
    /\ UNCHANGED <<dbuf, error_status, driver, shown, cntVars, semDecoding,
                   released_q>>

\* sem_timedwait succeeds, or times out with quitflag set.
DispWait ==
    /\ dpc = "wait"
    /\ DispStep
    /\ \/ /\ semDequeue > 0
          /\ semDequeue' = semDequeue - 1
       \/ /\ semDequeue = 0
          /\ quitflag
          /\ UNCHANGED semDequeue
    /\ dpc' = "quit?"
    /\ UNCHANGED <<dbuf, error_status, driver, shown, cntVars, semDecoding,
                   released_q>>

DispQuit ==
    /\ dpc = "quit?"
    /\ DispStep
    /\ dpc' = IF quitflag THEN "exit" ELSE "dqbuf"
    /\ UNCHANGED <<dbuf, error_status, driver, shown, cntVars, semVars,
                   released_q>>

\* VIDIOC_DQBUF; it blocks until a buffer was shown.
DispDequeue ==
    /\ dpc = "dqbuf"
    /\ DispStep
    /\ shown > 0
    /\ dbuf' = Head(driver)
    /\ driver' = Tail(driver)
    /\ shown' = shown - 1
    /\ dpc' = "release"
    /\ UNCHANGED <<error_status, cntVars, semVars, released_q>>

\* VIDIOC_DQBUF fails: buffer.index keeps its old value and is released.
DispDequeueFail ==
    /\ dpc = "dqbuf"
    /\ DispStep
    /\ error_status' = TRUE
    /\ dpc' = "release"
    /\ UNCHANGED <<dbuf, driver, shown, cntVars, semVars, released_q>>

\* queue_buf(&disp->released_q, buffer.index)
DispRelease ==
    /\ dpc = "release"
    /\ DispStep
    /\ released_q' = Append(released_q, dbuf)
    /\ dpc' = "lock"
    /\ UNCHANGED <<dbuf, error_status, driver, shown, cntVars, semVars>>

\* pthread_mutex_lock; queued_count--
DispLock ==
    /\ dpc = "lock"
    /\ DispStep
    /\ v4l_mutex = "free"
    /\ v4l_mutex' = "disp"
    /\ queued_count' = queued_count - 1
    /\ dpc' = "unlock"
    /\ UNCHANGED <<dbuf, error_status, driver, shown, dequeued_count, semVars,
                   released_q>>

\* dequeued_count++; pthread_mutex_unlock
DispUnlock ==
    /\ dpc = "unlock"
    /\ DispStep
    /\ dequeued_count' = dequeued_count + 1
    /\ v4l_mutex' = "free"
    /\ dpc' = "post"
    /\ UNCHANGED <<dbuf, error_status, driver, shown, queued_count, semVars,
                   released_q>>

\* Mutant: the display thread goes on without sem_post.
DispPostMissing ==
    /\ dpc = "post"
    /\ DispStep
    /\ dpc' = "loop"
    /\ UNCHANGED <<dbuf, error_status, driver, shown, cntVars, semVars,
                   released_q>>

\* sem_post(&disp->avaiable_decoding_frame)
DispPost ==
    /\ dpc = "post"
    /\ DispStep
    /\ semDecoding' = semDecoding + 1
    /\ dpc' = "loop"
    /\ UNCHANGED <<dbuf, error_status, driver, shown, cntVars, semDequeue,
                   released_q>>

-----------------------------------------------------------------------------
(* The environment.                                                        *)

\* The driver, once streaming, shows queued buffers in order.
DriverShow ==
    /\ ncount = 2
    /\ shown < Len(driver)
    /\ shown' = shown + 1
    /\ UNCHANGED <<cfgVars, pc, decVars, flagged, driver, ncount, cntVars,
                   semVars, released_q, quitflag, dispVars>>

\* signal_thread, or the close of another instance's display.
Interrupt ==
    /\ ~quitflag
    /\ quitflag' = TRUE
    /\ UNCHANGED <<cfgVars, pc, decVars, flagged, drvVars, cntVars, semVars,
                   released_q, dispVars>>

-----------------------------------------------------------------------------
DecoderStep ==
    \/ DecodePicture \/ DecodeNoPicture \/ DecodeEnd \/ DecodeIncomplete
    \/ DecodeStop
    \/ OutinfoStop \/ OutinfoNoPicture \/ OutinfoDelay \/ OutinfoDisplay
    \/ PutQueue \/ PutCount \/ PutCheck \/ PutDequeue
    \/ GetWait \/ GetTest \/ GetPop \/ GetUncount
    \/ AfterDisplay \/ Close \/ CloseJoin

DisplayStep ==
    \/ DispLoop \/ DispWait \/ DispQuit \/ DispDequeue
    \/ DispRelease \/ DispLock \/ DispUnlock \/ DispPost

\* The run is over: the process has nothing left to do.
Finished == pc = "done" /\ UNCHANGED vars

Next ==
    \/ DecoderStep \/ PutFail
    \/ DisplayStep \/ DispDequeueFail
    \/ DriverShow \/ Interrupt \/ Finished

Spec == Init /\ [][Next]_vars

\* Both threads are scheduled (an ioctl need not ever fail), and the driver
\* shows a buffer when the next one is already queued behind it.
ShowWithSuccessor == shown + 1 < Len(driver) /\ DriverShow

Fairness ==
    /\ WF_vars(DecoderStep)
    /\ WF_vars(DisplayStep)
    /\ WF_vars(ShowWithSuccessor)

FairSpec == Spec /\ Fairness

-----------------------------------------------------------------------------
(* Properties.                                                             *)

DecoderPcs == {"decode", "outinfo", "put", "count", "check", "dqbuf", "get",
               "released", "pop", "uncount", "after", "close", "join", "done"}
DisplayPcs == {"loop", "wait", "quit?", "dqbuf", "release", "lock", "unlock",
               "post", "exit"}

\* Every variable keeps its type.
TypeOK ==
    /\ mode \in {"plain", "pp", "mjpg"}
    /\ perf \in BOOLEAN
    /\ pc \in DecoderPcs
    /\ out \in RegBufs \cup {-1, -2, -3}
    /\ disp_clr_index \in Bufs \cup {-1, -2, -3}
    /\ rotid \in Bufs
    /\ index \in Bufs \cup {-1}
    /\ decodefinish \in BOOLEAN
    /\ flagged \in SUBSET RegBufs
    /\ driver \in Seq(Bufs)
    /\ shown \in 0 .. Len(driver)
    /\ ncount \in 0 .. 2
    /\ queued_count \in Int
    /\ dequeued_count \in Int
    /\ semDecoding \in Nat
    /\ semDequeue \in Nat
    /\ released_q \in Seq(Bufs)
    /\ v4l_mutex \in {"free", "disp"}
    /\ quitflag \in BOOLEAN
    /\ dpc \in DisplayPcs
    /\ dbuf \in Bufs
    /\ error_status \in BOOLEAN

\* No buffer is handed to the driver while the driver still holds it
\* (decoder_allocate_framebuffer: "otherwise, buffer will be queued twice").
NeverQueuedTwice ==
    pc = "put" /\ ~error_status => actual_display_index \notin Range(driver)

\* While the VPU decodes, it cannot write a buffer the driver is showing or
\* about to show: in plain mode its display flag is set, otherwise it is not
\* the rotator's target.  After quitflag v4l_get_buf gives up waiting and the
\* rotator's last frame may land in a queued buffer.
NoOverwriteOnDisplay ==
    pc = "decode" /\ ~error_status =>
        IF mode = "plain" THEN Range(driver) \subseteq flagged
                          ELSE quitflag \/ rotid \notin Range(driver)

InHand ==
    (IF dpc = "release" /\ ~error_status THEN {dbuf} ELSE {})
        \cup (IF pc \in {"uncount", "after"} THEN {index} ELSE {})
        \cup (IF pc # "decode" THEN {out} ELSE {})

\* No registered buffer is lost to the VPU: one whose display flag is set is
\* still queued, released, in a thread's hand or remembered for clearing.
NoBufferLost ==
    pc \notin {"close", "join", "done"} /\ ~error_status =>
        flagged \subseteq Range(driver) \cup Range(released_q) \cup InHand
                          \cup {disp_clr_index}

\* The bound the code keeps on what the display withholds from the VPU while
\* it decodes: ExtFb buffers whose dequeue is delayed and one whose flag is
\* cleared a round later.  It is one more than the comment in decoder_parse
\* allows for (one delayed dequeue and one delayed clear are the two extra
\* buffers), so MinFb - 1 buffers are left and not MinFb.
VpuBufferBudget ==
    pc = "decode" /\ ~error_status => Cardinality(flagged) <= ExtFb + 1

\* v4l_get_buf never dequeues from an empty released_q, although it tests
\* dequeued_count without the mutex.
PopFindsBuffer == pc = "pop" => released_q # <<>>

\* The handshake is lock-step: however often the two threads meet, at most
\* one released buffer waits for the decoder, so queue_buf in the display
\* thread, whose result is ignored, never meets a full released_q.
ReleasedFits == Len(released_q) <= 1

(* The handshake of performance mode, as an inductive invariant.           *)

One(b) == IF b THEN 1 ELSE 0

\* The display thread is serving a request (one it got from semDequeue).
Serving ==
    \/ dpc \in {"dqbuf", "release", "lock", "unlock", "post"}
    \/ dpc = "quit?" /\ ~quitflag

Requested == semDequeue > 0 \/ Serving

\* The decoder is in a round it will finish: not closing, and not in the
\* last round, which quitflag cut short.
InRound ==
    /\ pc \notin {"close", "join", "done"}
    /\ quitflag => pc \in {"put", "count", "check", "get"}

\* dequeued_count is the length of released_q but for the moments between
\* changing one and the other.
CountsReleased ==
    /\ dequeued_count = Len(released_q) - One(dpc \in {"lock", "unlock"})
                                        + One(pc = "uncount")
    /\ pc = "pop" => dequeued_count > 0

\* Every buffer counted as queued has used up one of semDecoding's ExtFb
\* units, or is the one of the current round.
UnitsConserved ==
    InRound => semDecoding + queued_count + One(dpc \in {"unlock", "post"})
                   = ExtFb + One(pc \in {"check", "get"})

\* One request at a time, made when no unit is left, and answered before
\* the decoder goes on.
OneRequest ==
    /\ semDequeue + One(Serving) <= 1
    /\ InRound /\ pc # "get" => ~Requested
    /\ pc = "get" /\ Requested => semDecoding = 0
    /\ InRound /\ pc \notin {"get", "released", "pop"} => released_q = <<>>
    /\ Len(released_q) + semDequeue
          + One(Serving /\ dpc \in {"quit?", "dqbuf", "release"}) <= 1

\* The two threads of performance mode run in lock-step; without it, the
\* display thread and its queue are not used.
LockStep ==
    IF perf
    THEN pc # "dqbuf" /\ CountsReleased /\ UnitsConserved /\ OneRequest
    ELSE /\ pc \notin {"get", "released", "pop", "uncount"}
         /\ dpc = "exit"
         /\ released_q = <<>>

\* Once quitflag is set, the decoder and the display thread both come to an
\* end, whatever they were waiting for.
QuitCompletes == quitflag ~> (pc = "done")

\* A picture handed to v4l_put_data gets through the queue/dequeue handshake,
\* unless the display thread stopped on a failed VIDIOC_DQBUF.
PictureDelivered ==
    (pc = "put") ~> (pc \in {"decode", "close"} \/ error_status)

\* The end of the stream ends the run, given that post processing has a
\* picture pending.
EndOfStreamStops ==
    (pc = "outinfo" /\ out = -1 /\ (mode = "pp" => disp_clr_index >= 0))
        ~> (pc = "done" \/ error_status)

=============================================================================

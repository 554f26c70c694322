----------------------------- MODULE IpuDisplay -----------------------------
(***************************************************************************)
(* The IPU display of test/mxc_vpu_test/display.c: the decoder hands       *)
(* pictures to ipu_put_data, ipu_disp_loop_thread takes them from ipu_q,   *)
(* gives them to the IPU library and clears the display flag of the        *)
(* picture the IPU is done with, and ipu_display_close drains the queue    *)
(* and joins the thread.  The two threads share ipu_q, a condition         *)
(* variable that is signalled without its mutex, and plain flags.          *)
(*                                                                         *)
(* ipu_q is the atomic FIFO that module BufQueue implements.  The VPU and  *)
(* the IPU library are external: the VPU writes registered buffers whose   *)
(* display flag is clear; the IPU reads the last buffer it was given, and  *)
(* the last two when it de-interlaces from three fields.  With rotation,   *)
(* dering or tiled output the VPU also writes every picture to a rotation  *)
(* buffer, and it is that one the decoder hands over.                      *)
(***************************************************************************)
EXTENDS Integers, Sequences, FiniteSets, Functions

CONSTANTS RegFb,        \* dec->regfbcount
          Streams,      \* the streams played, each given by the set of values
                        \* "the picture is interlaced" takes in it
          PostProc,     \* values of rot_en || dering_en || tiled2LinearEnable
          Faults        \* may the IPU library fail, cond_wait wake spuriously

ASSUME IpuAssumption ==
    /\ RegFb \in Nat \ {0}
    /\ Streams \subseteq (SUBSET BOOLEAN \ {{}})
    /\ PostProc \subseteq BOOLEAN
    /\ Faults \in BOOLEAN

VARIABLES
    stream, high_motion,     \* the stream; input.motion_sel is HIGH_MOTION
    pp,                      \* post processing is on
    pc, out, interlaced,     \* the decoder; its picture and that picture's field
    pending, decodefinish,   \* the decoder's disp_clr_index >= 0; end reported
    flagged, vpuOpen,        \* display flags set in the VPU; handle open
    quitflag,
    ipu_q, deinterlaced, stopping, ncount,        \* struct vpu_display
    freed,                                        \* disp is freed
    ipu_running, ipu_waiting,                     \* static flags
    ipc, index, disp_clr_index, tmp_idx,          \* the thread's locals
    held, vdi,               \* IPU: buffers it reads; task is three-field VDI
    late                     \* history: close found the thread not yet begun

cfgVars == <<stream, high_motion, pp>>
endVars == <<pending, decodefinish>>
decVars == <<pc, out, interlaced, endVars>>
vpuVars == <<flagged, vpuOpen>>
ipuVars == <<held, vdi>>
locVars == <<index, disp_clr_index, tmp_idx>>
vars == <<cfgVars, decVars, vpuVars, quitflag, ipu_q, deinterlaced, stopping, ncount,
          freed, ipu_running, ipu_waiting, ipc, locVars, ipuVars, late>>

\* The registered buffers and, behind them, the rotation buffer.  Nothing
\* advances rotid on this path: the code that does is for the V4L2 display.
RegBufs == 0 .. RegFb - 1
rotid   == RegFb
Bufs    == 0 .. RegFb

Init ==
    /\ stream \in Streams
    /\ high_motion \in BOOLEAN
    /\ pp \in PostProc
    /\ pc = "decode"
    /\ out = 0
    /\ interlaced = FALSE
    /\ pending = FALSE
    /\ decodefinish = FALSE
    /\ flagged = {}
    /\ vpuOpen = TRUE
    /\ quitflag = FALSE
    /\ ipu_q = <<>>
    /\ deinterlaced = FALSE
    /\ stopping = FALSE
    /\ ncount = 0
    /\ freed = FALSE
    /\ ipu_running = FALSE
    /\ ipu_waiting = FALSE
    /\ ipc = "start"
    /\ index = -1
    /\ disp_clr_index = -1
    /\ tmp_idx = <<0, 0, 0>>
    /\ held = <<>>
    /\ vdi = FALSE
    /\ late = FALSE

-----------------------------------------------------------------------------
(* decoder_start with dst_scheme = PATH_IPU                                *)

DecStep == UNCHANGED <<cfgVars, vpuOpen, stopping, ncount, freed, quitflag,
                       ipu_running, ipu_waiting, locVars, ipuVars, late>>

actual_display_index == IF pp THEN rotid ELSE out

\* What a decoded picture, or with post processing the end of the stream, is
\* used for: quitflag is tested first; the first post-processed picture is
\* delayed until the rotator has written it.
AfterOutput ==
    CASE quitflag       -> "vpuclose"
      [] pp /\ ~pending -> "decode"
      [] OTHER          -> "put"

\* The VPU decodes into a free buffer.  The field is looked up by the index
\* that is displayed, and no entry is ever made for a rotation buffer.
DecodePicture ==
    /\ pc = "decode"
    /\ ~decodefinish
    /\ DecStep
    /\ out' \in RegBufs \ flagged
    /\ flagged' = flagged \cup {out'}
    /\ interlaced' \in IF pp THEN {FALSE} ELSE stream
    /\ pc' = AfterOutput
    /\ pending' = (pending \/ (pp /\ ~quitflag))
    /\ UNCHANGED <<decodefinish, ipu_q, deinterlaced, ipc>>

\* The VPU reports the end (-1) while post processing is on: the rotation
\* buffer is shown once more, unless no picture is pending; then the loop
\* starts another frame of the ended stream.
DecodeLast ==
    /\ pc = "decode"
    /\ pp
    /\ DecStep
    /\ decodefinish' = TRUE
    /\ pc' = AfterOutput
    /\ UNCHANGED <<out, interlaced, pending, flagged, ipu_q, deinterlaced, ipc>>

\* End of the stream, frame count reached, quitflag, or an error.
DecodeStop ==
    /\ pc = "decode"
    /\ DecStep
    /\ pc' = "vpuclose"
    /\ UNCHANGED <<out, interlaced, endVars, flagged, ipu_q, deinterlaced, ipc>>

-----------------------------------------------------------------------------
(* ipu_put_data                                                            *)

PutField ==
    /\ pc = "put"
    /\ DecStep
    /\ deinterlaced' = (deinterlaced \/ interlaced)
    /\ pc' = "queue"
    /\ UNCHANGED <<out, interlaced, endVars, flagged, ipu_q, ipc>>

PutQueue ==
    /\ pc = "queue"
    /\ DecStep
    /\ ipu_q' = Append(ipu_q, actual_display_index)
    /\ pc' = "signal"
    /\ UNCHANGED <<out, interlaced, endVars, flagged, deinterlaced, ipc>>

\* pthread_cond_signal without the mutex: it wakes a thread that is already
\* blocked in pthread_cond_wait and is otherwise forgotten.
Signalled == IF ipc = "blocked" THEN "woken" ELSE ipc

PutSignal ==
    /\ pc = "signal"
    /\ DecStep
    /\ ipc' = Signalled
    /\ pc' = IF decodefinish THEN "vpuclose" ELSE "decode"
    /\ UNCHANGED <<out, interlaced, endVars, flagged, ipu_q, deinterlaced>>

-----------------------------------------------------------------------------
(* decoder_close, then ipu_display_close                                   *)

CloseStep == UNCHANGED <<cfgVars, out, interlaced, endVars, flagged, quitflag,
                         ipu_q, ncount, ipu_running, ipu_waiting, locVars, ipuVars>>

\* vpu_DecClose
VpuClose ==
    /\ pc = "vpuclose"
    /\ CloseStep
    /\ vpuOpen' = FALSE
    /\ pc' = "stop"
    /\ UNCHANGED <<deinterlaced, stopping, freed, ipc, late>>

CloseStop ==
    /\ pc = "stop"
    /\ CloseStep
    /\ stopping' = TRUE
    /\ pc' = "progressive"
    /\ UNCHANGED <<vpuOpen, deinterlaced, freed, ipc, late>>

CloseProgressive ==
    /\ pc = "progressive"
    /\ CloseStep
    /\ deinterlaced' = FALSE
    /\ pc' = "drain"
    /\ UNCHANGED <<vpuOpen, stopping, freed, ipc, late>>

\* while (ipu_running && (queue_size > 0 || !ipu_waiting)) usleep
CloseDrain ==
    /\ pc = "drain"
    /\ CloseStep
    /\ pc' = IF ipu_running /\ (ipu_q # <<>> \/ ~ipu_waiting) THEN "drain"
                                                            ELSE "running?"
    /\ late' = (ipc = "start")
    /\ UNCHANGED <<vpuOpen, deinterlaced, stopping, freed, ipc>>

\* Mutant: the close goes on without the join.
CloseWakeOnly ==
    /\ pc = "running?"
    /\ CloseStep
    /\ ipc' = IF ipu_running THEN Signalled ELSE ipc
    /\ pc' = "free"
    /\ UNCHANGED <<vpuOpen, deinterlaced, stopping, freed, late>>

\* if (ipu_running) wakeup_queue()
CloseWake ==
    /\ pc = "running?"
    /\ CloseStep
    /\ IF ipu_running
       THEN /\ ipc' = Signalled
            /\ pc' = "join"
       ELSE /\ pc' = "free"
            /\ UNCHANGED ipc
    /\ UNCHANGED <<vpuOpen, deinterlaced, stopping, freed, late>>

CloseJoin ==
    /\ pc = "join"
    /\ CloseStep
    /\ ipc \in {"exit", "failed"}
    /\ pc' = "free"
    /\ UNCHANGED <<vpuOpen, deinterlaced, stopping, freed, ipc, late>>

CloseFree ==
    /\ pc = "free"
    /\ CloseStep
    /\ freed' = TRUE
    /\ pc' = "done"
    /\ UNCHANGED <<vpuOpen, deinterlaced, stopping, ipc, late>>

-----------------------------------------------------------------------------
(* ipu_disp_loop_thread                                                    *)

ThreadStep == UNCHANGED <<cfgVars, decVars, vpuOpen, deinterlaced, stopping,
                          freed, late>>

ThreadStart ==
    /\ ipc = "start"
    /\ ThreadStep
    /\ ipu_running' = TRUE
    /\ ipc' = "dequeue"
    /\ UNCHANGED <<flagged, quitflag, ipu_q, ncount, ipu_waiting, locVars,
                   ipuVars>>

\* Mutant: the index of the picture before is not kept across the dequeue.
ThreadDequeueForgets ==
    /\ ipc = "dequeue"
    /\ ThreadStep
    /\ disp_clr_index' = -1
    /\ IF ipu_q = <<>>
       THEN /\ index' = -1
            /\ ipc' = "wait"
            /\ UNCHANGED ipu_q
       ELSE /\ index' = Head(ipu_q)
            /\ ipu_q' = Tail(ipu_q)
            /\ ipc' = "task"
    /\ UNCHANGED <<flagged, quitflag, ncount, ipu_running, ipu_waiting,
                   tmp_idx, ipuVars>>

\* disp_clr_index = index; index = dequeue_buf(&disp->ipu_q)
ThreadDequeue ==
    /\ ipc = "dequeue"
    /\ ThreadStep
    /\ disp_clr_index' = index
    /\ IF ipu_q = <<>>
       THEN /\ index' = -1
            /\ ipc' = "wait"
            /\ UNCHANGED ipu_q
       ELSE /\ index' = Head(ipu_q)
            /\ ipu_q' = Tail(ipu_q)
            /\ ipc' = "task"
    /\ UNCHANGED <<flagged, quitflag, ncount, ipu_running, ipu_waiting,
                   tmp_idx, ipuVars>>

\* wait_queue: lock, ipu_waiting = 1
ThreadWait ==
    /\ ipc = "wait"
    /\ ThreadStep
    /\ ipu_waiting' = TRUE
    /\ ipc' = "condwait"
    /\ UNCHANGED <<flagged, quitflag, ipu_q, ncount, ipu_running, locVars,
                   ipuVars>>

ThreadBlock ==
    /\ ipc = "condwait"
    /\ ThreadStep
    /\ ipc' = "blocked"
    /\ UNCHANGED <<flagged, quitflag, ipu_q, ncount, ipu_running, ipu_waiting,
                   locVars, ipuVars>>

\* pthread_cond_wait may return without a signal.
ThreadSpurious ==
    /\ Faults
    /\ ipc = "blocked"
    /\ ThreadStep
    /\ ipc' = "woken"
    /\ UNCHANGED <<flagged, quitflag, ipu_q, ncount, ipu_running, ipu_waiting,
                   locVars, ipuVars>>

ThreadWoken ==
    /\ ipc = "woken"
    /\ ThreadStep
    /\ ipu_waiting' = FALSE
    /\ ipc' = "retry"
    /\ UNCHANGED <<flagged, quitflag, ipu_q, ncount, ipu_running, locVars,
                   ipuVars>>

\* Mutant: the result of the second dequeue_buf is not tested.
ThreadRetryUnchecked ==
    /\ ipc = "retry"
    /\ ThreadStep
    /\ index' = IF ipu_q = <<>> THEN -1 ELSE Head(ipu_q)
    /\ ipu_q' = IF ipu_q = <<>> THEN ipu_q ELSE Tail(ipu_q)
    /\ ipc' = "task"
    /\ UNCHANGED <<flagged, quitflag, ncount, ipu_running, ipu_waiting,
                   disp_clr_index, tmp_idx, ipuVars>>

\* The second dequeue_buf; an empty queue now means "finish".
ThreadRetry ==
    /\ ipc = "retry"
    /\ ThreadStep
    /\ IF ipu_q = <<>>
       THEN /\ index' = -1
            /\ ipc' = "uninit"
            /\ UNCHANGED ipu_q
       ELSE /\ index' = Head(ipu_q)
            /\ ipu_q' = Tail(ipu_q)
            /\ ipc' = "task"
    /\ UNCHANGED <<flagged, quitflag, ncount, ipu_running, ipu_waiting,
                   disp_clr_index, tmp_idx, ipuVars>>

ThreeFields == deinterlaced /\ ~high_motion

Last(s) == s[Len(s)]

(* The branch the thread takes on ncount.                                  *)
Collects == ncount = 0 \/ (ncount = 1 /\ ThreeFields)
Begins   == ~Collects /\ (ncount = 1 \/ (ncount = 2 /\ ThreeFields))

\* The first buffers are only remembered for task_init.
TaskCollect ==
    /\ Collects
    /\ tmp_idx' = [tmp_idx EXCEPT ![ncount + 1] = index]
    /\ held' = Append(held, index)
    /\ ipc' = "clear"
    /\ UNCHANGED <<vdi, quitflag>>

\* mxc_ipu_lib_task_init and the update that finishes the first frame
TaskInit ==
    /\ Begins
    /\ vdi' = ThreeFields
    /\ held' = IF ThreeFields THEN <<Last(held), index>> ELSE <<index>>
    /\ ipc' = "begun"
    /\ UNCHANGED <<tmp_idx, quitflag>>

\* mxc_ipu_lib_task_buf_update
TaskUpdate ==
    /\ ~Collects /\ ~Begins
    /\ held' = IF vdi THEN <<Last(held), index>> ELSE <<index>>
    /\ ipc' = "updated"
    /\ UNCHANGED <<tmp_idx, vdi, quitflag>>

\* The library fails: task_init returns at once and leaves ipu_running set,
\* buf_update leaves the loop.
TaskFail ==
    /\ Faults
    /\ ~Collects
    /\ quitflag' = TRUE
    /\ ipc' \in IF Begins THEN {"failed", "uninit"} ELSE {"uninit"}
    /\ UNCHANGED <<tmp_idx, ipuVars>>

ThreadTask ==
    /\ ipc = "task"
    /\ ThreadStep
    /\ TaskCollect \/ TaskInit \/ TaskUpdate \/ TaskFail
    /\ UNCHANGED <<flagged, ipu_q, ncount, ipu_running, ipu_waiting, index,
                   disp_clr_index>>

\* Mutant: in three-field mode the flag of the picture before is cleared,
\* which the IPU still reads.
ThreadBookEarly ==
    /\ ipc \in {"begun", "updated"}
    /\ ThreadStep
    /\ tmp_idx' = IF ThreeFields THEN <<tmp_idx[2], tmp_idx[3], index>>
                                 ELSE tmp_idx
    /\ ipc' = "clear"
    /\ UNCHANGED <<flagged, quitflag, ipu_q, ncount, ipu_running, ipu_waiting,
                   index, disp_clr_index, ipuVars>>

\* After the library call, deinterlaced is read again: in three-field mode
\* the flag to clear is that of the picture two before.
ThreadBook ==
    /\ ThreadStep
    /\ \/ /\ ipc = "begun"
          /\ tmp_idx' = [tmp_idx EXCEPT ![3] = index]
       \/ /\ ipc = "updated"
          /\ tmp_idx' = IF ThreeFields THEN <<tmp_idx[2], tmp_idx[3], index>>
                                       ELSE tmp_idx
    /\ disp_clr_index' = IF ThreeFields THEN tmp_idx'[1] ELSE disp_clr_index
    /\ ipc' = "clear"
    /\ UNCHANGED <<flagged, quitflag, ipu_q, ncount, ipu_running, ipu_waiting,
                   index, ipuVars>>

ClearsFlag ==
    /\ disp_clr_index >= 0
    /\ ~stopping
    /\ ~(ThreeFields /\ ncount < 2)

\* vpu_DecClrDispFlag and ncount++.  The call fails on a closed handle; a
\* rotation buffer has no flag, and the library may refuse it or not.
ThreadClear ==
    /\ ipc = "clear"
    /\ ThreadStep
    /\ \/ /\ ClearsFlag
          /\ ~vpuOpen \/ disp_clr_index = rotid
          /\ quitflag' = TRUE
          /\ ipc' = "uninit"
          /\ UNCHANGED <<flagged, ncount>>
       \/ /\ ClearsFlag => vpuOpen
          /\ flagged' = IF ClearsFlag THEN flagged \ {disp_clr_index}
                                      ELSE flagged
          /\ ncount' = IF ncount < 3 THEN ncount + 1 ELSE ncount
          /\ ipc' = "dequeue"
          /\ UNCHANGED quitflag
    /\ UNCHANGED <<ipu_q, ipu_running, ipu_waiting, locVars, ipuVars>>

\* mxc_ipu_lib_task_uninit; ipu_running = 0
ThreadExit ==
    /\ ipc = "uninit"
    /\ ThreadStep
    /\ held' = <<>>
    /\ ipu_running' = FALSE
    /\ ipc' = "exit"
    /\ UNCHANGED <<flagged, quitflag, ipu_q, ncount, ipu_waiting, locVars, vdi>>

-----------------------------------------------------------------------------
Decoder ==
    \/ DecodePicture \/ DecodeLast \/ DecodeStop
    \/ PutField \/ PutQueue \/ PutSignal
    \/ VpuClose \/ CloseStop \/ CloseProgressive \/ CloseDrain \/ CloseWake
    \/ CloseJoin \/ CloseFree

Thread ==
    \/ ThreadStart \/ ThreadDequeue \/ ThreadWait \/ ThreadBlock
    \/ ThreadWoken \/ ThreadRetry \/ ThreadTask \/ ThreadBook \/ ThreadClear
    \/ ThreadExit

Next == Decoder \/ Thread \/ ThreadSpurious

Spec == Init /\ [][Next]_vars

\* Both threads are scheduled.
FairSpec == Spec /\ WF_vars(Decoder) /\ WF_vars(Thread)

-----------------------------------------------------------------------------
(* Properties.                                                             *)

\* Every variable keeps its type.
TypeOK ==
    /\ stream \in Streams
    /\ high_motion \in BOOLEAN
    /\ pc \in {"decode", "put", "queue", "signal", "vpuclose", "stop",
               "progressive", "drain", "running?", "join", "free", "done"}
    /\ pp \in PostProc
    /\ out \in RegBufs
    /\ interlaced \in BOOLEAN
    /\ pending \in BOOLEAN
    /\ decodefinish \in BOOLEAN
    /\ flagged \in SUBSET RegBufs
    /\ vpuOpen \in BOOLEAN
    /\ quitflag \in BOOLEAN
    /\ ipu_q \in Seq(Bufs)
    /\ deinterlaced \in BOOLEAN
    /\ stopping \in BOOLEAN
    /\ ncount \in 0 .. 3
    /\ freed \in BOOLEAN
    /\ ipu_running \in BOOLEAN
    /\ ipu_waiting \in BOOLEAN
    /\ ipc \in {"start", "dequeue", "wait", "condwait", "blocked", "woken",
                "retry", "task", "begun", "updated", "clear", "uninit", "exit", "failed"}
    /\ index \in Bufs \cup {-1}
    /\ disp_clr_index \in Bufs \cup {-1}
    /\ tmp_idx \in Bufs \X Bufs \X Bufs
    /\ held \in Seq(Bufs)
    /\ vdi \in BOOLEAN
    /\ late \in BOOLEAN

\* Everything on its way to the screen: queued, in the thread's hands, or
\* being read by the IPU.
OnDisplay ==
    Range(ipu_q) \cup Range(held)
        \cup (IF ipc = "task" THEN {index} ELSE {})
        \cup (IF pc \in {"put", "queue"} THEN {actual_display_index} ELSE {})

\* While the decoder runs, the VPU cannot write a picture that is still on
\* its way to the screen (FSL-UT-VPU-001: "Stream is displayed on the LCD
\* correctly."): in plain mode its display flag is set, with post processing
\* it is not the rotator's target.  The code does not keep this with post
\* processing, where the next decode writes the rotation buffer just handed
\* over, nor for a stream that turns interlaced, where tmp_idx has not been
\* filled.
NoOverwriteOnDisplay ==
    vpuOpen => IF pp THEN pc = "decode" => rotid \notin OnDisplay
                     ELSE OnDisplay \subseteq flagged

\* The playback for which ownership is kept: no post processing, and a
\* stream that is interlaced throughout or progressive throughout.
Steady == ~pp /\ (stream = {TRUE} \/ stream = {FALSE})

\* In steady playback no picture on its way to the screen is overwritten,
\* although the flags are cleared by the IPU thread (decoder_parse:
\* "vpu_DecClrDispFlag is used to control framebuffer whether can be used
\* for decoder again").
SteadyNoOverwrite == Steady => NoOverwriteOnDisplay

\* The picture two before, which the thread is about to clear.
DueNext == CASE ipc = "begun"   -> {tmp_idx[1]}
             [] ipc = "updated" -> {tmp_idx[2]}
             [] OTHER           -> {}

\* In steady playback, as long as the thread lives and the VPU is open,
\* display flags are not leaked: a flagged buffer is on its way to the screen
\* or is the one the thread clears next.  (With post processing no flag of a
\* decoded picture is ever cleared.)
SteadyNoBufferLost ==
    /\ Steady
    /\ vpuOpen
    /\ pc \in {"decode", "signal"}
    /\ ipc \notin {"uninit", "exit", "failed"}
    => flagged \subseteq OnDisplay \cup DueNext \cup {disp_clr_index}

\* disp is not freed under the thread, if that had begun by the time the
\* close looked at ipu_running.
FreedAfterThread == freed /\ ~late => ipc \in {"exit", "failed"}

\* "Stream is displayed on the LCD correctly" (doc/FSL-UT-VPU-001.txt): a
\* picture in ipu_q reaches the IPU.
PictureReachesIpu ==
    \A b \in Bufs : (b \in Range(ipu_q)) ~> (b \notin Range(ipu_q))

=============================================================================

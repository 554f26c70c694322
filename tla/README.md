# Verification of the i.MX test drivers and the VPU unit test

The repository (`imx-linux-test`) is a collection of unit tests for i.MX boards.
Most of it is scripts and small programs that issue one driver call and compare
the result. Two parts carry logic of their own, and those this project models:

- the kernel modules of `src/module_test` that the tests talk to: the contiguous
  memory driver and the test drivers for the two security controllers and the
  random number generator, each used by several processes at once;
- `src/test/mxc_vpu_test`, a multi-threaded video player, recorder and streaming
  server (10 600 lines).

The modules here are TLA+ models of that code, checked by TLC on small instances.
For each of them the central safety results are also proved by TLAPS for every value of
the constants; section 4 says which, and under which conditions.

## 1. Inventory

Kernel modules (`src/module_test/`):

| Part | State it keeps | Operations | What is hard | What makes it correct |
|---|---|---|---|---|
| Memory driver (`memalloc.c`) | `heap_list`, `open_count`, the DMA buffers | open, release, mmap, three ioctls, init, cleanup | the list is protected by the big kernel lock, which sleeping drops; freeing at the last close; sizes near 2^32 | no buffer lost, freed twice or taken from a user |
| SCC driver (`scc_test_driver.c`) | major number, callback, use count; the controller's key slots | init ladder, open, release (also as mmap), twelve ioctls | slots change hands between two calls of one ioctl; failures overwritten by later results | success is true, memory is freed |
| SCC2 driver (`scc2_test_driver.c`) | `scc2_test_mutex`, registration; the partitions | the same | one mutex over handlers with many exits | the mutex is always released, cipher steps stay together |
| RNG driver (`rng_test_driver.c`) | one user context per open file, registration | open, release, four ioctls | a request sleeps for entropy with a context that a close frees | contexts outlive their calls, requests return, data is complete |
| SPDC driver, DryIce, key manager, SDMA tests | none between calls | forward to drivers outside the repository | | not modelled |

The video program (file names relative to `src/test/mxc_vpu_test/`):

| Part | State it keeps | Operations | What is hard | What makes it correct |
|---|---|---|---|---|
| Buffer-index queue (`vpu_test.h`) | `list`, `head`, `tail` | `queue_buf`, `dequeue_buf`, `queue_size`, `peek_next_buf` | producer and consumer in two threads, no lock | behaves as an atomic bounded FIFO |
| Decoder loop (`decoder_start`, `dec.c`) | `disp_clr_index`, `rotid`, `index`, `decodefinish`; the VPU's display flags | decode, hand to the display, clear the delayed flag | a buffer's index is kept over several rounds and released on different paths | no picture overwritten while shown, no buffer lost, enough left for the VPU |
| V4L2 display (`display.c`) | `queued_count`, `dequeued_count`, two semaphores, `released_q`, `v4l_mutex` | `v4l_put_data`, `v4l_get_buf`, `v4l_disp_loop_thread`, `v4l_display_close` | counters read without the mutex, timed waits against `quitflag`, failing ioctls | the two threads stay in step; both end |
| IPU display (`display.c`) | `ipu_q`, `tmp_idx`, `deinterlaced`, `stopping`, `ipu_running`, `ipu_waiting` | `ipu_put_data`, `ipu_disp_loop_thread`, `ipu_display_close` | a condition variable signalled without its mutex, plain flags shared by threads | flags cleared only behind the IPU; `disp` freed behind the thread |
| UDP transport (`utils.c`) | `seq_no`, `nlen`, `noffset`, `nbuf`, `complete` | `udp_send`, `udp_recv` | loss, reordering, repetition, 3 ms timeouts, packets split over calls | every accepted byte delivered once, in order; 0 only at the end |
| Bitstream ring (`dec_fill_bsbuffer`, `dec.c`) | the VPU's ring, its pointers, `eos`, `fill_end_bs` | get space, one or two reads, update | wrap-around, short reads, the VPU consuming meanwhile | nothing unread overwritten, order kept, the end marked where it is |
| Start-up, instances (`main.c`) | `quitflag`, the command lines, one thread per instance | `parse_config_file`, `signal_thread`, `main` | one global flag for all instances | an instance's end does not disturb the others |
| Session life cycle (`decode_test`, `encode_test`, `encdec_test`) | what has been allocated and opened | ladders of `goto` labels | failure half way up the ladder | everything acquired is released once |
| Encoder, capture (`enc.c`, `capture.c`, `fb.c`) | the frame pool, the encoder's ring, `read_idx` | `encoder_start`, `enc_readbs_ring_buffer`, `v4l_get_capture_data` | wrap-around, capture buffers against encoding | as for the decoder |
| Loopback, transcode (`loopback.c`, `transcode.c`) | the above, composed | | | |
| Android display (`android_display.cpp`) | two queues, two semaphores | | as for V4L2 | |
| Suite runner (`autorun.sh`, `test-utils.sh`) | the todo file | run, mark, resume | a crash or reboot between two marks | every test run and counted |
| Other tests | | forward one ioctl each | the state is in drivers outside the repository | not modelled |

How the parts meet: the decoder thread calls `dec_fill_bsbuffer`, which calls
`vpu_read`, which is `udp_recv` or a file read; it hands pictures to one of the
display back ends and gets buffer indices back from it; the display thread
shares a `buf_queue` with the decoder; `signal_thread` (and, in performance
mode, `v4l_display_close`) sets `quitflag`, which everybody polls. The kernel
modules do not call each other; their processes meet in the module's globals and
in the hardware behind it, which is external to the models.

`PROJECT.json` lists the hazards, each at its line with the properties aimed at
it.

## 2. The modules

| Module | Models |
|---|---|
| `BoundedFifo` | what callers expect of a `buf_queue` (abstract specification) |
| `BufQueue` | the `buf_queue` operations, one load or store per step |
| `VpuDecode` | decoder loop, V4L2 display, display thread, close |
| `VpuDecodeProofs` | its types, the lock-step of the two threads, who owns which buffer |
| `IpuDisplay` | decoder, IPU display thread, close |
| `IpuQueueProofs` | `BufQueue` implements `BoundedFifo`; the close and the display flags of `IpuDisplay` |
| `UdpStream`, `UdpStreamProofs` | sender, network, receiver |
| `BsRing`, `BsRingProofs` | `dec_fill_bsbuffer` and the VPU that consumes |
| `Memalloc`, `MemallocProofs` | the contiguous memory driver |
| `SccTestDriver`, `SccTestDriverProofs` | the driver for the Security Controller |
| `Scc2TestDriver`, `Scc2TestDriverProofs` | the driver for its successor |
| `RngTestDriver`, `RngTestDriverProofs` | the driver for the random number generator |
| `MC*` | small instances |

Operators behind a comment that begins with `Mutant:` are wrong
variants of the definition below them. No specification uses them; each is
there to show that a property notices the mistake.

### BufQueue

One producer (`ppc`) inside `queue_buf` and one consumer (`cpc`) inside
`dequeue_buf`. The full test with its read of `head`, the store into the slot
and the store to `tail` are separate steps, and likewise for the consumer.
`contents` is the refinement mapping: the slots from `head` on, `queue_size` of
them. `VpuDecode` and `IpuDisplay` use atomic queues without a bound, which this module
justifies: the queues are never full (`ReleasedQueueFits`, `QueueNeverFull`). *Assumption:* stores become visible in program order. For
`released_q` the semaphore between the threads guarantees that; for `ipu_q`
nothing in the code does.

### VpuDecode

`pc` is the decoder thread: `decode` (start a frame, wait, get the output
info), `outinfo` (the tests on `indexFrameDisplay`), `put`, `count`, `check`,
`dqbuf` (inside `v4l_put_data`), `get`, `released`, `pop`, `uncount` (inside
`v4l_get_buf`), `after` (flag clear, next `rotid`, loop end), `close`, `join`.
`dpc` is the display thread, one step for each access the decoder can observe.
`flagged` is the set of display flags in the VPU, `driver` the V4L2 queue, of
which the first `shown` have been displayed and may be dequeued.

External: the VPU reports any unflagged buffer, no picture, the end, or an
error; the driver shows queued buffers in order once streaming. Data left out:
pixels, fields, timestamps, statistics, the reports written to files. The
`frame_id >= count` and network-fill exits are a nondeterministic end of the
loop. An interlaced stream gets two more registered buffers, which is `ExtFb`
two larger. Not in the model: output to a file (`dst_scheme == PATH_FILE`),
deblocking on mx27, MJPG together with rotation, failures in `v4l_display_open`.

### IpuDisplay

`pc` is the decoder up to `free(disp)`, `ipc` the thread. `wait_queue` is four
steps (`wait`, `condwait`, `blocked`, `woken`): a signal counts only in
`blocked`. `held` is what the IPU reads: the last buffer it was given, or the
last two in three-field mode. The thread's test of `deinterlaced` before the
library call and the one after it are separate steps, because the decoder sets
and the close resets it between them. `ncount` stops at 3; every value from 3 on
is treated alike. `Faults` allows library failures and spurious wake-ups. The
history variable `late` says that the close looked at `ipu_running` before the
thread had set it; `FreedAfterThread` excepts that case, in which the code does free
`disp` under the thread.

`pp` is rotation, dering or tiled output, which `decoder_start` allows with this display
(dec.c:1746-1753). The decoder then hands over the rotation buffer `rotid` instead of
the decoded picture (`actual_display_index`, dec.c:1471-1480), delays the first one
(`pending` is its `disp_clr_index >= 0`), and shows the buffer once more at the end
(`DecodeLast`, `decodefinish`). The code that takes the next rotation buffer and clears
the flags of the decoded pictures (dec.c:1521-1558) is for V4L2 only, so `rotid` is a
constant here and the flags stay set; the thread tries to clear the flag of a rotation
buffer, which the VPU library (external) may refuse or ignore. MJPG, where no flags
are used, is not modelled.

### UdpStream

A byte is a pair of packet number and position, so order, loss and repetition of
bytes are visible; the history variable `stream` has the bytes of the accepted packets. `Call` is a call of `udp_recv` up to its loop, `Recv` one
turn of the loop with a packet, `Timeout` one without. `complete` is chosen for
each call, as the prescan path sets it for one call. `iframe` in the header is
always false, because no statement assigns `cmd->iframe`; `key` records whether
the piece really begins an I frame.

### BsRing

`FillBegin` asks for the space, `ReadFirst` and `ReadSecond` are the one or two
calls of `vpu_read`, `Update` tells the VPU; `Consume` interleaves with all of
them. A file gives all it has (`freadn`), the network any part of it, `-EAGAIN`, or,
once `quitflag` is set (`Quit`, at any moment), 0 although there is more, as `udp_recv`
does (utils.c:141-145, 209). `committed` and `consumed` are history.

### Memalloc

`pc` says where each file's handler is; `reg` holds `open_count` between the load
and the store of `++` and `--`. The kernel calls `memalloc_ioctl` with the big
kernel lock held and drops it where the handler sleeps (`kzalloc`,
`dma_alloc_coherent`): there, and nowhere else without `Preempt`, other handlers
run. Nothing in the repository says which kind of kernel the driver is meant for; both
are modelled, and every statement says for which it holds. With `Preempt` a handler can be interrupted between any two steps, except
that the lock keeps ioctls apart. `memalloc_free_buffers` is a step per entry for
the free and one for the removal from the list. `heap_list` is a set, since no
operation depends on its order. Sizes are words modulo `Word`, so `PAGE_ALIGN`
wraps as it does in 32 bits. `kobj` is what the init ladder has registered. `Cleanup`
waits for the files to be closed; the code does not ask for that (section 3, departures).

### SccTestDriver

Loading is three steps (`InitStatus`, `InitSetup`, `InitMonitor`), because each can
fail and the undo depends on where. Ioctls that make one controller call are one
step; `scc_test_load_slot` and `scc_test_encrypt_slot` are split between
`scc_get_slot_info` and the second call, and the cipher handler between its
allocations and the end. A slot has an owner and a key; the controller checks the
owner on every call and may fail. `scc_test_fops` names `scc_test_release` as its
mmap handler, so `Mmap` gives back a reference. `stale` is a file whose module is
gone. `lost` counts the key buffers that are never freed, bounded by `KernelMem`.

### Scc2TestDriver

`Lock` and `Unlock` are the two ends of `scc2_test_ioctl`, the handlers run between
them, a step for each copy, allocation and controller call that can sleep. Texts are
plain values, `Enc(v)`, or `Junk` for memory never written, so that encrypting is not
the identity. `res` records what the process was told and whether it was done; the
register commands count as done only if the struct got to the user, which their code does
not test.

### RngTestDriver

An open is two steps (allocate the context, register it); a request for random data
puts the thread into `rngq`, where the generator (external) serves words in turn.
`CountWords` is the rounding of bytes to words. A reply says which command it is `by`
and whether the command was `done`; adding entropy is never done, since the user's bytes are
not copied. `dead` is a thread that the kernel
killed because `data_buffer` was NULL. `Counts` has naturals only: `count_bytes` is a
signed int, and a negative request is not modelled. Memory is taken to come in multiples of the
word, so the bytes that the last word writes behind `data_buffer` are not either. Release needs that no call runs on the file,
which the kernel guarantees.

## 3. The runs

| Run | Instance | Distinct states | Result |
|---|---|---|---|
| `bufqueue` | 4 slots, 3 values | 39 811 | holds |
| `vpudecode` | `MinFb` 2, `ExtFb` 2, all modes, fair | 816 421 | holds |
| `ipudisplay` | 4 buffers, all streams, with and without post processing, faults | 3 381 691 | holds |
| `ipudisplay_rot` | 4 buffers, post processing, no faults | | `NoOverwriteOnDisplay` violated |
| `ipudisplay_lost` | 4 buffers, no faults, fair | | `PictureReachesIpu` violated |
| `udpstream` | 3 packets of 1-2 bytes, requests of 1-2 | 609 222 | holds |
| `bsring` | ring of 8, blocks of 2, fills of 4, up to 12 bytes, quit | 117 755 | holds |
| `memalloc` | 2 files, 2 buffers, 3 entries, no preemption | 11 293 | holds |
| `scctestdriver` | 2 processes, 2 slots, 2 owner ids | 36 896 | holds |
| `scctestdriver_init` | the same | | `FailedInitUndone` violated |
| `scc2testdriver` | 2 processes, 1 partition, 2 values | 172 587 | holds |
| `rngtestdriver` | 2 files, 2 threads, 2 contexts, requests of 0, 4, 5 bytes | 176 280 | holds |

The runs check what takes several steps of several actors to go wrong. Other facts are proved
for every instance (section 4) and not model-checked again: the type invariants (except that
of `IpuDisplay`), `RoomReserved` and `FrontStable` of `BufQueue`, `PopFindsBuffer`,
`ReleasedFits` and `VpuBufferBudget` of `VpuDecode`, `LossKeepsPrefix` of `UdpStream`,
`BufferCoversRequest` of `Memalloc`, `BuffersFreed` of `RngTestDriver` and
`UnloadedIsUnregistered` of the three drivers that have it.

**What the passing runs show.** In `VpuDecode`: a buffer is never queued to the
driver twice (`NeverQueuedTwice`), the VPU cannot write one that is shown
(`NoOverwriteOnDisplay`), and a flagged buffer can always be traced to who will
release it (`NoBufferLost`). The handshake
is in lock-step (`LockStep`; that `v4l_get_buf` finds a buffer and `released_q` has
room is proved from it). Pictures are delivered and both threads end, on a quit and at the
end of the stream. Runs after a
failed `VIDIOC_DQBUF` in the display thread are excepted from the ownership
properties: the code then releases a stale index. In `IpuDisplay`: in steady playback
(`Steady`: no post processing, and a stream that is interlaced throughout or not at all) the
same ownership, by a thread that clears flags one or two pictures late
(`SteadyNoOverwrite`, `SteadyNoBufferLost`); in every playback `disp` is freed behind a
thread that had begun when the close looked (`FreedAfterThread`). In `UdpStream`: bytes of
accepted packets are neither lost nor repeated by the splitting, the receiver never goes
back, and 0 means the end. In `BsRing`: a fill never overwrites what is unread, order is
kept, the end is marked only where the source has no more or, on the network, the user has
quit, and a file is consumed to its last byte unless it ends exactly at the end of the ring.

In `Memalloc`, on a kernel without preemption: every DMA buffer is on the list or
in the hands of one handler (`EveryBufferRemembered`), a mapping shows only allocated
memory, and unloading leaves nothing. In `SccTestDriver`: success is true except for a
`load_slot` that could not read the key, the cipher's areas are freed, and a file keeps the
module loaded unless mmap was called. In `Scc2TestDriver`: one process at a time, the mutex
released on every path, success true except for a register command whose answer could not
be copied, the buffer a call leaves matches the partition. In `RngTestDriver`: the context of a
sleeping request stays registered, all bytes of a successful `get_random` are random, and
every request returns; about the success of `add_entropy` nothing is claimed.

**What the violations show.** (1) `ipudisplay_lost`: the wake-up of the IPU thread can be
lost (display.c:88); the last picture stays in the queue and the close spins. (2)
`ipudisplay_rot`: with rotation, dering or tiled output and the IPU display one rotation
buffer is used for every picture (dec.c:1471-1480, 1500, 1521-1558), so the VPU writes the
picture that was just handed to the display. (3) `scctestdriver_init`: `scc_test_init`
registers its alarm callback whatever happened before and nothing takes it back, so after a
failed insmod the controller points into a module that is gone.

**Other departures met while modelling.** These are in the models, the properties above
except them where that is said, and the constants that show them are given.

- The comment at dec.c:2245-2257 counts one delayed dequeue and one delayed flag clear, the
  two extra buffers, and so leaves `minFrameBufferCount` to the VPU. The code delays `ExtFb`
  dequeues and one clear: `ExtFb + 1` buffers may be withheld and `MinFb - 1` left. That is
  what `VpuBufferBudget` says and `BudgetKept` proves; with `ExtFb` in its place the formula
  is violated.
- `tmp_idx` in `ipu_disp_loop_thread` is used in three-field mode although it was
  filled only in that mode: a stream that turns interlaced later has the wrong flag
  cleared (`MCIpuDisplay` with `Streams <- AllStreams` and `PostProc = {FALSE}` violates
  `NoOverwriteOnDisplay`).
- utils.c:184 says "read till we get an I frame". No packet is ever marked as one, so after
  one lost packet the receiver drops everything: `MCUdpStream` with `LossyOnly` violates
  `IFrameEndsGap`, and `LossKeepsPrefix`, which is proved, says that nothing behind the
  loss is accepted. The expected number also advances on dropped packets, so
  reordering can resynchronise in the middle of a picture (`Reordering`, five
  packets, `GapEndsAtIFrame`).
- A file that ends exactly at the end of the ring loses its last piece
  (`MCBsRing`, `EndMarkAfterAllBytes`; `ReachesEnd` excepts that length), and so does the
  first piece of a wrapping network fill whose second read finds nothing (`NothingSkipped`).
- With `Preempt = TRUE` the counting of open files and the heap list of `Memalloc` are
  not safe: `EveryBufferRemembered`, `LastCloseTakesNothingAway`, `LastCloseFreesAll`
  and `MapsLiveBuffer` are violated.
- The register commands of the SCC2 driver ignore the result of the copy to the user
  (scc2_test_driver.c:361, 402), although their headers (lines 334, 375) promise "0 for
  success, an error code on failure". `SuccessIsReal` excepts that case (`RegisterNotGiven`).
- `rng_test_add_entropy` adds a buffer into which nothing was copied (rng_test_driver.c:284),
  although its header (264-266) says "add @c randomness to the RNG" and
  include/rng_test_driver.h:110 "Location of entropy add to RNG"; `SuccessIsReal` excepts the command. In
  `get_random` the copy of the data replaces the result of the copy of the struct
  (rng_test_driver.c:246), so 0 may be returned with an old code in the struct.
- `scc_test_load_slot` returns success when it could not read the key (excepted by
  `SuccessIsReal`); `key_data` is never freed; `scc_test_mmap` is never used. `memalloc`'s
  entry is lost when the DMA allocation fails.
- Hazards that are modelled but that no statement of the repository speaks of, so that
  there is no property: `quitflag` may end the wait in `v4l_get_buf` (display.c:942)
  without a buffer; with `complete` set a lost end packet leaves `udp_recv` (utils.c:148)
  waiting until a quit; FREEBUFFER (memalloc.c:155) leaves mappings of other processes
  behind; a partition is lost when the reply of ALLOC_PART (scc2_test_driver.c:423) cannot
  be copied.
- Outside the models: `memalloc_fops` has no owner (memalloc.c:202), so the kernel would
  unload the module under an open file; `autorun.sh:74` leaves a test that reboots the
  board at START, and only TODO lines are run afterwards.

**Bounds.** *BufQueue:* four slots wrap several times in each behaviour; the
proof covers every size. *VpuDecode:* `ExtFb` 2 is the program's default; two
minimum buffers are the least with which the pipeline is full and the VPU still
has a choice; semaphores and counters are bounded by the protocol itself, no
constraint is used, and the handshake is proved for every number of buffers. *IpuDisplay:*
three-field mode holds two buffers, one is in the thread's hand and one is left to
decode; with post processing the same four are decoded into and never given back. *UdpStream:* a packet can fit a call, fill two or be split; three packets
give a gap and what follows it, five are needed for the reordering that
resynchronises. *BsRing:* the stream is longer than the ring and ends before, at
and behind its end; a quit may come at any step. *Memalloc:* two files make every pair of handlers meet, the third
entry is the one a failing allocation loses; `Word` 8 with `PageSize` 2 makes the
largest size wrap. *SccTestDriver:* two processes and two owner ids, so that a slot can
change hands under a call; two key buffers, so that the allocation fails in the end;
one mmap. *Scc2TestDriver:* one partition, which both processes want; two values, so
that a text of the wrong content is seen. *RngTestDriver:* two threads may share a file
or use two; 5 bytes need two words and the generator holds one. All four are proved
for every value of these constants.

**Deadlock** is checked in `bufqueue`, in `vpudecode` (where a finished run may
stutter) and in all runs of the kernel drivers. It is off in the others: there the close may spin on a dead
thread or the receiver has reached the end, and the model simply stops.

**Fairness.** *VpuDecode:* weak fairness of each thread's steps (POSIX threads
are scheduled; a timed wait returns, if only by timeout) without the failing
ioctls, which need not happen; and the driver shows a buffer when another one is
queued behind it - the last one it may keep. *IpuDisplay:* weak fairness of both
threads. *UdpStream:* the sender ends the stream, the decoder keeps calling, and a
packet that stays available is received (strong fairness of `Recv`, because a
timeout between two calls disables it for a moment). *BsRing:* weak fairness of
every step of the fill and of the VPU; a quit need not happen. *Scc2TestDriver:* weak fairness of the handlers' steps and
strong fairness of taking the mutex, whose waiters the kernel serves in turn.
*RngTestDriver:* weak fairness of the handlers, of the generator's refill and of
serving the request at the head of its queue; opening and closing files need not
happen.

## 4. The proofs

*IpuQueueProofs, the queue.* Assumes `QueueAssumption`: at least one slot, indices are
naturals. `QueueInvariant` proves the inductive invariant `QueueInv`: types; a producer
past its full test still has room (the consumer can only make more);
the slot is written before `tail` passes it; what the consumer read is still the
front. `QueueImplementsFifo` proves the refinement: `PutAdvance` is the atomic
put, `GetAdvance` the atomic get, every other step a stutter or a failing
operation. The invariant is needed because at `PutAdvance` the mapping appends
`list[tail]`, which must be the argument, and at `GetAdvance` it drops the front,
which must be what was read.

*IpuQueueProofs, the display.* Assumes `IpuAssumption`: at least one buffer, and every
stream has pictures. Three invariants build on each other; all of them include the
playback with post processing.

- `ThreadInv` (types; `ipu_running` against the thread's position; `index` is a picture
  while one is shown; the IPU holds a buffer once one was shown) gives `DisplayTypes`.
- `CloseInv` says what the close knows of a thread that had begun when it looked: in
  front of the join the queue is empty, behind it the thread has returned. It gives
  `FreedLast`. Both invariants hold for every stream.
- `OwnInv` is about playback without post processing of a stream that does not change
  (`Steady`, a condition on the state that the properties themselves state; for other
  playback they are false, see section 3). `FieldKnown`: whenever the thread has a
  picture, `deinterlaced` already has the stream's value, so the three tests the thread
  makes per picture agree. `Window`: what the IPU reads, told from `index`,
  `disp_clr_index` or `tmp_idx`, for one buffer (`OneHeld`) or two (`TwoHeld`) and
  each value of `ncount`. `FlagInv`: no buffer is in two of the places given, queued,
  in hand, read, due; the flags are those of the buffers in these places. `Window` is
  needed where the thread clears a flag: it must be that of the picture due, which is
  known only from what `tmp_idx` held two pictures ago. `OwnInv` was checked by TLC with
  up to five buffers before it was proved. `ShownNotOverwritten`, `NoFlagLeaked` and
  `QueueNeverFull` follow; the last one by counting: `ipu_q` repeats no buffer.

*VpuDecodeProofs.* Assumes `FbAssumption`: at least one buffer for the VPU and one
extra. (`VPU_EXTENDED_BUFFER_COUNT=0` makes the code dequeue before streaming
is on.) `TypeCorrect` needs that only a reported picture is displayed, so that the
index handed to the driver is never negative. `HandshakeInLockStep` proves
`LockStep`, which is inductive relative to the types:
`CountsReleased` ties `dequeued_count` to the length of `released_q`;
`UnitsConserved` says that semaphore units, queued buffers and the one in flight
add up to `ExtFb`, plus one in the middle of a round; `OneRequest` says a request
is made only when no unit is left and is answered before the decoder goes on. The
reads without the mutex are harmless because of the last part: while the decoder
tests `queued_count` or `dequeued_count`, the display thread has no request and
changes neither. `PopAlwaysFindsBuffer` and `ReleasedQueueFits` follow.

The ownership of the buffers is `OwnerInv`, inductive relative to the types and
`LockStep`. `CountsQueued` ties `queued_count` to the length of the driver's queue and
bounds what is away from the VPU. In plain mode (`PlainOwner`) the flagged buffers are
exactly those in one of six places (reported, driver, display thread, `released_q`,
dequeued, delayed), and the places are disjoint. In post-processing mode (`PpOwner`) the
flags belong to the VPU's pictures and the driver holds rotation buffers; `rotid` must not
be one of them, which holds because it is either the buffer just dequeued or, in the
warm-up, the next one never used. In MJPG mode (`MjpgOwner`) the driver holds the last
buffers of a round robin, and it is shorter than the round. `DriverHoldsOnce`,
`ShownIsProtected` and `FlagsAccountedFor` follow. `BudgetKept` counts the places with
the theorems on finite sets; the bound it gives, `ExtFb + 1`, is that of the code and not
that of the comment (section 3).

*UdpStreamProofs.* Assumes `UdpAssumption`: sizes are positive. The invariant has the
types; the shape of a call (`CallOK`: no rest in `nbuf` inside a call, and between calls
the rest lies inside the packet); `Order` (everything accepted is below the expected
number); `LossInv`, for a network that only loses: the packets in flight ascend and begin
at the expected number until one is dropped, and from then on all of them are beyond
it, because the expected number grows by one while the packets' numbers grow by at
least one; and `SoundInv`: a sound network holds exactly what was sent and not received.
From it follow `TypeOK`, `NeverGoesBack`, `EndMeansAll` and `LossKeepsPrefix`; the last
says what the code does with a loss, and not what its comment promises (section 3).
`StreamInv` adds the bytes: what was returned, what the call has copied so far and the rest
in `nbuf` are, put together, `stream`. A call moves the cut between these three and an
accepted packet extends the end by its bytes, split at the caller's request;
`EveryByteCopiedOnce` follows. `stream` is a variable and not a function of the list of
accepted packets because what a recursive definition computes cannot be proved here.

*BsRingProofs.* Assumes `RingAssumption`. The remainders are first replaced by a
comparison and a subtraction (`Occ`, `At`). The invariant says that a fill in progress
fits the free space (`FillInv`; the VPU only makes more), that the ring holds what was
committed and not consumed (`FifoInv`), that behind the write pointer lie the last bytes
read, in order (`PendingInv`), and, from a file, that nothing read is neither committed
nor pending before the end (`FileInv`). `EndInv` says that the end is marked, or about to be,
only where a read may give 0 (`AtEnd`): nothing is left, or the source is the network and
`quitflag` is set; a quit cannot undo either. `TypeOK`, `RingIsFifo`, `StreamInOrder` and
`EndMarkIsTrue` follow.

*MemallocProofs.* Assumes `MemallocAssumption`. `TypeCorrect` holds for both kinds of kernel.
The others are about a kernel that changes handlers only where one sleeps (`~Preempt`):
there at most one handler is awake, so `open_count` is the number of opened files and a
value loaded by `++` or `--` is still current when it is stored. Then the heap: entries and
buffers correspond one to one, except for the entry whose buffer was just freed. With
`Preempt` the counting fails, and `BuffersRemembered` and `MapsAreLive` with it (section 3).

*SccTestDriverProofs.* The life cycle of the registration, the naming of a slot by a
handler between its two controller calls, and the use count (equal to the number of
open files as long as nobody called mmap), together with the properties themselves.

*Scc2TestDriverProofs.* Mutual exclusion is part of the types. `BlackIsCurrent` says that
between the steps of a cipher call the DMA memory agrees with the partition; it is
inductive because only the holder of the mutex changes either.

*RngTestDriverProofs.* Contexts are not shared (`CtxInv`), a call that uses the generator
belongs to an open file (`CallCtxInv`), the queue holds sleeping threads once each and an
answer has all its words (`QueueInv`), with `(n + 3) / 4` words covering `n` bytes.

*Only model-checked:* liveness under fairness, which is outside the prover's reach
(`QuitCompletes`, `PictureDelivered`, `EndOfStreamStops`, the two `ReachesEnd`,
`EveryIoctlReturns`, `GetRandomReturns`). Every invariant, action property and refinement
that a passing run checks is proved.

## 5. Plan

Done: the queue, the decoder with both display back ends, the UDP transport, the ring
buffer, and the four kernel drivers. What would come next, in this order:

1. `VpuMain`: instances of `main.c`, one thread each, the global `quitflag` and
   `vpu_v4l_performance_test`; the end of one instance in performance mode stops
   the others. Composes an abstract instance.
2. `DecodeSession`: the acquisition ladder of `decode_test` and its `goto` labels,
   with a failure at every rung; then `encode_test` and `encdec_test`.
3. `EncRing` and `Encoder`: `enc_readbs_ring_buffer`, `encoder_start`, capture;
   `UdpStream`'s sender becomes its output; then `Transcode` and `Loopback`.
4. `AndroidDisplay`; the MJPG chunk reader and `swapCropRect` as operators against
   reference definitions; `AutorunTodo` (the todo file over a reboot).
5. Proofs, for the modules above as they come: the ladder of `DecodeSession` releases
   each resource once; the encoder's ring as for `BsRing`.

## 6. Not modelled

The VPU, IPU and V4L2 libraries and drivers are outside the repository and appear
as environment. Left out of `mxc_vpu_test` for good: register and quantisation
tables, command-line parsing, pixel copies, statistics, the VTS probe interface.
Of `module_test`: the SPDC driver keeps nothing between two calls (each ioctl copies
its argument, calls the display controller's driver and copies the answer), and the
DryIce, key manager and SDMA modules are straight-line sequences of calls into drivers
outside the repository. `include/dptc_daemon.h` declares a daemon that is not in the
repository. The other tests (EPDC, PxP, audio, CAN, I2C, security engines and so on) keep
no state of their own beyond a driver call, and the memtool and image sources are data.

## 7. Running

    tlc -workers 2 -config MCVpuDecode.cfg MCVpuDecode     # one run
    tlapm VpuDecodeProofs.tla                              # the proofs

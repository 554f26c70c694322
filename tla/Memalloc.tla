------------------------------ MODULE Memalloc ------------------------------
(***************************************************************************)
(* The contiguous-memory driver module_test/memalloc.c: processes that     *)
(* have /dev/memalloc open allocate, map and free DMA buffers, which the   *)
(* driver keeps on heap_list and frees at the last close.                  *)
(*                                                                         *)
(* The processor is single core.  The kernel calls memalloc_ioctl with the *)
(* big kernel lock held and drops it while the handler sleeps in kzalloc   *)
(* or dma_alloc_coherent; open, release and mmap run without it.  mem_lock *)
(* is taken by mmap only, so what it gives is that mmap is not preempted.  *)
(* Without kernel preemption a handler runs until it sleeps or returns;    *)
(* with it, handlers interleave at every step.  Nothing in the repository  *)
(* says for which of the two the driver was written; what it keeps is      *)
(* stated for the first.                                                   *)
(*                                                                         *)
(* Abstracted: heap_list is a set (physical addresses of live buffers      *)
(* differ, so no operation depends on the order of the list) and an entry  *)
(* that FindEntryByBus does not find returns -EINVAL, which changes        *)
(* nothing and is no step.  Sizes are small numbers modulo Word, for 2^32. *)
(***************************************************************************)
EXTENDS Integers, FiniteSets

CONSTANTS Files,      \* open files, each used by a process of its own
          Bufs,       \* physical addresses of DMA buffers
          Entries,    \* kernel objects of type struct allocation
          NoEntry,
          Sizes,      \* sizes a process asks for or maps
          PageSize, Word,
          Preempt     \* the kernel is preemptible

ASSUME MemallocAssumption ==
    /\ IsFiniteSet(Files)
    /\ NoEntry \notin Entries
    /\ 0 \notin Bufs
    /\ PageSize \in Nat \ {0}
    /\ Word \in Nat \ {0}
    /\ Sizes \subseteq 0 .. Word - 1
    /\ Preempt \in BOOLEAN

VARIABLES
    mpc, kobj,        \* module: where loading is; what it has registered
    open_count,
    heap_list,        \* entries on the list
    kmem, ent,        \* entries that are allocated; their fields
    dma,              \* size of every buffer; 0 when it is not allocated
    pc, cur, want,    \* per file: the handler running, its locals
    reg,              \* per file: open_count as loaded by ++ and --
    maps              \* <<f, b, n>>: n bytes of b are mapped through file f

modVars  == <<mpc, kobj>>
heapVars == <<heap_list, kmem, ent, dma>>
locVars  == <<cur, want, reg>>
vars == <<modVars, open_count, heapVars, pc, locVars, maps>>

\* PAGE_ALIGN of an unsigned word.
PageAlign(n) == LET m == (n + PageSize - 1) % Word IN m - (m % PageSize)

\* The fields of an entry; asked is what the process asked for.
Zeroed == [phys |-> 0, size |-> 0, asked |-> 0]

Init ==
    /\ mpc = "out"
    /\ kobj = {}
    /\ open_count = 0
    /\ heap_list = {}
    /\ kmem = {}
    /\ ent = [e \in Entries |-> Zeroed]
    /\ dma = [b \in Bufs |-> 0]
    /\ pc = [f \in Files |-> "closed"]
    /\ cur = [f \in Files |-> NoEntry]
    /\ want = [f \in Files |-> 0]
    /\ reg = [f \in Files |-> 0]
    /\ maps = {}

-----------------------------------------------------------------------------
(* Scheduling.                                                             *)

\* Nothing runs for the file, or its handler sleeps.
Asleep == {"closed", "idle", "kzalloc", "dma"}

\* Inside memalloc_ioctl, awake, hence with the big kernel lock.
Locked == {"add", "unlink", "free", "reset", "resetdel"}

Runs(f) == Preempt \/ \A g \in Files \ {f} : pc[g] \in Asleep

LockFree(f) == \A g \in Files \ {f} : pc[g] \notin Locked

At(f, l) == pc[f] = l /\ Runs(f)

Goto(f, l) == pc' = [pc EXCEPT ![f] = l]

\* The handler ends: its locals are gone.
Return(f, l) ==
    /\ pc' = [pc EXCEPT ![f] = l]
    /\ cur' = [cur EXCEPT ![f] = NoEntry]
    /\ want' = [want EXCEPT ![f] = 0]
    /\ reg' = [reg EXCEPT ![f] = 0]


-----------------------------------------------------------------------------
(* memalloc_open, memalloc_release: open_count is loaded, then stored.     *)

OpenLoad(f) ==
    /\ At(f, "closed")
    /\ "device" \in kobj
    /\ reg' = [reg EXCEPT ![f] = open_count]
    /\ Goto(f, "open")
    /\ UNCHANGED <<modVars, open_count, heapVars, cur, want, maps>>

OpenStore(f) ==
    /\ At(f, "open")
    /\ open_count' = reg[f] + 1
    /\ Return(f, "idle")
    /\ UNCHANGED <<modVars, heapVars, maps>>

\* A mapping holds its file: the kernel calls release after the last munmap.
ReleaseLoad(f) ==
    /\ At(f, "idle")
    /\ \A m \in maps : m[1] # f
    /\ reg' = [reg EXCEPT ![f] = open_count - 1]
    /\ Goto(f, "release")
    /\ UNCHANGED <<modVars, open_count, heapVars, cur, want, maps>>

ReleaseStore(f) ==
    /\ At(f, "release")
    /\ open_count' = reg[f]
    /\ Return(f, IF reg[f] = 0 THEN "last" ELSE "closed")
    /\ UNCHANGED <<modVars, heapVars, maps>>

-----------------------------------------------------------------------------
(* MEMALLOC_IOCXGETBUFFER: AllocMemory.                                    *)

GetBuffer(f, n) ==
    /\ At(f, "idle")
    /\ LockFree(f)
    /\ want' = [want EXCEPT ![f] = n]
    /\ Goto(f, "kzalloc")
    /\ UNCHANGED <<modVars, open_count, heapVars, cur, reg, maps>>

AllocEntry(f) ==
    /\ At(f, "kzalloc")
    /\ LockFree(f)
    /\ \E e \in Entries \ kmem :
           /\ kmem' = kmem \cup {e}
           /\ cur' = [cur EXCEPT ![f] = e]
    /\ Goto(f, "dma")
    /\ UNCHANGED <<modVars, open_count, heap_list, ent, dma, want, reg, maps>>

AllocEntryFail(f) ==
    /\ At(f, "kzalloc")
    /\ LockFree(f)
    /\ Return(f, "idle")
    /\ UNCHANGED <<modVars, open_count, heapVars, maps>>

Allocated == {b \in Bufs : dma[b] # 0}

\* The allocator has no buffer of size 0.
AllocBuffer(f) ==
    /\ At(f, "dma")
    /\ LockFree(f)
    /\ PageAlign(want[f]) # 0
    /\ \E b \in Bufs \ Allocated :
           /\ dma' = [dma EXCEPT ![b] = PageAlign(want[f])]
           /\ ent' = [ent EXCEPT ![cur[f]] =
                         [phys |-> b, size |-> PageAlign(want[f]), asked |-> want[f]]]
    /\ Goto(f, "add")
    /\ UNCHANGED <<modVars, open_count, heap_list, kmem, locVars, maps>>

\* -ENOMEM without kfree: the entry stays allocated and is on no list.
AllocBufferFail(f) ==
    /\ At(f, "dma")
    /\ LockFree(f)
    /\ Return(f, "idle")
    /\ UNCHANGED <<modVars, open_count, heapVars, maps>>

\* Mutant: the buffer is not put on the list.
AddEntryForgotten(f) ==
    /\ At(f, "add")
    /\ Return(f, "idle")
    /\ UNCHANGED <<modVars, open_count, heapVars, maps>>

AddEntry(f) ==
    /\ At(f, "add")
    /\ heap_list' = heap_list \cup {cur[f]}
    /\ Return(f, "idle")
    /\ UNCHANGED <<modVars, open_count, kmem, ent, dma, maps>>

-----------------------------------------------------------------------------
(* MEMALLOC_IOCSFREEBUFFER: FreeMemory.                                    *)

kfree(e) == kmem' = kmem \ {e} /\ ent' = [ent EXCEPT ![e] = Zeroed]

FindEntryByBus(b) == {e \in heap_list : ent[e].phys = b}

FreeBuffer(f, b) ==
    /\ At(f, "idle")
    /\ LockFree(f)
    /\ \E e \in FindEntryByBus(b) : cur' = [cur EXCEPT ![f] = e]
    /\ Goto(f, "unlink")
    /\ UNCHANGED <<modVars, open_count, heapVars, want, reg, maps>>

Unlink(f) ==
    /\ At(f, "unlink")
    /\ heap_list' = heap_list \ {cur[f]}
    /\ Goto(f, "free")
    /\ UNCHANGED <<modVars, open_count, kmem, ent, dma, locVars, maps>>

FreeEntry(f) ==
    /\ At(f, "free")
    /\ dma' = [dma EXCEPT ![ent[cur[f]].phys] = 0]
    /\ kfree(cur[f])
    /\ Return(f, "idle")
    /\ UNCHANGED <<modVars, open_count, heap_list, maps>>

-----------------------------------------------------------------------------
(* memalloc_free_buffers: the buffer is freed before it leaves the list.   *)
(* Called by MEMALLOC_IOCHARDRESET ("reset") and the last close ("last").  *)

HardReset(f) ==
    /\ At(f, "idle")
    /\ LockFree(f)
    /\ Goto(f, "reset")
    /\ UNCHANGED <<modVars, open_count, heapVars, locVars, maps>>

FreeBuffersHead(f) ==
    /\ pc[f] \in {"reset", "last"}
    /\ Runs(f)
    /\ \E e \in heap_list :
           /\ dma' = [dma EXCEPT ![ent[e].phys] = 0]
           /\ cur' = [cur EXCEPT ![f] = e]
    /\ Goto(f, IF pc[f] = "reset" THEN "resetdel" ELSE "lastdel")
    /\ UNCHANGED <<modVars, open_count, heap_list, kmem, ent, want, reg, maps>>

FreeBuffersDel(f) ==
    /\ pc[f] \in {"resetdel", "lastdel"}
    /\ Runs(f)
    /\ heap_list' = heap_list \ {cur[f]}
    /\ kfree(cur[f])
    /\ Return(f, IF pc[f] = "resetdel" THEN "reset" ELSE "last")
    /\ UNCHANGED <<modVars, open_count, dma, maps>>

FreeBuffersDone(f) ==
    /\ pc[f] \in {"reset", "last"}
    /\ Runs(f)
    /\ heap_list = {}
    /\ Return(f, IF pc[f] = "reset" THEN "idle" ELSE "closed")
    /\ UNCHANGED <<modVars, open_count, heapVars, maps>>

-----------------------------------------------------------------------------
(* memalloc_mmap, MapBuffer: under mem_lock, hence one step.               *)

\* Mutant: the size is not compared.
MmapAnySize(f, b, n) ==
    /\ At(f, "idle")
    /\ FindEntryByBus(b) # {}
    /\ maps' = maps \cup {<<f, b, n>>}
    /\ UNCHANGED <<modVars, open_count, heapVars, pc, locVars>>

Mmap(f, b, n) ==
    /\ At(f, "idle")
    /\ \E e \in FindEntryByBus(b) : n = ent[e].size
    /\ maps' = maps \cup {<<f, b, n>>}
    /\ UNCHANGED <<modVars, open_count, heapVars, pc, locVars>>

Munmap(f) ==
    /\ At(f, "idle")
    /\ \E m \in maps : m[1] = f /\ maps' = maps \ {m}
    /\ UNCHANGED <<modVars, open_count, heapVars, pc, locVars>>

-----------------------------------------------------------------------------
(* memalloc_init and its error ladder; memalloc_cleanup.                   *)

LoadStep(from, to, k) ==
    /\ mpc = from
    /\ mpc' = to
    /\ kobj' = k
    /\ UNCHANGED <<open_count, heapVars, pc, locVars, maps>>

\* register_chrdev; a failure returns -EIO with nothing registered.
LoadChrdev == LoadStep("out", "class", kobj \cup {"chrdev"})

LoadClass ==
    \/ LoadStep("class", "device", kobj \cup {"class"})
    \/ LoadStep("class", "error1", kobj)

LoadDevice ==
    \/ LoadStep("device", "up", kobj \cup {"device"})
    \/ LoadStep("device", "error2", kobj)

\* Mutant: the ladder is entered one rung too low.
LoadError2Skipped == LoadStep("error2", "error1", kobj)

LoadError2 == LoadStep("error2", "error1", kobj \ {"class"})

LoadError1 == LoadStep("error1", "out", kobj \ {"chrdev"})

\* memalloc_fops has no owner, so the kernel does not count open files as
\* users of the module: that nobody has the device open is up to the user.
Cleanup ==
    /\ mpc = "up"
    /\ \A f \in Files : pc[f] = "closed"
    /\ mpc' = "out"
    /\ kobj' = kobj \ {"device", "class", "chrdev"}
    /\ dma' = [b \in Bufs |-> IF FindEntryByBus(b) # {} THEN 0 ELSE dma[b]]
    /\ kmem' = kmem \ heap_list
    /\ ent' = [e \in Entries |-> IF e \in heap_list THEN Zeroed ELSE ent[e]]
    /\ heap_list' = {}
    /\ UNCHANGED <<open_count, pc, locVars, maps>>

-----------------------------------------------------------------------------

FileNext(f) ==
    \/ OpenLoad(f)    \/ OpenStore(f)
    \/ ReleaseLoad(f) \/ ReleaseStore(f)
    \/ \E n \in Sizes : GetBuffer(f, n)
    \/ AllocEntry(f)  \/ AllocEntryFail(f)
    \/ AllocBuffer(f) \/ AllocBufferFail(f)
    \/ AddEntry(f)
    \/ \E b \in Bufs : FreeBuffer(f, b)
    \/ Unlink(f)      \/ FreeEntry(f)
    \/ HardReset(f)
    \/ FreeBuffersHead(f) \/ FreeBuffersDel(f) \/ FreeBuffersDone(f)
    \/ \E b \in Bufs, n \in Sizes : Mmap(f, b, n)
    \/ Munmap(f)

ModuleNext ==
    \/ LoadChrdev \/ LoadClass \/ LoadDevice
    \/ LoadError2 \/ LoadError1
    \/ Cleanup

Next == ModuleNext \/ \E f \in Files : FileNext(f)

Spec == Init /\ [][Next]_vars

-----------------------------------------------------------------------------
(* Properties.                                                             *)

\* Every variable has its type.
TypeOK ==
    /\ mpc \in {"out", "class", "device", "up", "error1", "error2"}
    /\ kobj \subseteq {"chrdev", "class", "device"}
    /\ open_count \in Int
    /\ heap_list \subseteq Entries
    /\ kmem \subseteq Entries
    /\ ent \in [Entries -> [phys : Bufs \cup {0}, size : Nat, asked : Nat]]
    /\ dma \in [Bufs -> Nat]
    /\ pc \in [Files -> Asleep \cup Locked
                        \cup {"open", "release", "last", "lastdel"}]
    /\ cur \in [Files -> Entries \cup {NoEntry}]
    /\ want \in [Files -> Nat]
    /\ reg \in [Files -> Int]
    /\ maps \subseteq Files \X Bufs \X Nat

\* A file that holds entry e outside the list, with its buffer.
Holds(f, e) == cur[f] = e /\ pc[f] \in {"add", "free"}

\* The entries whose buffer memalloc_free_buffers has just freed.
BeingFreed ==
    {cur[f] : f \in {g \in Files : pc[g] \in {"resetdel", "lastdel"}}}

\* "All the must remember stuff" (struct allocation): a DMA buffer is
\* allocated exactly when one entry for it is on heap_list or in the hands of
\* AllocMemory or FreeMemory, also when several processes allocate, free and
\* reset at once and sleep in their allocations.  So no buffer is lost and
\* none is freed twice.  (Not with Preempt: the last close, which does not
\* have the big kernel lock, then interleaves with an ioctl.)
EveryBufferRemembered ==
    /\ \A b \in Allocated : \E e \in kmem :
           /\ ent[e].phys = b
           /\ e \in heap_list \/ \E f \in Files : Holds(f, e)
    /\ \A e \in heap_list \ BeingFreed : e \in kmem /\ ent[e].phys \in Allocated
    /\ \A e1, e2 \in heap_list : ent[e1].phys = ent[e2].phys => e1 = e2

\* When memalloc_release decides that this was the last close, no file is
\* open and no buffer is mapped any more: freeing them all takes none away
\* from a process that still uses it.  Part of the invariant for a kernel
\* without preemption; a preempted open_count++ loses an update.
LastCloseTakesNothingAway ==
    \A f \in Files : pc[f] \in {"last", "lastdel"} =>
        /\ maps = {}
        /\ \A g \in Files \ {f} : pc[g] = "closed"

\* memalloc_release: once all files are closed no buffer stays allocated,
\* on a kernel without preemption.
LastCloseFreesAll ==
    (\A f \in Files : pc[f] = "closed") => heap_list = {} /\ Allocated = {}

\* AllocMemory: a buffer is never smaller than what the process asked for,
\* up to the largest size, for which PAGE_ALIGN wraps to 0.
BufferCoversRequest ==
    \A e \in heap_list \ BeingFreed :
        ent[e].asked <= ent[e].size /\ ent[e].size = dma[ent[e].phys]

\* memalloc_init's error ladder and memalloc_cleanup leave neither a kernel
\* object nor a buffer behind.
UnloadedLeavesNothing == mpc = "out" => kobj = {} /\ Allocated = {}

\* MapBuffer: what is mapped is, at that moment, allocated memory of one
\* buffer and not more than that ("if userspace tries to mmap beyond end of
\* our buffer, fail").
MapsLiveBuffer ==
    [][\A m \in maps' \ maps : m[2] \in Allocated /\ m[3] <= dma[m[2]]]_vars
=============================================================================

--------------------------- MODULE MemallocProofs ---------------------------
(***************************************************************************)
(* The types of the memory driver under every schedule, and what it keeps  *)
(* on a kernel without preemption, for any number of files, buffers and    *)
(* sizes: first the counting of the open files, on which memalloc_release  *)
(* rests, then the buffers.                                                *)
(***************************************************************************)
EXTENDS Memalloc, FiniteSetTheorems, TLAPS

USE DEF modVars, heapVars, locVars

\* The files that open_count counts.
Opened == {f \in Files : pc[f] \notin {"closed", "open", "last", "lastdel"}}

\* Where a file is between open and release.
Work == {"idle", "kzalloc", "dma"} \cup Locked

\* Without preemption one handler is awake.
OneAwake == \A f, g \in Files : pc[f] \notin Asleep /\ pc[g] \notin Asleep => f = g

Counting ==
    /\ open_count = Cardinality(Opened)
    /\ \A f \in Files :
        /\ pc[f] = "open" => reg[f] = open_count
        /\ pc[f] = "release" => reg[f] = open_count - 1

\* A handler that works on an entry has one.
CurIsEntry ==
    \A f \in Files :
        pc[f] \in {"dma", "add", "unlink", "free", "resetdel", "lastdel"} => cur[f] \in Entries

MapHasFile == \A m \in maps : pc[m[1]] \in Work

CInv ==
    /\ TypeOK
    /\ CurIsEntry
    /\ OneAwake
    /\ Counting
    /\ MapHasFile
    /\ LastCloseTakesNothingAway

\* A word rounded to pages is a number, and it covers what was asked for
\* unless it wrapped to 0.
LEMMA PageAlignType ==
    ASSUME NEW n \in Nat
    PROVE  /\ PageAlign(n) \in Nat
           /\ n < Word /\ PageAlign(n) # 0 => n <= PageAlign(n)
<1> USE MemallocAssumption
<1> DEFINE a == n + PageSize - 1
           m == a % Word
<1>1. a \in Nat
  OBVIOUS
<1>2. /\ m \in Nat /\ m < Word
      /\ n < Word => (a < Word => m = a) /\ (a >= Word => m <= a - Word)
  BY <1>1
<1>3. /\ m % PageSize \in Nat /\ m % PageSize < PageSize /\ m % PageSize <= m
      /\ m < PageSize => m % PageSize = m
  <2> HIDE DEF m
  <2> QED
    BY <1>2
<1>4. PageAlign(n) = m - (m % PageSize)
  BY DEF PageAlign
<1>5. PageAlign(n) \in Nat
  BY <1>2, <1>3, <1>4
<1>6. CASE a < Word
  BY <1>1, <1>2, <1>3, <1>4, <1>5, <1>6
<1>7. CASE a >= Word
  BY <1>1, <1>2, <1>3, <1>4, <1>5, <1>7
<1> QED
  BY <1>1, <1>5, <1>6, <1>7

LEMMA SizesAreWords == \A n \in Sizes : n \in Nat /\ n < Word
BY MemallocAssumption

LEMMA CInit == Init => CInv
<1> SUFFICES ASSUME Init PROVE CInv
  OBVIOUS
<1>1. TypeOK
  BY DEF Init, TypeOK, Zeroed, Asleep
<1>2. Opened = {}
  BY DEF Init, Opened
<1> QED
  BY <1>1, <1>2, FS_EmptySet DEF Init, CInv, CurIsEntry, OneAwake, Counting, MapHasFile,
     LastCloseTakesNothingAway, Asleep

LEMMA OpenedFinite == IsFiniteSet(Opened) /\ Cardinality(Opened) \in Nat
BY MemallocAssumption, FS_Subset, FS_CardinalityType DEF Opened

\* A step of a file that stays open: the count does not change.
LEMMA WorkStep ==
    ASSUME NEW f \in Files, NEW l \in Work, ~Preempt, CInv, TypeOK', CurIsEntry',
           pc[f] \in Work, Runs(f), pc' = [pc EXCEPT ![f] = l], UNCHANGED open_count,
           reg' = [reg EXCEPT ![f] = reg'[f]],
           \A m \in maps' : m \in maps \/ m[1] = f
    PROVE  CInv'
<1> USE DEF CInv, TypeOK
<1>1. \A g \in Files \ {f} : pc[g] \in Asleep /\ pc'[g] = pc[g] /\ reg'[g] = reg[g]
  BY DEF Runs
<1>2. pc'[f] = l
  OBVIOUS
<1>3. Opened' = Opened
  BY <1>1, <1>2 DEF Opened, Work, Locked
<1>4. OneAwake'
  BY <1>1 DEF OneAwake
<1>5. Counting'
  BY <1>1, <1>2, <1>3 DEF Counting, Work, Locked, Asleep
<1>6. MapHasFile'
  BY <1>1, <1>2 DEF MapHasFile
<1>7. LastCloseTakesNothingAway'
  BY <1>1, <1>2 DEF LastCloseTakesNothingAway, Asleep, Work, Locked
<1> QED
  BY <1>4, <1>5, <1>6, <1>7

\* memalloc_open: the store of ++open_count adds the file that opens.
LEMMA OpenStep ==
    ASSUME NEW f \in Files, ~Preempt, CInv, OpenLoad(f) \/ OpenStore(f)
    PROVE  CInv'
<1> USE DEF CInv, TypeOK
<1>1. /\ \A g \in Files \ {f} : pc[g] \in Asleep /\ pc'[g] = pc[g] /\ reg'[g] = reg[g]
      /\ maps' = maps /\ pc[f] \in {"closed", "open"} /\ pc'[f] \in {"open", "idle"}
  BY DEF OpenLoad, OpenStore, At, Goto, Return, Runs
<1>2. OneAwake' /\ MapHasFile'
  BY <1>1 DEF OneAwake, MapHasFile, Work, Locked
<1>3. LastCloseTakesNothingAway'
  BY <1>1 DEF LastCloseTakesNothingAway, Asleep
<1>6. CurIsEntry'
  BY <1>1 DEF CurIsEntry, OpenLoad, OpenStore, Return
<1>4. CASE OpenLoad(f)
  <2>1. Opened' = Opened
    BY <1>1, <1>4 DEF Opened, OpenLoad, At, Goto
  <2>2. TypeOK'
    BY <1>4 DEF OpenLoad, At, Goto, Asleep
  <2>3. Counting'
    BY <1>1, <1>4, <2>1 DEF OpenLoad, At, Goto, Counting, Asleep
  <2> QED
    BY <1>2, <1>3, <1>6, <2>2, <2>3
<1>5. CASE OpenStore(f)
  <2>1. Opened' = Opened \cup {f} /\ f \notin Opened
    BY <1>1, <1>5 DEF Opened, OpenStore, At, Return
  <2>2. Cardinality(Opened') = open_count + 1
    BY <2>1, FS_AddElement, OpenedFinite DEF Counting
  <2>3. open_count' = open_count + 1
    BY <1>5 DEF OpenStore, At, Counting
  <2>4. TypeOK'
    BY <1>5, <2>3 DEF OpenStore, At, Return, Asleep
  <2>5. Counting'
    BY <1>1, <1>5, <2>2, <2>3 DEF OpenStore, At, Return, Counting, Asleep
  <2> QED
    BY <1>2, <1>3, <1>6, <2>4, <2>5
<1> QED
  BY <1>4, <1>5

\* memalloc_release: the store of --open_count takes the file off, and when
\* it gives 0 there was no other, hence no mapping either.
LEMMA ReleaseStep ==
    ASSUME NEW f \in Files, ~Preempt, CInv, ReleaseLoad(f) \/ ReleaseStore(f)
    PROVE  CInv'
<1> USE DEF CInv, TypeOK
<1>1. /\ \A g \in Files \ {f} : pc[g] \in Asleep /\ pc'[g] = pc[g] /\ reg'[g] = reg[g]
      /\ maps' = maps
  BY DEF ReleaseLoad, ReleaseStore, At, Goto, Return, Runs
<1>2. OneAwake'
  BY <1>1 DEF OneAwake
<1>5. CurIsEntry'
  BY <1>1 DEF CurIsEntry, ReleaseLoad, ReleaseStore, Goto, Return
<1>3. CASE ReleaseLoad(f)
  <2>1. pc[f] = "idle" /\ pc'[f] = "release" /\ \A m \in maps : m[1] # f
    BY <1>3 DEF ReleaseLoad, At, Goto
  <2>2. Opened' = Opened
    BY <1>1, <2>1 DEF Opened
  <2>3. TypeOK'
    BY <1>3 DEF ReleaseLoad, At, Goto
  <2>4. Counting'
    BY <1>1, <1>3, <2>1, <2>2 DEF ReleaseLoad, Counting, Asleep
  <2>5. MapHasFile'
    BY <1>1, <2>1 DEF MapHasFile
  <2>6. LastCloseTakesNothingAway'
    BY <1>1, <2>1 DEF LastCloseTakesNothingAway, Asleep
  <2> QED
    BY <1>2, <1>5, <2>3, <2>4, <2>5, <2>6
<1>4. CASE ReleaseStore(f)
  <2>1. pc[f] = "release" /\ reg[f] = open_count - 1
    BY <1>4 DEF ReleaseStore, At, Counting
  <2>2. pc'[f] = (IF reg[f] = 0 THEN "last" ELSE "closed") /\ open_count' = reg[f]
    BY <1>4 DEF ReleaseStore, Return
  <2>3. Opened' = Opened \ {f} /\ f \in Opened
    BY <1>1, <2>1, <2>2 DEF Opened
  <2>4. Cardinality(Opened') = open_count - 1 /\ Cardinality(Opened') \in Nat
    BY <2>3, FS_RemoveElement, FS_CardinalityType, OpenedFinite DEF Counting
  <2>5. TypeOK'
    BY <1>4, <2>1, <2>2, <2>4 DEF ReleaseStore, Return, Asleep
  <2>6. Counting'
    BY <1>1, <2>1, <2>2, <2>4 DEF Counting, Asleep
  <2>7. MapHasFile'
    BY <1>1, <2>1 DEF MapHasFile, Work, Locked
  <2>8. LastCloseTakesNothingAway'
    <3>1. CASE reg[f] = 0
      <4>1. Opened' = {}
        BY <2>1, <2>3, <2>4, <3>1, FS_EmptySet, FS_RemoveElement, OpenedFinite
      <4>2. \A g \in Files \ {f} : pc'[g] = "closed"
        BY <1>1, <4>1 DEF Opened, Asleep
      <4>3. maps' = {}
        BY <1>1, <2>2, <2>7, <3>1, <4>2, <2>5 DEF MapHasFile, Work, Locked
      <4> QED
        BY <4>2, <4>3 DEF LastCloseTakesNothingAway
    <3>2. CASE reg[f] # 0
      BY <1>1, <2>2, <3>2 DEF LastCloseTakesNothingAway, Asleep
    <3> QED
      BY <3>1, <3>2
  <2> QED
    BY <1>2, <1>5, <2>5, <2>6, <2>7, <2>8
<1> QED
  BY <1>3, <1>4

\* The steps of a file between open and release.
WorkNext(f) ==
    \/ \E n \in Sizes : GetBuffer(f, n)
    \/ AllocEntry(f)  \/ AllocEntryFail(f)
    \/ AllocBuffer(f) \/ AllocBufferFail(f)
    \/ AddEntry(f)
    \/ \E b \in Bufs : FreeBuffer(f, b)
    \/ Unlink(f)      \/ FreeEntry(f)
    \/ HardReset(f)
    \/ pc[f] \in {"reset", "resetdel"} /\ (FreeBuffersHead(f) \/ FreeBuffersDel(f) \/ FreeBuffersDone(f))
    \/ \E b \in Bufs, n \in Sizes : Mmap(f, b, n)
    \/ Munmap(f)

EntType == [phys : Bufs \cup {0}, size : Nat, asked : Nat]

Pcs == Asleep \cup Locked \cup {"open", "release", "last", "lastdel"}

\* TypeOK in parts: the heap, and the locals of the handlers.
HeapTypes ==
    /\ heap_list \subseteq Entries
    /\ kmem \subseteq Entries
    /\ ent \in [Entries -> EntType]
    /\ dma \in [Bufs -> Nat]

LocTypes ==
    /\ pc \in [Files -> Pcs]
    /\ cur \in [Files -> Entries \cup {NoEntry}]
    /\ want \in [Files -> Nat]
    /\ reg \in [Files -> Int]

LEMMA TypeParts ==
    TypeOK <=> /\ mpc \in {"out", "class", "device", "up", "error1", "error2"}
               /\ kobj \subseteq {"chrdev", "class", "device"}
               /\ open_count \in Int
               /\ HeapTypes /\ LocTypes
               /\ maps \subseteq Files \X Bufs \X Nat
BY DEF TypeOK, HeapTypes, LocTypes, EntType, Pcs

LEMMA TypeStep ==
    ASSUME TypeOK, UNCHANGED <<modVars, open_count, maps>>, HeapTypes', LocTypes'
    PROVE  TypeOK'
BY DEF TypeOK, HeapTypes, LocTypes, EntType, Pcs

LEMMA ReturnTypes ==
    ASSUME NEW f \in Files, NEW l \in Pcs, TypeOK, Return(f, l)
    PROVE  LocTypes'
BY TypeParts DEF LocTypes, Return

\* Freeing entries and buffers keeps the types.
LEMMA FreeTypes ==
    ASSUME HeapTypes
    PROVE  /\ Zeroed \in EntType
           /\ \A e : [ent EXCEPT ![e] = Zeroed] \in [Entries -> EntType]
           /\ \A b : [dma EXCEPT ![b] = 0] \in [Bufs -> Nat]
<1>1. Zeroed \in EntType
  BY DEF Zeroed, EntType
<1> QED
  BY <1>1 DEF HeapTypes

LEMMA WorkTypes ==
    ASSUME NEW f \in Files, TypeOK, CurIsEntry, WorkNext(f)
    PROVE  TypeOK'
<1>0. /\ TypeOK /\ HeapTypes /\ LocTypes
      /\ {"idle", "kzalloc", "dma", "reset"} \cup Locked \subseteq Pcs
  BY TypeParts DEF Pcs, Asleep, Locked
<1>1. ASSUME NEW n \in Sizes, GetBuffer(f, n) PROVE TypeOK'
  <2>1. LocTypes' /\ HeapTypes'
    BY <1>0, <1>1, MemallocAssumption DEF GetBuffer, Goto, LocTypes, HeapTypes
  <2> QED
    BY <1>0, <1>1, <2>1, TypeStep DEF GetBuffer
<1>2. CASE AllocEntry(f)
  <2>1. LocTypes' /\ HeapTypes'
    BY <1>0, <1>2 DEF AllocEntry, Goto, LocTypes, HeapTypes
  <2> QED
    BY <1>0, <1>2, <2>1, TypeStep DEF AllocEntry
<1>3. CASE AllocEntryFail(f) \/ AllocBufferFail(f)
  <2>1. LocTypes' /\ HeapTypes'
    BY <1>0, <1>3, ReturnTypes DEF AllocEntryFail, AllocBufferFail, HeapTypes
  <2> QED
    BY <1>0, <1>3, <2>1, TypeStep DEF AllocEntryFail, AllocBufferFail
<1>4. CASE AllocBuffer(f)
  <2>1. PageAlign(want[f]) \in Nat /\ want[f] \in Nat
    BY <1>0, PageAlignType DEF LocTypes
  <2>2. PICK b \in Bufs : /\ dma' = [dma EXCEPT ![b] = PageAlign(want[f])]
                          /\ ent' = [ent EXCEPT ![cur[f]] =
                                [phys |-> b, size |-> PageAlign(want[f]), asked |-> want[f]]]
    BY <1>4 DEF AllocBuffer
  <2>3. [phys |-> b, size |-> PageAlign(want[f]), asked |-> want[f]] \in EntType
    BY <2>1 DEF EntType
  <2>4. HeapTypes'
    BY <1>0, <1>4, <2>1, <2>2, <2>3 DEF AllocBuffer, HeapTypes
  <2>5. LocTypes'
    BY <1>0, <1>4 DEF AllocBuffer, Goto, LocTypes, Locked
  <2> QED
    BY <1>0, <1>4, <2>4, <2>5, TypeStep DEF AllocBuffer
<1>5. CASE AddEntry(f)
  <2>1. HeapTypes'
    BY <1>0, <1>5 DEF AddEntry, At, HeapTypes, CurIsEntry
  <2> QED
    BY <1>0, <1>5, <2>1, TypeStep, ReturnTypes DEF AddEntry
<1>6. ASSUME NEW b \in Bufs, FreeBuffer(f, b) PROVE TypeOK'
  <2>1. LocTypes' /\ HeapTypes'
    BY <1>0, <1>6 DEF FreeBuffer, FindEntryByBus, Goto, LocTypes, HeapTypes, Locked
  <2> QED
    BY <1>0, <1>6, <2>1, TypeStep DEF FreeBuffer
<1>7. CASE Unlink(f) \/ HardReset(f)
  <2>1. LocTypes' /\ HeapTypes'
    BY <1>0, <1>7 DEF Unlink, HardReset, Goto, LocTypes, HeapTypes, Locked
  <2> QED
    BY <1>0, <1>7, <2>1, TypeStep DEF Unlink, HardReset
<1>8. CASE FreeEntry(f)
  <2>1. HeapTypes'
    BY <1>0, <1>8, FreeTypes DEF FreeEntry, kfree, HeapTypes
  <2> QED
    BY <1>0, <1>8, <2>1, TypeStep, ReturnTypes DEF FreeEntry
<1>9. CASE FreeBuffersHead(f) /\ pc[f] = "reset"
  <2>1. HeapTypes'
    BY <1>0, <1>9, FreeTypes DEF FreeBuffersHead, HeapTypes
  <2>2. LocTypes'
    BY <1>0, <1>9 DEF FreeBuffersHead, Goto, LocTypes, HeapTypes, Locked
  <2> QED
    BY <1>0, <1>9, <2>1, <2>2, TypeStep DEF FreeBuffersHead
<1>10. CASE FreeBuffersDel(f) /\ pc[f] = "resetdel"
  <2>1. HeapTypes'
    BY <1>0, <1>10, FreeTypes DEF FreeBuffersDel, kfree, HeapTypes
  <2> QED
    BY <1>0, <1>10, <2>1, TypeStep, ReturnTypes DEF FreeBuffersDel
<1>11. CASE FreeBuffersDone(f) /\ pc[f] = "reset"
  <2>1. HeapTypes'
    BY <1>0, <1>11 DEF FreeBuffersDone, HeapTypes
  <2> QED
    BY <1>0, <1>11, <2>1, TypeStep, ReturnTypes DEF FreeBuffersDone
<1>12. ASSUME NEW b \in Bufs, NEW n \in Sizes, Mmap(f, b, n) PROVE TypeOK'
  <2>1. maps' \subseteq Files \X Bufs \X Nat
    BY <1>0, <1>12, MemallocAssumption DEF Mmap, TypeOK
  <2> QED
    BY <1>0, <1>12, <2>1 DEF Mmap, TypeOK
<1>13. CASE Munmap(f)
  <2>1. maps' \subseteq maps /\ UNCHANGED <<modVars, open_count, heapVars, pc, locVars>>
    BY <1>13 DEF Munmap
  <2> QED
    BY <1>0, <2>1 DEF TypeOK
<1> QED
  BY <1>1, <1>2, <1>3, <1>4, <1>5, <1>6, <1>7, <1>8, <1>9, <1>10, <1>11, <1>12, <1>13
     DEF WorkNext, FreeBuffersHead, FreeBuffersDel, FreeBuffersDone

LEMMA WorkEntries ==
    ASSUME NEW f \in Files, TypeOK, CurIsEntry, WorkNext(f)
    PROVE  CurIsEntry'
<1> USE DEF TypeOK, CurIsEntry, At, Goto, Return
<1>1. CASE \/ \E n \in Sizes : GetBuffer(f, n) \/ \E b \in Bufs : Mmap(f, b, n)
           \/ Munmap(f) \/ HardReset(f)
  BY <1>1 DEF GetBuffer, Mmap, Munmap, HardReset
<1>2. CASE \/ AllocEntry(f)  \/ AllocEntryFail(f) \/ AllocBuffer(f) \/ AllocBufferFail(f)
           \/ AddEntry(f)
  BY <1>2 DEF AllocEntry, AllocEntryFail, AllocBuffer, AllocBufferFail, AddEntry
<1>3. CASE Unlink(f) \/ FreeEntry(f) \/ \E b \in Bufs : FreeBuffer(f, b)
  BY <1>3 DEF Unlink, FreeEntry, FreeBuffer, FindEntryByBus
<1>4. CASE FreeBuffersHead(f) \/ FreeBuffersDel(f) \/ FreeBuffersDone(f)
  BY <1>4 DEF FreeBuffersHead, FreeBuffersDel, FreeBuffersDone
<1> QED
  BY <1>1, <1>2, <1>3, <1>4 DEF WorkNext

LEMMA WorkCounts ==
    ASSUME NEW f \in Files, ~Preempt, CInv, WorkNext(f)
    PROVE  CInv'
<1>1. pc[f] \in Work /\ Runs(f) /\ UNCHANGED open_count
  BY DEF WorkNext, GetBuffer, AllocEntry, AllocEntryFail, AllocBuffer,
     AllocBufferFail, AddEntry, FreeBuffer, Unlink, FreeEntry, HardReset, FreeBuffersHead,
     FreeBuffersDel, FreeBuffersDone, Mmap, Munmap, At, Work, Locked
<1>4. \A m \in maps' : m \in maps \/ m[1] = f
  BY DEF WorkNext, GetBuffer, AllocEntry, AllocEntryFail, AllocBuffer,
     AllocBufferFail, AddEntry, FreeBuffer, Unlink, FreeEntry, HardReset, FreeBuffersHead,
     FreeBuffersDel, FreeBuffersDone, Mmap, Munmap
<1>2. \E l \in Work : pc' = [pc EXCEPT ![f] = l]
  BY DEF CInv, TypeOK, WorkNext, GetBuffer, AllocEntry, AllocEntryFail, AllocBuffer,
     AllocBufferFail, AddEntry, FreeBuffer, Unlink, FreeEntry, HardReset, FreeBuffersHead,
     FreeBuffersDel, FreeBuffersDone, Mmap, Munmap, At, Goto, Return, Work, Locked
<1>3. reg' = [reg EXCEPT ![f] = reg'[f]]
  BY DEF CInv, TypeOK, WorkNext, GetBuffer, AllocEntry, AllocEntryFail, AllocBuffer,
     AllocBufferFail, AddEntry, FreeBuffer, Unlink, FreeEntry, HardReset, FreeBuffersHead,
     FreeBuffersDel, FreeBuffersDone, Mmap, Munmap, Return
<1> QED
  BY <1>1, <1>2, <1>3, <1>4, WorkTypes, WorkEntries, WorkStep DEF CInv

\* memalloc_free_buffers at the last close.
LEMMA LastStep ==
    ASSUME NEW f \in Files, ~Preempt, CInv, pc[f] \in {"last", "lastdel"},
           FreeBuffersHead(f) \/ FreeBuffersDel(f) \/ FreeBuffersDone(f)
    PROVE  CInv'
<1> USE DEF CInv, TypeOK, FreeBuffersHead, FreeBuffersDel, FreeBuffersDone, Goto, Return
<1>1. /\ \A g \in Files \ {f} : pc[g] = "closed" /\ pc'[g] = "closed" /\ reg'[g] = reg[g]
      /\ maps = {} /\ maps' = {} /\ open_count' = open_count
      /\ pc'[f] \in {"last", "lastdel", "closed"}
  BY DEF LastCloseTakesNothingAway
<1>2. Opened' = Opened
  BY <1>1 DEF Opened
<1>3. TypeOK'
  <2>0. HeapTypes
    BY TypeParts
  <2>1. HeapTypes'
    <3> HIDE DEF CInv, TypeOK
    <3>1. CASE FreeBuffersHead(f)
      BY <2>0, <3>1, FreeTypes DEF HeapTypes
    <3>2. CASE FreeBuffersDel(f)
      BY <2>0, <3>2, FreeTypes DEF kfree, HeapTypes
    <3>3. CASE FreeBuffersDone(f)
      BY <2>0, <3>3 DEF HeapTypes
    <3> QED
      BY <3>1, <3>2, <3>3
  <2>2. LocTypes'
    BY TypeParts DEF LocTypes, HeapTypes, Pcs, Asleep
  <2> QED
    BY <1>1, <2>1, <2>2, TypeStep
<1>4. Counting'
  BY <1>1, <1>2 DEF Counting
<1>5. OneAwake' /\ MapHasFile' /\ LastCloseTakesNothingAway'
  BY <1>1 DEF OneAwake, MapHasFile, LastCloseTakesNothingAway, Asleep
<1>6. CurIsEntry'
  BY <1>1 DEF CurIsEntry
<1> QED
  BY <1>3, <1>4, <1>5, <1>6

\* Loading and unloading keep the types.
LEMMA ModuleTypes ==
    ASSUME TypeOK, ModuleNext
    PROVE  TypeOK'
<1> USE DEF ModuleNext, LoadChrdev, LoadClass, LoadDevice, LoadError2, LoadError1,
    LoadStep, Cleanup
<1>1. Zeroed \in EntType /\ ent \in [Entries -> EntType]
  BY DEF Zeroed, EntType, TypeOK
<1>2. CASE Cleanup
  <2>1. ent' \in [Entries -> EntType]
    BY <1>1, <1>2
  <2>2. dma' \in [Bufs -> Nat]
    BY <1>2 DEF TypeOK
  <2> QED
    BY <1>2, <2>1, <2>2 DEF TypeOK, EntType
<1>3. CASE ~Cleanup
  BY <1>3 DEF TypeOK
<1> QED
  BY <1>2, <1>3

\* The types, whatever the schedule.
LEMMA TypeNext == TypeOK /\ CurIsEntry /\ [Next]_vars => TypeOK' /\ CurIsEntry'
<1> SUFFICES ASSUME TypeOK, CurIsEntry, [Next]_vars PROVE TypeOK' /\ CurIsEntry'
  OBVIOUS
<1>0. HeapTypes /\ LocTypes
  BY TypeParts
<1>1. ASSUME NEW f \in Files, FileNext(f) PROVE TypeOK' /\ CurIsEntry'
  <2>1. CASE OpenLoad(f) \/ ReleaseLoad(f)
    <3>1. /\ reg' \in [Files -> Int] /\ UNCHANGED <<modVars, open_count, heapVars, cur, want, maps>>
          /\ \E l \in {"open", "release"} : pc' = [pc EXCEPT ![f] = l]
      BY <2>1 DEF OpenLoad, ReleaseLoad, Goto, TypeOK
    <3> QED BY <3>1 DEF TypeOK, CurIsEntry
  <2>2. CASE OpenStore(f) \/ ReleaseStore(f)
    <3>1. /\ open_count' \in Int /\ UNCHANGED <<modVars, heapVars, maps>>
          /\ \E l \in {"idle", "last", "closed"} : Return(f, l)
      BY <2>2 DEF OpenStore, ReleaseStore, TypeOK
    <3>2. LocTypes'
      BY <3>1, ReturnTypes DEF Pcs, Asleep
    <3>3. HeapTypes'
      BY <1>0, <3>1 DEF HeapTypes
    <3>4. CurIsEntry'
      BY <3>1 DEF CurIsEntry, Return, TypeOK
    <3> QED BY <3>1, <3>2, <3>3, <3>4 DEF TypeOK, HeapTypes, LocTypes, EntType, Pcs
  <2>3. CASE pc[f] \in {"last", "lastdel"}
               /\ (FreeBuffersHead(f) \/ FreeBuffersDel(f) \/ FreeBuffersDone(f))
    <3>1. HeapTypes'
      <4>1. CASE FreeBuffersHead(f)
        BY <1>0, <4>1, FreeTypes DEF HeapTypes, FreeBuffersHead
      <4>2. CASE FreeBuffersDel(f)
        BY <1>0, <4>2, FreeTypes DEF kfree, HeapTypes, FreeBuffersDel
      <4>3. CASE FreeBuffersDone(f)
        BY <1>0, <4>3 DEF HeapTypes, FreeBuffersDone
      <4> QED BY <2>3, <4>1, <4>2, <4>3
    <3>2. LocTypes'
      BY <1>0, <2>3 DEF LocTypes, HeapTypes, Pcs, Asleep, FreeBuffersHead, FreeBuffersDel,
         FreeBuffersDone, Goto, Return
    <3>3. CurIsEntry'
      BY <2>3 DEF CurIsEntry, TypeOK, FreeBuffersHead, FreeBuffersDel, FreeBuffersDone,
         Goto, Return
    <3>4. UNCHANGED <<modVars, open_count, maps>>
      BY <2>3 DEF FreeBuffersHead, FreeBuffersDel, FreeBuffersDone
    <3> QED BY <3>1, <3>2, <3>3, <3>4, TypeStep
  <2>4. CASE WorkNext(f)
    BY <2>4, WorkTypes, WorkEntries
  <2> QED BY <1>1, <2>1, <2>2, <2>3, <2>4
          DEF FileNext, WorkNext, FreeBuffersHead, FreeBuffersDel, FreeBuffersDone
<1>2. CASE ModuleNext
  <2>1. UNCHANGED <<pc, cur>>
    BY <1>2 DEF ModuleNext, LoadChrdev, LoadClass, LoadDevice, LoadError2, LoadError1, LoadStep, Cleanup
  <2> QED BY <1>2, <2>1, ModuleTypes DEF CurIsEntry
<1>3. CASE UNCHANGED vars
  BY <1>3 DEF vars, TypeOK, CurIsEntry
<1> QED
  BY <1>1, <1>2, <1>3 DEF Next

\* Loading and unloading leave the files alone.
LEMMA ModuleCounts ==
    ASSUME CInv, ModuleNext
    PROVE  CInv'
<1> USE DEF CInv, ModuleNext, LoadChrdev, LoadClass, LoadDevice, LoadError2, LoadError1,
    LoadStep, Cleanup
<1>1. UNCHANGED <<open_count, pc, cur, reg, maps>>
  OBVIOUS
<1>2. TypeOK'
  BY ModuleTypes DEF CInv
<1> QED
  BY <1>1, <1>2 DEF CurIsEntry, OneAwake, Counting, Opened, MapHasFile, LastCloseTakesNothingAway

LEMMA CNext == ASSUME ~Preempt PROVE CInv /\ [Next]_vars => CInv'
<1> SUFFICES ASSUME CInv, [Next]_vars PROVE CInv'
  OBVIOUS
<1>1. ASSUME NEW f \in Files, FileNext(f) PROVE CInv'
  BY <1>1, OpenStep, ReleaseStep, WorkCounts, LastStep
     DEF FileNext, WorkNext, FreeBuffersHead, FreeBuffersDel, FreeBuffersDone
<1>2. CASE ModuleNext
  BY <1>2, ModuleCounts
<1>3. CASE UNCHANGED vars
  BY <1>3 DEF vars, CInv, TypeOK, CurIsEntry, OneAwake, Counting, Opened, MapHasFile,
     LastCloseTakesNothingAway
<1> QED
  BY <1>1, <1>2, <1>3 DEF Next

-----------------------------------------------------------------------------
(* The buffers.                                                            *)

\* The entry of a file whose handler has taken it off the list, or has not
\* put it there yet.
Held == {cur[f] : f \in {g \in Files : pc[g] \in {"add", "free"}}}

\* The entries that stand for a buffer.
Owned == (heap_list \ BeingFreed) \cup Held

\* Entries and files: heap_list has allocated entries only, and an entry off
\* the list belongs to one file.
EntryInv ==
    /\ heap_list \subseteq kmem
    /\ \A f \in Files :
        /\ pc[f] \in {"dma", "add", "free"} => cur[f] \in kmem \ heap_list
        /\ pc[f] \in {"unlink", "resetdel", "lastdel"} => cur[f] \in heap_list
        /\ pc[f] \in {"kzalloc", "dma"} => want[f] \in Sizes
    /\ \A f, g \in Files :
        /\ pc[f] \in {"dma", "add", "free"}
        /\ pc[g] \in {"dma", "add", "free"}
        /\ cur[f] = cur[g]
        => f = g

\* Entries and buffers: one entry for every allocated buffer.
BufInv ==
    /\ \A e \in Owned : /\ ent[e].phys \in Bufs
                        /\ dma[ent[e].phys] # 0
                        /\ ent[e].size = dma[ent[e].phys]
                        /\ ent[e].asked <= ent[e].size
    /\ \A e1, e2 \in heap_list \cup Held : ent[e1].phys = ent[e2].phys => e1 = e2
    /\ \A b \in Allocated : \E e \in Owned : ent[e].phys = b

\* Nobody has the device open while it is not there.
ModInv ==
    /\ mpc # "up" => \A f \in Files : pc[f] = "closed"
    /\ kobj = CASE mpc = "out" -> {}
                [] mpc \in {"class", "error1"} -> {"chrdev"}
                [] mpc \in {"device", "error2"} -> {"chrdev", "class"}
                [] mpc = "up" -> {"chrdev", "class", "device"}

ClosedInv == (\A f \in Files : pc[f] = "closed") => heap_list = {}

HInv == EntryInv /\ BufInv /\ ModInv /\ ClosedInv

OthersAsleep(f) == \A g \in Files \ {f} : pc[g] \in Asleep

Mine(f, S) == IF pc[f] \in S THEN {cur[f]} ELSE {}

LEMMA WhoOwns ==
    ASSUME NEW f \in Files, OthersAsleep(f)
    PROVE  /\ Held = Mine(f, {"add", "free"})
           /\ BeingFreed = Mine(f, {"resetdel", "lastdel"})
BY DEF OthersAsleep, Mine, Held, BeingFreed, Asleep

LEMMA WhoOwnsNext ==
    ASSUME NEW f \in Files, OthersAsleep(f)'
    PROVE  /\ Held' = Mine(f, {"add", "free"})'
           /\ BeingFreed' = Mine(f, {"resetdel", "lastdel"})'
BY DEF OthersAsleep, Mine, Held, BeingFreed, Asleep

LEMMA HInit == Init => HInv
<1> SUFFICES ASSUME Init PROVE HInv
  OBVIOUS
<1>1. Held = {} /\ Owned = {} /\ Allocated = {}
  BY DEF Init, Held, Owned, Allocated
<1> QED
  BY <1>1 DEF Init, HInv, EntryInv, BufInv, ModInv, ClosedInv

\* The files other than f, in a step of f.
OthersSame(f) ==
    \A g \in Files \ {f} : pc'[g] = pc[g] /\ cur'[g] = cur[g] /\ want'[g] = want[g]

Plain == {"closed", "idle", "open", "release", "last", "kzalloc", "reset"}

\* A step that leaves the heap alone, between places where f holds no entry.
LEMMA PlainStep ==
    ASSUME NEW f \in Files, HInv, OthersAsleep(f), OthersSame(f), UNCHANGED heapVars,
           pc[f] \in Plain \cup {"dma"}, pc'[f] \in Plain,
           pc'[f] = "kzalloc" => want'[f] \in Sizes
    PROVE  EntryInv' /\ BufInv'
<1>1. OthersAsleep(f)'
  BY DEF OthersAsleep, OthersSame
<1>2. Held = {} /\ BeingFreed = {} /\ Held' = {} /\ BeingFreed' = {}
  BY <1>1, WhoOwns, WhoOwnsNext DEF Mine, Plain
<1>3. Owned' = Owned /\ Allocated' = Allocated
  BY <1>2 DEF Owned, Allocated
<1>4. EntryInv'
  BY DEF HInv, EntryInv, OthersSame, Plain
<1>5. BufInv'
  BY <1>2, <1>3 DEF HInv, BufInv
<1> QED
  BY <1>4, <1>5

\* What holds before a step of f.
LEMMA StepFacts ==
    ASSUME NEW f \in Files, ~Preempt, CInv, Runs(f)
    PROVE  /\ OthersAsleep(f)
           /\ ent \in [Entries -> EntType] /\ dma \in [Bufs -> Nat]
           /\ pc \in [Files -> Pcs] /\ cur \in [Files -> Entries \cup {NoEntry}]
           /\ want \in [Files -> Nat]
BY TypeParts DEF CInv, Runs, OthersAsleep, HeapTypes, LocTypes

LEMMA PlainHeap ==
    ASSUME NEW f \in Files, ~Preempt, CInv, HInv,
           \/ OpenLoad(f) \/ OpenStore(f) \/ ReleaseLoad(f) \/ ReleaseStore(f)
           \/ \E n \in Sizes : GetBuffer(f, n)
           \/ AllocEntryFail(f) \/ AllocBufferFail(f) \/ HardReset(f) \/ FreeBuffersDone(f)
           \/ \E b \in Bufs, n \in Sizes : Mmap(f, b, n)
           \/ Munmap(f)
    PROVE  EntryInv' /\ BufInv'
<1>1. Runs(f) /\ UNCHANGED heapVars
  BY DEF OpenLoad, OpenStore, ReleaseLoad, ReleaseStore, GetBuffer, AllocEntryFail,
     AllocBufferFail, HardReset, FreeBuffersDone, Mmap, Munmap, At
<1>2. pc[f] \in Plain \cup {"dma"} /\ pc'[f] \in Plain /\ OthersSame(f)
  BY <1>1, StepFacts DEF OpenLoad, OpenStore, ReleaseLoad, ReleaseStore, GetBuffer, AllocEntryFail,
     AllocBufferFail, HardReset, FreeBuffersDone, Mmap, Munmap, At, Goto, Return, Plain, OthersSame
<1>3. pc'[f] = "kzalloc" => want'[f] \in Sizes
  BY <1>1, StepFacts DEF OpenLoad, OpenStore, ReleaseLoad, ReleaseStore, GetBuffer, AllocEntryFail,
     AllocBufferFail, HardReset, FreeBuffersDone, Mmap, Munmap, At, Goto, Return
<1> QED
  BY <1>1, <1>2, <1>3, StepFacts, PlainStep

\* AllocMemory gets an entry that nobody has.
LEMMA AllocEntryHeap ==
    ASSUME NEW f \in Files, ~Preempt, CInv, HInv, AllocEntry(f)
    PROVE  EntryInv' /\ BufInv'
<1> USE DEF AllocEntry, At, Goto
<1>1. PICK e \in Entries \ kmem : kmem' = kmem \cup {e} /\ cur' = [cur EXCEPT ![f] = e]
  OBVIOUS
<1>2. /\ pc[f] = "kzalloc" /\ pc'[f] = "dma" /\ cur'[f] = e
      /\ OthersSame(f) /\ OthersAsleep(f) /\ OthersAsleep(f)'
  BY <1>1, StepFacts DEF OthersSame, OthersAsleep, Asleep
<1>3. EntryInv'
  BY <1>1, <1>2 DEF HInv, EntryInv, OthersSame
<1>4. Held = {} /\ BeingFreed = {} /\ Held' = {} /\ BeingFreed' = {}
  BY <1>2, WhoOwns, WhoOwnsNext DEF Mine
<1>5. Owned' = Owned /\ Allocated' = Allocated
  BY <1>4 DEF Owned, Allocated
<1> QED
  BY <1>3, <1>4, <1>5 DEF HInv, BufInv

\* AllocMemory gets a buffer that no entry stands for.
LEMMA AllocBufferHeap ==
    ASSUME NEW f \in Files, ~Preempt, CInv, HInv, AllocBuffer(f)
    PROVE  EntryInv' /\ BufInv'
<1> USE DEF AllocBuffer, At, Goto
<1> DEFINE n == PageAlign(want[f])
           r(b) == [phys |-> b, size |-> n, asked |-> want[f]]
           c == cur[f]
<1>1. PICK b \in Bufs \ Allocated : dma' = [dma EXCEPT ![b] = n] /\ ent' = [ent EXCEPT ![c] = r(b)]
  OBVIOUS
<1>2. /\ pc[f] = "dma" /\ pc'[f] = "add" /\ cur' = cur /\ heap_list' = heap_list
      /\ kmem' = kmem /\ want' = want
      /\ OthersSame(f) /\ OthersAsleep(f) /\ OthersAsleep(f)'
  BY StepFacts DEF OthersSame, OthersAsleep
<1>3. c \in Entries /\ c \in kmem \ heap_list /\ want[f] \in Sizes /\ n # 0
  BY <1>2 DEF CInv, CurIsEntry, HInv, EntryInv
<1>4. EntryInv'
  BY <1>2, <1>3 DEF HInv, EntryInv, OthersSame
<1>5. Held = {} /\ BeingFreed = {} /\ Held' = {c} /\ BeingFreed' = {}
  BY <1>2, WhoOwns, WhoOwnsNext DEF Mine
<1>6. Owned = heap_list /\ Owned' = heap_list \cup {c}
  BY <1>2, <1>5 DEF Owned
<1>7. want[f] \in Nat /\ n \in Nat /\ want[f] <= n
  <2>1. want[f] \in Nat /\ want[f] < Word
    BY <1>3, SizesAreWords
  <2> QED
    BY <2>1, <1>3, PageAlignType
<1>8. /\ ent'[c] = r(b) /\ dma'[b] = n
      /\ \A e \in heap_list : ent'[e] = ent[e] /\ ent[e].phys # b
      /\ \A x \in Bufs \ {b} : dma'[x] = dma[x]
  BY <1>1, <1>3, <1>6, StepFacts DEF HInv, BufInv, Allocated, CInv, TypeOK
<1>9. /\ r(b).phys = b /\ r(b).size = n /\ r(b).asked = want[f]
  OBVIOUS
<1> HIDE DEF n, r, c
<1>10. \A e \in Owned' : /\ ent'[e].phys \in Bufs /\ dma'[ent'[e].phys] # 0
                         /\ ent'[e].size = dma'[ent'[e].phys]
                         /\ ent'[e].asked <= ent'[e].size
  BY <1>1, <1>3, <1>6, <1>7, <1>8, <1>9 DEF HInv, BufInv
<1>11. \A e1, e2 \in heap_list' \cup Held' : ent'[e1].phys = ent'[e2].phys => e1 = e2
  BY <1>2, <1>5, <1>8, <1>9 DEF HInv, BufInv
<1>12. \A x \in Allocated' : \E e \in Owned' : ent'[e].phys = x
  BY <1>1, <1>6, <1>8, <1>9 DEF HInv, BufInv, Allocated
<1> QED
  BY <1>4, <1>10, <1>11, <1>12 DEF BufInv

\* An entry goes on the list, is looked up, or is taken off: its file has it
\* meanwhile.
LEMMA MoveEntryHeap ==
    ASSUME NEW f \in Files, ~Preempt, CInv, HInv,
           AddEntry(f) \/ Unlink(f) \/ \E b \in Bufs : FreeBuffer(f, b)
    PROVE  EntryInv' /\ BufInv'
<1> USE DEF AddEntry, Unlink, FreeBuffer, At, Goto, Return
<1>1. /\ OthersSame(f) /\ OthersAsleep(f) /\ OthersAsleep(f)'
      /\ kmem' = kmem /\ ent' = ent /\ dma' = dma
  BY StepFacts DEF OthersSame, OthersAsleep
<1>2. EntryInv'
  <2>1. CASE AddEntry(f)
    BY <1>1, <2>1, StepFacts DEF HInv, EntryInv, OthersSame
  <2>2. CASE Unlink(f)
    BY <1>1, <2>2, StepFacts DEF HInv, EntryInv, OthersSame, OthersAsleep, Asleep
  <2>3. CASE \E b \in Bufs : FreeBuffer(f, b)
    BY <1>1, <2>3, StepFacts DEF HInv, EntryInv, OthersSame, FindEntryByBus
  <2> QED
    BY <2>1, <2>2, <2>3
<1>3. Owned' = Owned /\ heap_list' \cup Held' = heap_list \cup Held
  <2>1. CASE AddEntry(f)
    <3>1. Held = {cur[f]} /\ BeingFreed = {} /\ Held' = {} /\ BeingFreed' = {}
      BY <1>1, <2>1, StepFacts, WhoOwns, WhoOwnsNext DEF Mine
    <3> QED
      BY <2>1, <3>1 DEF Owned
  <2>2. CASE Unlink(f)
    <3>1. Held = {} /\ BeingFreed = {} /\ Held' = {cur[f]} /\ BeingFreed' = {}
      BY <1>1, <2>2, StepFacts, WhoOwns, WhoOwnsNext DEF Mine
    <3>2. cur[f] \in heap_list
      BY <2>2 DEF HInv, EntryInv
    <3> QED
      BY <2>2, <3>1, <3>2 DEF Owned
  <2>3. CASE \E b \in Bufs : FreeBuffer(f, b)
    <3>1. Held = {} /\ BeingFreed = {} /\ Held' = {} /\ BeingFreed' = {}
      BY <1>1, <2>3, StepFacts, WhoOwns, WhoOwnsNext DEF Mine
    <3> QED
      BY <2>3, <3>1 DEF Owned
  <2> QED
    BY <2>1, <2>2, <2>3
<1> QED
  BY <1>1, <1>2, <1>3 DEF HInv, BufInv, Allocated

\* FreeMemory and memalloc_free_buffers: the buffer that goes is that of the
\* entry, and of no other.
LEMMA FreeEntryHeap ==
    ASSUME NEW f \in Files, ~Preempt, CInv, HInv, FreeEntry(f)
    PROVE  EntryInv' /\ BufInv'
<1> USE DEF FreeEntry, kfree, At, Return
<1> DEFINE c == cur[f]
           b == ent[c].phys
<1>1. /\ pc[f] = "free" /\ pc'[f] = "idle" /\ heap_list' = heap_list /\ kmem' = kmem \ {c}
      /\ OthersSame(f) /\ OthersAsleep(f) /\ OthersAsleep(f)'
  BY StepFacts DEF OthersSame, OthersAsleep, Asleep
<1>2. c \in Entries /\ c \in kmem \ heap_list
  BY <1>1 DEF CInv, CurIsEntry, HInv, EntryInv
<1>3. EntryInv'
  BY <1>1, <1>2 DEF HInv, EntryInv, OthersSame
<1>4. Held = {c} /\ BeingFreed = {} /\ Held' = {} /\ BeingFreed' = {}
  BY <1>1, WhoOwns, WhoOwnsNext DEF Mine
<1>5. Owned = heap_list \cup {c} /\ Owned' = heap_list
  BY <1>1, <1>4 DEF Owned
<1>6. b \in Bufs /\ \A e \in heap_list : ent[e].phys # b
  BY <1>2, <1>4, <1>5 DEF HInv, BufInv
<1>7. /\ dma'[b] = 0 /\ \A x \in Bufs \ {b} : dma'[x] = dma[x]
      /\ \A e \in heap_list : ent'[e] = ent[e]
  BY <1>2, <1>6, StepFacts DEF CInv, TypeOK
<1> HIDE DEF b, c
<1>8. \A e \in Owned' : /\ ent'[e].phys \in Bufs /\ dma'[ent'[e].phys] # 0
                        /\ ent'[e].size = dma'[ent'[e].phys]
                        /\ ent'[e].asked <= ent'[e].size
  BY <1>5, <1>6, <1>7 DEF HInv, BufInv
<1>9. \A e1, e2 \in heap_list' \cup Held' : ent'[e1].phys = ent'[e2].phys => e1 = e2
  BY <1>1, <1>4, <1>7 DEF HInv, BufInv
<1>10. \A x \in Allocated' : \E e \in Owned' : ent'[e].phys = x
  <2> SUFFICES ASSUME NEW x \in Bufs, dma'[x] # 0 PROVE \E e \in heap_list : ent'[e].phys = x
    BY <1>5 DEF Allocated
  <2>1. x # b /\ x \in Allocated
    BY <1>7 DEF Allocated
  <2>2. PICK e \in Owned : ent[e].phys = x
    BY <2>1 DEF HInv, BufInv
  <2> QED
    BY <1>5, <1>7, <2>1, <2>2 DEF b
<1> QED
  BY <1>3, <1>8, <1>9, <1>10 DEF BufInv

LEMMA FreeHeadHeap ==
    ASSUME NEW f \in Files, ~Preempt, CInv, HInv, FreeBuffersHead(f)
    PROVE  EntryInv' /\ BufInv'
<1> USE DEF FreeBuffersHead, Goto
<1>0. PICK c \in heap_list : dma' = [dma EXCEPT ![ent[c].phys] = 0] /\ cur' = [cur EXCEPT ![f] = c]
  OBVIOUS
<1> DEFINE b == ent[c].phys
<1>1. /\ pc[f] \in {"reset", "last"} /\ pc'[f] \in {"resetdel", "lastdel"} /\ cur'[f] = c
      /\ heap_list' = heap_list /\ kmem' = kmem /\ ent' = ent
      /\ OthersSame(f) /\ OthersAsleep(f) /\ OthersAsleep(f)'
  BY <1>0, StepFacts DEF OthersSame, OthersAsleep, Asleep
<1>3. EntryInv'
  BY <1>0, <1>1 DEF HInv, EntryInv, OthersSame
<1>4. Held = {} /\ BeingFreed = {} /\ Held' = {} /\ BeingFreed' = {c}
  BY <1>1, WhoOwns, WhoOwnsNext DEF Mine
<1>5. Owned = heap_list /\ Owned' = heap_list \ {c}
  BY <1>1, <1>4 DEF Owned
<1>6. b \in Bufs /\ \A e \in heap_list \ {c} : ent[e].phys # b
  BY <1>4, <1>5 DEF HInv, BufInv
<1>7. dma'[b] = 0 /\ \A x \in Bufs \ {b} : dma'[x] = dma[x]
  BY <1>0, <1>1, <1>6, StepFacts DEF CInv, TypeOK
<1> HIDE DEF b
<1>8. \A e \in Owned' : /\ ent'[e].phys \in Bufs /\ dma'[ent'[e].phys] # 0
                        /\ ent'[e].size = dma'[ent'[e].phys]
                        /\ ent'[e].asked <= ent'[e].size
  BY <1>1, <1>5, <1>6, <1>7 DEF HInv, BufInv
<1>9. \A e1, e2 \in heap_list' \cup Held' : ent'[e1].phys = ent'[e2].phys => e1 = e2
  BY <1>1, <1>4 DEF HInv, BufInv
<1>10. \A x \in Allocated' : \E e \in Owned' : ent'[e].phys = x
  <2> SUFFICES ASSUME NEW x \in Bufs, dma'[x] # 0 PROVE \E e \in heap_list \ {c} : ent[e].phys = x
    BY <1>1, <1>5 DEF Allocated
  <2>1. x # b /\ x \in Allocated
    BY <1>7 DEF Allocated
  <2>2. PICK e \in Owned : ent[e].phys = x
    BY <2>1 DEF HInv, BufInv
  <2> QED
    BY <1>5, <2>1, <2>2 DEF b
<1> QED
  BY <1>3, <1>8, <1>9, <1>10 DEF BufInv

LEMMA FreeDelHeap ==
    ASSUME NEW f \in Files, ~Preempt, CInv, HInv, FreeBuffersDel(f)
    PROVE  EntryInv' /\ BufInv'
<1> USE DEF FreeBuffersDel, kfree, Return
<1> DEFINE c == cur[f]
<1>1. /\ pc[f] \in {"resetdel", "lastdel"} /\ pc'[f] \in {"reset", "last"}
      /\ heap_list' = heap_list \ {c} /\ kmem' = kmem \ {c} /\ dma' = dma
      /\ OthersSame(f) /\ OthersAsleep(f) /\ OthersAsleep(f)'
  BY StepFacts DEF OthersSame, OthersAsleep
<1>2. c \in heap_list
  BY <1>1 DEF HInv, EntryInv
<1>3. EntryInv'
  BY <1>1, <1>2 DEF HInv, EntryInv, OthersSame, OthersAsleep, Asleep
<1>4. Held = {} /\ BeingFreed = {c} /\ Held' = {} /\ BeingFreed' = {}
  BY <1>1, WhoOwns, WhoOwnsNext DEF Mine
<1>5. Owned' = Owned /\ Owned = heap_list \ {c} /\ Allocated' = Allocated
  BY <1>1, <1>4 DEF Owned, Allocated
<1>6. \A e \in heap_list \ {c} : ent'[e] = ent[e]
  BY StepFacts DEF CInv, TypeOK
<1> HIDE DEF c
<1> QED
  BY <1>1, <1>3, <1>4, <1>5, <1>6 DEF HInv, BufInv

\* The list is empty once every file is closed: only the file that counted
\* open_count down to 0 closes last, and it has emptied the list.
LEMMA ClosedStep ==
    ASSUME NEW f \in Files, ~Preempt, CInv, HInv, FileNext(f)
    PROVE  ClosedInv'
<1> SUFFICES ASSUME \A g \in Files : pc'[g] = "closed" PROVE heap_list' = {}
  BY DEF ClosedInv
<1> USE DEF CInv
<1>1. pc \in [Files -> Pcs] /\ pc'[f] = "closed"
  BY TypeParts DEF LocTypes
<1>2. ReleaseStore(f) \/ FreeBuffersDone(f)
  BY <1>1 DEF FileNext, OpenLoad, OpenStore, ReleaseLoad, GetBuffer, AllocEntry, AllocEntryFail,
     AllocBuffer, AllocBufferFail, AddEntry, FreeBuffer, Unlink, FreeEntry, HardReset,
     FreeBuffersHead, FreeBuffersDel, Mmap, Munmap, At, Goto, Return
<1>3. CASE ReleaseStore(f)
  <2>1. pc[f] = "release" /\ reg[f] # 0 /\ reg[f] = open_count - 1
    BY <1>1, <1>3 DEF ReleaseStore, At, Return, Counting
  <2>2. \A g \in Files \ {f} : pc[g] = "closed"
    BY <1>1, <1>3 DEF ReleaseStore, Return
  <2>3. Opened = {f}
    BY <2>1, <2>2 DEF Opened
  <2>4. open_count = 1
    BY <2>3, FS_Singleton DEF Counting
  <2> QED
    BY <2>1, <2>4
<1>4. CASE FreeBuffersDone(f)
  BY <1>4 DEF FreeBuffersDone
<1> QED
  BY <1>2, <1>3, <1>4

LEMMA FileHeap ==
    ASSUME NEW f \in Files, ~Preempt, CInv, HInv, FileNext(f)
    PROVE  HInv'
<1>1. EntryInv' /\ BufInv'
  BY PlainHeap, AllocEntryHeap, AllocBufferHeap, MoveEntryHeap, FreeEntryHeap, FreeHeadHeap,
     FreeDelHeap DEF FileNext
<1>2. UNCHANGED modVars
  BY DEF FileNext, OpenLoad, OpenStore, ReleaseLoad, ReleaseStore, GetBuffer, AllocEntry,
     AllocEntryFail, AllocBuffer, AllocBufferFail, AddEntry, FreeBuffer, Unlink, FreeEntry,
     HardReset, FreeBuffersHead, FreeBuffersDel, FreeBuffersDone, Mmap, Munmap
<1>3. pc[f] # "closed" \/ "device" \in kobj
  BY DEF FileNext, OpenLoad, OpenStore, ReleaseLoad, ReleaseStore, GetBuffer, AllocEntry,
     AllocEntryFail, AllocBuffer, AllocBufferFail, AddEntry, FreeBuffer, Unlink, FreeEntry,
     HardReset, FreeBuffersHead, FreeBuffersDel, FreeBuffersDone, Mmap, Munmap, At
<1>4. mpc = "up"
  BY <1>3 DEF HInv, ModInv, CInv, TypeOK
<1>5. ModInv'
  BY <1>2, <1>4 DEF HInv, ModInv
<1> QED
  BY <1>1, <1>5, ClosedStep DEF HInv

LEMMA ModuleHeap ==
    ASSUME CInv, HInv, ModuleNext
    PROVE  HInv'
<1> USE DEF ModuleNext, LoadChrdev, LoadClass, LoadDevice, LoadError2, LoadError1, LoadStep, Cleanup
<1>1. UNCHANGED <<pc, cur, want>> /\ (UNCHANGED heapVars \/ Cleanup)
  OBVIOUS
<1>2. ModInv'
  BY <1>1 DEF HInv, ModInv, CInv, TypeOK
<1>3. CASE UNCHANGED heapVars
  <2>1. Held' = Held /\ BeingFreed' = BeingFreed
    BY <1>1 DEF Held, BeingFreed
  <2>2. Owned' = Owned /\ Allocated' = Allocated
    BY <1>3, <2>1 DEF Owned, Allocated
  <2>3. EntryInv' /\ ClosedInv'
    BY <1>1, <1>3 DEF HInv, EntryInv, ClosedInv
  <2>4. BufInv'
    BY <1>3, <2>1, <2>2 DEF HInv, BufInv
  <2> QED
    BY <1>2, <2>3, <2>4 DEF HInv
<1>4. CASE Cleanup
  <2>1. heap_list = {} /\ heap_list' = {} /\ \A f \in Files : pc[f] = "closed"
    BY <1>4 DEF HInv, ClosedInv
  <2>2. Held = {} /\ Held' = {}
    BY <1>1, <2>1 DEF Held
  <2>3. Owned = {} /\ Owned' = {}
    BY <2>1, <2>2 DEF Owned
  <2>4. Allocated = {} /\ \A b \in Bufs : dma[b] = 0
    BY <2>3 DEF HInv, BufInv, Allocated
  <2>5. Allocated' = {}
    BY <1>4, <2>4 DEF Allocated
  <2>6. EntryInv' /\ ClosedInv'
    BY <1>1, <2>1 DEF EntryInv, ClosedInv
  <2>7. BufInv'
    BY <2>1, <2>2, <2>3, <2>5 DEF BufInv
  <2> QED
    BY <1>2, <2>6, <2>7 DEF HInv
<1> QED
  BY <1>1, <1>3, <1>4

IInv == CInv /\ HInv

LEMMA IInit == Init => IInv
BY CInit, HInit DEF IInv

LEMMA INext == ASSUME ~Preempt PROVE IInv /\ [Next]_vars => IInv'
<1> SUFFICES ASSUME IInv, [Next]_vars PROVE HInv'
  BY CNext DEF IInv
<1>1. ASSUME NEW f \in Files, FileNext(f) PROVE HInv'
  BY <1>1, FileHeap DEF IInv
<1>2. CASE ModuleNext
  BY <1>2, ModuleHeap DEF IInv
<1>3. CASE UNCHANGED vars
  BY <1>3 DEF vars, IInv, HInv, EntryInv, BufInv, ModInv, ClosedInv, Owned, Held,
     BeingFreed, Allocated
<1> QED
  BY <1>1, <1>2, <1>3 DEF Next

\* The properties follow from the invariant in every state.
LEMMA IInvImplies ==
    ASSUME IInv
    PROVE  /\ EveryBufferRemembered
           /\ LastCloseFreesAll
           /\ BufferCoversRequest
           /\ UnloadedLeavesNothing
<1> USE DEF IInv, HInv
<1>1. EveryBufferRemembered
  <2>1. ASSUME NEW b \in Allocated
        PROVE  \E e \in kmem : /\ ent[e].phys = b
                               /\ e \in heap_list \/ \E f \in Files : Holds(f, e)
    <3>1. PICK e \in Owned : ent[e].phys = b
      BY DEF BufInv
    <3>2. e \in kmem /\ (e \in heap_list \/ \E f \in Files : Holds(f, e))
      BY DEF Owned, Held, Holds, EntryInv
    <3> QED
      BY <3>1, <3>2
  <2>2. \A e \in heap_list \ BeingFreed : e \in kmem /\ ent[e].phys \in Allocated
    BY DEF Owned, EntryInv, BufInv, Allocated
  <2>3. \A e1, e2 \in heap_list : ent[e1].phys = ent[e2].phys => e1 = e2
    BY DEF BufInv
  <2> QED
    BY <2>1, <2>2, <2>3 DEF EveryBufferRemembered
<1>2. ASSUME \A f \in Files : pc[f] = "closed" PROVE heap_list = {} /\ Allocated = {}
  <2>1. heap_list = {} /\ Held = {}
    BY <1>2 DEF ClosedInv, Held
  <2>2. Owned = {}
    BY <2>1 DEF Owned
  <2> QED
    BY <2>1, <2>2 DEF BufInv
<1>3. LastCloseFreesAll
  BY <1>2 DEF LastCloseFreesAll
<1>4. BufferCoversRequest
  BY DEF BufferCoversRequest, BufInv, Owned
<1>5. UnloadedLeavesNothing
  BY <1>2 DEF UnloadedLeavesNothing, ModInv
<1> QED
  BY <1>1, <1>3, <1>4, <1>5

\* The types of the driver's state, with and without preemption: no handler
\* puts anything but an entry on the list.
THEOREM TypeCorrect == Spec => []TypeOK
<1>1. Init => TypeOK /\ CurIsEntry
  BY CInit DEF CInv
<1> QED
  BY <1>1, TypeNext, PTL DEF Spec

\* On a kernel without preemption, no DMA buffer is lost and none is freed
\* twice, although AllocMemory sleeps.
THEOREM BuffersRemembered == ASSUME ~Preempt PROVE Spec => []EveryBufferRemembered
BY IInit, INext, IInvImplies, PTL DEF Spec

\* On a kernel without preemption, a buffer on the list is never smaller than
\* the request, whatever PAGE_ALIGN makes of it.
THEOREM RequestsCovered == ASSUME ~Preempt PROVE Spec => []BufferCoversRequest
BY IInit, INext, IInvImplies, PTL DEF Spec

\* On a kernel without preemption, failed loading and unloading undo what
\* loading did and no buffer is left.
THEOREM NothingLeftLoaded == ASSUME ~Preempt PROVE Spec => []UnloadedLeavesNothing
BY IInit, INext, IInvImplies, PTL DEF Spec

\* On a kernel without preemption, memalloc_mmap maps allocated memory only,
\* and no more than the buffer has.
THEOREM MapsAreLive == ASSUME ~Preempt PROVE Spec => MapsLiveBuffer
<1>1. ASSUME IInv, [Next]_vars
      PROVE  [\A m \in maps' \ maps : m[2] \in Allocated /\ m[3] <= dma[m[2]]]_vars
  <2>1. CASE ModuleNext \/ UNCHANGED vars
    BY <2>1 DEF vars, ModuleNext, LoadChrdev, LoadClass, LoadDevice, LoadError2, LoadError1,
       LoadStep, Cleanup
  <2>2. ASSUME NEW f \in Files, FileNext(f), NEW m \in maps' \ maps
        PROVE  m[2] \in Allocated /\ m[3] <= dma[m[2]]
    <3>1. PICK b \in Bufs, n \in Sizes : Mmap(f, b, n)
      BY <2>2 DEF FileNext, OpenLoad, OpenStore, ReleaseLoad, ReleaseStore, GetBuffer, AllocEntry,
         AllocEntryFail, AllocBuffer, AllocBufferFail, AddEntry, FreeBuffer, Unlink, FreeEntry,
         HardReset, FreeBuffersHead, FreeBuffersDel, FreeBuffersDone, Munmap
    <3>2. m = <<f, b, n>>
      BY <2>2, <3>1 DEF Mmap
    <3>3. PICK e \in heap_list : ent[e].phys = b /\ n = ent[e].size
      BY <3>1 DEF Mmap, FindEntryByBus
    <3>4. OthersAsleep(f) /\ pc[f] = "idle"
      BY <1>1, <3>1, StepFacts DEF Mmap, At, IInv
    <3>5. e \in Owned
      BY <3>3, <3>4, WhoOwns DEF Owned, Mine
    <3>6. b \in Bufs /\ dma[b] # 0 /\ n = dma[b]
      BY <1>1, <3>3, <3>5 DEF IInv, HInv, BufInv
    <3>7. n \in Nat
      BY SizesAreWords
    <3> QED
      BY <3>2, <3>6, <3>7 DEF Allocated
  <2> QED
    BY <1>1, <2>1, <2>2 DEF Next
<1> QED
  BY <1>1, IInit, INext, PTL DEF Spec, MapsLiveBuffer
=============================================================================

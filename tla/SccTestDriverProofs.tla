------------------------ MODULE SccTestDriverProofs ------------------------
(***************************************************************************)
(* What the handlers of scc_test_driver.c keep, for any number of          *)
(* processes, slots and owners, although no lock is held across the        *)
(* controller calls of one ioctl.                                          *)
(***************************************************************************)
EXTENDS SccTestDriver, FiniteSetTheorems, TLAPS

Pcs == {"closed", "idle", "load", "encrypt", "cipher", "ret", "stale"}

Replies == [ret : {"zero", "pos", "neg"}, told : {"none", "ok", "fail"}, done : BOOLEAN]

\* The files whose open took a reference that no release gave back.
Opened == {p \in Procs : pc[p] # "closed"}

\* Registration follows the life cycle: until InitSetup, and again after a
\* failed insmod, the number is not this driver's.
Registration ==
    /\ mpc \in {"setup", "monitor", "up"} => scc_test_major_node = InitMajor
    /\ mpc \in {"out", "setup", "failed"} => InitMajor = 0 \/ chrdev # "scc"

\* A handler between its two controller calls has a slot and an owner.
SlotNamed ==
    \A p \in Procs : pc[p] \in {"load", "encrypt"} => at[p] \in Slots /\ id[p] \in Owners

\* The use count is the number of open files as long as nobody called mmap.
Counted ==
    mmaps = 0 => /\ refs = Cardinality(Opened)
                 /\ mpc # "up" => \A p \in Procs : pc[p] = "closed"

IInv ==
    /\ TypeOK
    /\ Registration
    /\ SlotNamed
    /\ CipherAreasFreed
    /\ SuccessIsReal
    /\ Counted
    /\ FileKeepsModule

USE DEF modVars, refVars, slotVars, locVars

\* The initial states: nothing is loaded and no call runs.
LEMMA InitIInv == Init => IInv
<1> SUFFICES ASSUME Init PROVE IInv
  OBVIOUS
<1>1. NoReply \in Replies
  BY DEF NoReply, Replies
<1>2. chrdev \in {"none", "other"}
  BY DEF Init
<1>3. TypeOK
  <2>1. res \in [Procs -> Replies]
    BY <1>1 DEF Init
  <2>2. lost \in 0 .. KernelMem /\ mmaps \in 0 .. MaxMmap /\ refs \in Int
    BY SccAssumption DEF Init
  <2>3. /\ mpc \in {"out", "setup", "monitor", "failed", "up"}
        /\ error_code \in BOOLEAN /\ callback \in BOOLEAN
        /\ scc_test_major_node \in {0, InitMajor}
        /\ chrdev \in {"none", "scc", "other"}
    BY <1>2 DEF Init
  <2>4. /\ pc \in [Procs -> Pcs]
        /\ at \in [Procs -> Slots \cup {Nobody}]
        /\ id \in [Procs -> Owners \cup {Nobody}]
        /\ st \in [Procs -> BOOLEAN]
        /\ keycopied \in [Procs -> BOOLEAN]
        /\ areas \in [Procs -> SUBSET {"in", "out"}]
        /\ owner \in [Slots -> Owners \cup {Nobody}]
        /\ key \in [Slots -> Owners \cup {Nobody}]
    BY DEF Init, Pcs
  <2> QED
    BY <2>1, <2>2, <2>3, <2>4 DEF TypeOK, Replies, Pcs
<1>4. Registration /\ SlotNamed
  BY <1>2 DEF Init, Registration, SlotNamed
<1>5. CipherAreasFreed /\ SuccessIsReal /\ FileKeepsModule
  BY DEF Init, CipherAreasFreed, SuccessIsReal, FileKeepsModule
<1>6. Opened = {}
  BY DEF Init, Opened
<1>7. Counted
  BY <1>6, FS_EmptySet DEF Init, Counted
<1> QED
  BY <1>3, <1>4, <1>5, <1>7 DEF IInv

\* scc_test_init leaves files and calls alone.
LEMMA LoadKeeps ==
    ASSUME IInv, InitStatus \/ InitSetup \/ InitMonitor \/ InitFailed
    PROVE  IInv'
<1> USE DEF InitStatus, InitSetup, InitMonitor, InitFailed, LoadStep, IInv
<1>1. TypeOK'
  BY SccAssumption DEF TypeOK, UnregisterIfMajor
<1>2. Registration'
  BY SccAssumption DEF Registration, TypeOK, UnregisterIfMajor
<1>3. SlotNamed' /\ CipherAreasFreed'
  BY DEF SlotNamed, CipherAreasFreed
<1>4. SuccessIsReal' /\ FileKeepsModule'
  BY DEF SuccessIsReal, FileKeepsModule
<1>5. Opened' = Opened
  BY DEF Opened
<1>6. Counted'
  BY <1>5 DEF Counted
<1> QED
  BY <1>1, <1>2, <1>3, <1>4, <1>6

\* rmmod: without mmap the use count 0 means that all files are closed.
LEMMA UnloadKeeps ==
    ASSUME IInv, Cleanup
    PROVE  IInv'
<1> USE DEF Cleanup, Unload, IInv
<1>1. TypeOK'
  BY SccAssumption DEF TypeOK, UnregisterIfMajor
<1>2. Registration'
  BY SccAssumption DEF Registration, TypeOK, UnregisterIfMajor
<1>3. SlotNamed'
  BY DEF SlotNamed, TypeOK
<1>4. CipherAreasFreed' /\ SuccessIsReal'
  BY DEF CipherAreasFreed, SuccessIsReal, TypeOK
<1>5. ASSUME mmaps = 0 PROVE \A p \in Procs : pc[p] = "closed"
  <2>1. IsFiniteSet(Opened)
    BY SccAssumption, FS_Subset DEF Opened
  <2>2. Cardinality(Opened) = 0
    BY <1>5 DEF Counted
  <2>3. Opened = {}
    BY <2>1, <2>2, FS_EmptySet
  <2> QED
    BY <2>3 DEF Opened
<1>6. ASSUME mmaps = 0 PROVE \A p \in Procs : pc'[p] = "closed"
  BY <1>5, <1>6 DEF TypeOK
<1>7. ASSUME mmaps = 0 PROVE Opened' = Opened
  BY <1>5, <1>6, <1>7 DEF Opened
<1>8. Counted' /\ FileKeepsModule'
  BY <1>6, <1>7 DEF Counted, FileKeepsModule
<1> QED
  BY <1>1, <1>2, <1>3, <1>4, <1>8

\* scc_test_open takes a reference, scc_test_release gives it back, also when
\* it is called as mmap handler.
LEMMA FileKeeps ==
    ASSUME NEW p \in Procs, IInv, Open(p) \/ Release(p) \/ Mmap(p)
    PROVE  IInv'
<1> USE DEF Open, Release, Mmap, IInv
<1>1. TypeOK'
  BY SccAssumption DEF TypeOK
<1>2. Registration' /\ SlotNamed'
  BY DEF Registration, SlotNamed, TypeOK
<1>3. CipherAreasFreed' /\ SuccessIsReal' /\ FileKeepsModule'
  <2>1. CipherAreasFreed'
    BY DEF CipherAreasFreed, TypeOK
  <2>2. SuccessIsReal'
    BY DEF SuccessIsReal, TypeOK
  <2>3. FileKeepsModule'
    BY DEF FileKeepsModule, TypeOK
  <2> QED
    BY <2>1, <2>2, <2>3
<1>4. IsFiniteSet(Opened)
  BY SccAssumption, FS_Subset DEF Opened
<1>5. Counted'
  <2>1. CASE Open(p)
    <3>1. Opened' = Opened \cup {p} /\ p \notin Opened
      BY <2>1 DEF Opened, TypeOK
    <3> QED
      BY <1>4, <2>1, <3>1, FS_AddElement DEF Counted
  <2>2. CASE Release(p)
    <3>1. Opened' = Opened \ {p} /\ p \in Opened
      BY <2>2 DEF Opened, TypeOK
    <3> QED
      BY <1>4, <2>2, <3>1, FS_RemoveElement DEF Counted
  <2>3. CASE Mmap(p)
    BY <2>3, SccAssumption DEF Counted, TypeOK
  <2> QED
    BY <2>1, <2>2, <2>3
<1> QED
  BY <1>1, <1>2, <1>3, <1>5

-----------------------------------------------------------------------------

\* What a step of an ioctl leaves alone.
Frame(p) ==
    /\ UNCHANGED <<modVars, refVars>>
    /\ pc' = [pc EXCEPT ![p] = pc'[p]]
    /\ at' = [at EXCEPT ![p] = at'[p]]
    /\ id' = [id EXCEPT ![p] = id'[p]]
    /\ st' = [st EXCEPT ![p] = st'[p]]
    /\ keycopied' = [keycopied EXCEPT ![p] = keycopied'[p]]
    /\ areas' = [areas EXCEPT ![p] = areas'[p]]
    /\ res' = [res EXCEPT ![p] = res'[p]]

\* What it has to establish for its own process.
Good(p) ==
    /\ pc[p] \in {"load", "encrypt"} => at[p] \in Slots /\ id[p] \in Owners
    /\ pc[p] \notin {"cipher", "stale"} => areas[p] = {}
    /\ pc[p] = "ret" /\ res[p].ret = "zero" /\ res[p].told = "ok" /\ keycopied[p]
          => res[p].done

Running == {"idle", "load", "encrypt", "cipher", "ret"}

LocTypes(p) ==
    /\ pc[p] \in Running
    /\ at[p] \in Slots \cup {Nobody}
    /\ id[p] \in Owners \cup {Nobody}
    /\ st[p] \in BOOLEAN
    /\ keycopied[p] \in BOOLEAN
    /\ areas[p] \in SUBSET {"in", "out"}
    /\ res[p] \in Replies

\* A step of an ioctl touches its own process and the shared slots.
LEMMA FrameStep ==
    ASSUME NEW p \in Procs, IInv, pc[p] \in Running, Frame(p),
           LocTypes(p)', Good(p)', lost' \in 0 .. KernelMem,
           owner' \in [Slots -> Owners \cup {Nobody}],
           key' \in [Slots -> Owners \cup {Nobody}]
    PROVE  IInv'
<1>1. TypeOK'
  <2>1. /\ mpc' \in {"out", "setup", "monitor", "failed", "up"}
        /\ error_code' \in BOOLEAN /\ callback' \in BOOLEAN
        /\ scc_test_major_node' \in {0, InitMajor}
        /\ chrdev' \in {"none", "scc", "other"}
        /\ refs' \in Int /\ mmaps' \in 0 .. MaxMmap
    BY DEF IInv, TypeOK, Frame
  <2>2. pc' \in [Procs -> Pcs]
    <3>1. pc \in [Procs -> Pcs] /\ pc'[p] \in Pcs /\ pc' = [pc EXCEPT ![p] = pc'[p]]
      BY DEF IInv, TypeOK, Frame, LocTypes, Running, Pcs
    <3> QED
      BY <3>1
  <2>5. /\ at' \in [Procs -> Slots \cup {Nobody}]
        /\ id' \in [Procs -> Owners \cup {Nobody}]
    BY DEF IInv, TypeOK, Frame, LocTypes
  <2>6. /\ st' \in [Procs -> BOOLEAN]
        /\ keycopied' \in [Procs -> BOOLEAN]
    BY DEF IInv, TypeOK, Frame, LocTypes
  <2>3. areas' \in [Procs -> SUBSET {"in", "out"}]
    BY DEF IInv, TypeOK, Frame, LocTypes
  <2>4. res' \in [Procs -> Replies]
    <3>1. res \in [Procs -> Replies] /\ res'[p] \in Replies /\ res' = [res EXCEPT ![p] = res'[p]]
      BY DEF IInv, TypeOK, Frame, LocTypes, Replies
    <3> QED
      BY <3>1
  <2> QED
    BY <2>1, <2>2, <2>3, <2>4, <2>5, <2>6 DEF TypeOK, Replies, Pcs
<1>2. Registration'
  BY DEF IInv, Registration, Frame
<1>3. ASSUME NEW q \in Procs PROVE Good(q)'
  <2>1. CASE q = p
    BY <2>1
  <2>2. CASE q # p
    BY <2>2 DEF IInv, TypeOK, Frame, Good, SlotNamed, CipherAreasFreed, SuccessIsReal
  <2> QED
    BY <2>1, <2>2
<1>4. SlotNamed' /\ CipherAreasFreed' /\ SuccessIsReal'
  BY <1>3 DEF Good, SlotNamed, CipherAreasFreed, SuccessIsReal
<1>5. Opened' = Opened
  BY DEF IInv, TypeOK, Frame, Opened, LocTypes, Running
<1>6. ASSUME mmaps = 0 PROVE mpc = "up"
  BY <1>6 DEF IInv, Counted, Running
<1>7. Counted' /\ FileKeepsModule'
  BY <1>5, <1>6 DEF IInv, TypeOK, Counted, FileKeepsModule, Frame, LocTypes, Running
<1> QED
  BY <1>1, <1>2, <1>4, <1>7 DEF IInv

\* A reply that does not promise more than was done.
Honest(r) == r.ret = "zero" /\ r.told = "ok" => r.done

\* A step that ends in a reply.
Answers(p) ==
    \E r \in Replies : /\ Honest(r) \/ ~keycopied'[p]
                       /\ pc' = [pc EXCEPT ![p] = "ret"]
                       /\ res' = [res EXCEPT ![p] = r]

\* The reply of a slot command.
LEMMA CopyOutIs ==
    ASSUME NEW p \in Procs, NEW ok \in BOOLEAN, NEW done \in BOOLEAN, CopyOut(p, ok, done),
           ok => done \/ ~keycopied'[p]
    PROVE  Answers(p)
BY DEF CopyOut, Reply, Told, Answers, Replies, Honest

\* The reply of a register or cipher command.
LEMMA CopyOutCodeIs ==
    ASSUME NEW p \in Procs, NEW code \in {"zero", "pos", "neg"}, NEW ok \in BOOLEAN,
           NEW done \in BOOLEAN, CopyOutCode(p, code, ok, done),
           code = "zero" /\ ok => done
    PROVE  Answers(p)
BY DEF CopyOutCode, Reply, Told, Answers, Replies, Honest

\* A reply without a status.
LEMMA ReplyIs ==
    ASSUME NEW p \in Procs, NEW ret \in {"zero", "pos", "neg"}, NEW done \in BOOLEAN,
           Reply(p, ret, "none", done)
    PROVE  Answers(p)
BY DEF Reply, Answers, Replies, Honest

\* A step that answers keeps the invariant if the slots stay in order.
LEMMA AnswerStep ==
    ASSUME NEW p \in Procs, IInv, pc[p] \in Running, Answers(p),
           UNCHANGED <<modVars, refVars, at, id, st>>,
           NEW c \in BOOLEAN, keycopied' = [keycopied EXCEPT ![p] = c],
           areas' = [areas EXCEPT ![p] = {}], lost' \in 0 .. KernelMem,
           owner' \in [Slots -> Owners \cup {Nobody}],
           key' \in [Slots -> Owners \cup {Nobody}]
    PROVE  IInv'
<1>1. PICK r \in Replies : /\ Honest(r) \/ ~keycopied'[p]
                           /\ pc' = [pc EXCEPT ![p] = "ret"]
                           /\ res' = [res EXCEPT ![p] = r]
  BY DEF Answers
<1>2. Frame(p)
  BY <1>1 DEF Frame, IInv, TypeOK
<1>3. LocTypes(p)'
  BY <1>1 DEF LocTypes, IInv, TypeOK, Running
<1>4. Good(p)'
  BY <1>1 DEF Good, IInv, TypeOK, Honest
<1> QED
  BY <1>2, <1>3, <1>4, FrameStep

\* What the caller of AnswerStep knows of a running handler.
LEMMA Idle ==
    ASSUME NEW p \in Procs, IInv, pc[p] \in {"idle", "load", "encrypt", "ret"}
    PROVE  /\ areas = [areas EXCEPT ![p] = {}]
           /\ keycopied = [keycopied EXCEPT ![p] = keycopied[p]] /\ keycopied[p] \in BOOLEAN
           /\ lost \in 0 .. KernelMem
           /\ owner \in [Slots -> Owners \cup {Nobody}]
           /\ key \in [Slots -> Owners \cup {Nobody}]
BY DEF IInv, TypeOK, CipherAreasFreed

\* Commands that touch neither slots nor memory.
LEMMA PlainStep ==
    ASSUME NEW p \in Procs, IInv,
           \/ GetConfiguration(p) \/ RegisterAccess(p) \/ InvalidCmd(p)
           \/ SetAlarm(p) \/ CopyInFails(p) \/ CipherNoStruct(p)
           \/ \E o \in Owners, s \in Slots : GetSlotInfo(p, o, s)
    PROVE  IInv'
<1> USE DEF Starts
<1>1. UNCHANGED <<modVars, refVars, locVars, areas, lost, slotVars>> /\ pc[p] = "idle"
  BY DEF GetConfiguration, RegisterAccess, InvalidCmd, SetAlarm, CopyInFails,
     CipherNoStruct, GetSlotInfo
<1>2. Answers(p)
  <2>1. CASE GetConfiguration(p)
    BY <2>1, ReplyIs DEF GetConfiguration
  <2>2. CASE RegisterAccess(p)
    BY <2>2, CopyOutCodeIs DEF RegisterAccess
  <2>3. CASE InvalidCmd(p)
    BY <2>3, ReplyIs DEF InvalidCmd
  <2>4. CASE SetAlarm(p)
    BY <2>4, ReplyIs DEF SetAlarm
  <2>5. CASE CopyInFails(p)
    BY <2>5, ReplyIs DEF CopyInFails
  <2>6. CASE CipherNoStruct(p)
    BY <2>6, CopyOutCodeIs DEF CipherNoStruct
  <2>7. ASSUME NEW o \in Owners, NEW s \in Slots, GetSlotInfo(p, o, s) PROVE Answers(p)
    BY <2>7, CopyOutIs DEF GetSlotInfo
  <2> QED
    BY <2>1, <2>2, <2>3, <2>4, <2>5, <2>6, <2>7
<1> QED
  BY <1>1, <1>2, Idle, AnswerStep DEF Running

\* Commands that change the slots in one controller call.
LEMMA SlotStep ==
    ASSUME NEW p \in Procs, IInv,
           \/ Zeroize(p)
           \/ \E o \in Owners : AllocSlot(p, o)
           \/ \E o \in Owners, s \in Slots : DeallocSlot(p, o, s)
    PROVE  IInv'
<1> USE DEF Starts
<1>1. UNCHANGED <<modVars, refVars, locVars, areas, lost>> /\ pc[p] = "idle"
  BY DEF Zeroize, AllocSlot, DeallocSlot
<1>2. Answers(p)
  BY CopyOutIs DEF Zeroize, AllocSlot, DeallocSlot
<1>3. /\ owner' \in [Slots -> Owners \cup {Nobody}]
      /\ key' \in [Slots -> Owners \cup {Nobody}]
  <2>0. /\ owner \in [Slots -> Owners \cup {Nobody}]
        /\ key \in [Slots -> Owners \cup {Nobody}]
        /\ [s \in Slots |-> Nobody] \in [Slots -> Owners \cup {Nobody}]
    BY DEF IInv, TypeOK
  <2>1. CASE Zeroize(p)
    BY <2>0, <2>1 DEF Zeroize
  <2>2. ASSUME NEW o \in Owners, AllocSlot(p, o)
        PROVE  /\ owner' \in [Slots -> Owners \cup {Nobody}]
               /\ key' \in [Slots -> Owners \cup {Nobody}]
    BY <2>0, <2>2 DEF AllocSlot
  <2>3. ASSUME NEW o \in Owners, NEW s \in Slots, DeallocSlot(p, o, s)
        PROVE  /\ owner' \in [Slots -> Owners \cup {Nobody}]
               /\ key' \in [Slots -> Owners \cup {Nobody}]
    BY <2>0, <2>3 DEF DeallocSlot
  <2> QED
    BY <2>1, <2>2, <2>3
<1> QED
  BY <1>1, <1>2, <1>3, Idle, AnswerStep DEF Running

\* The first half of a load or encrypt command.
LEMMA SlotInfoStep ==
    ASSUME NEW p \in Procs, NEW o \in Owners, NEW s \in Slots,
           NEW next \in {"load", "encrypt"}, IInv, SlotInfo(p, o, s, next)
    PROVE  IInv'
<1> USE DEF Starts, SlotInfo
<1>1. CASE pc' = [pc EXCEPT ![p] = next] /\ at' = [at EXCEPT ![p] = s]
           /\ id' = [id EXCEPT ![p] = o] /\ st' = [st EXCEPT ![p] = TRUE] /\ UNCHANGED res
  <2>1. Frame(p)
    BY <1>1 DEF Frame, IInv, TypeOK
  <2>2. LocTypes(p)'
    BY <1>1 DEF LocTypes, IInv, TypeOK, Running, Replies
  <2>3. Good(p)'
    BY <1>1 DEF Good, IInv, TypeOK, CipherAreasFreed
  <2> QED
    BY <2>1, <2>2, <2>3, Idle, FrameStep DEF Running
<1>2. CASE CopyOut(p, FALSE, FALSE) /\ UNCHANGED <<at, id, st>>
  <2>1. Answers(p)
    BY <1>2, CopyOutIs
  <2> QED
    BY <1>2, <2>1, Idle, AnswerStep DEF Running
<1> QED
  BY <1>1, <1>2

\* The second half of a load or encrypt command: the controller looks at the
\* owner again.
LEMMA KeyStep ==
    ASSUME NEW p \in Procs, IInv,
           \/ LoadNoMemory(p) \/ LoadNoKey(p) \/ LoadKey(p)
           \/ EncryptNoMemory(p) \/ EncryptKey(p)
    PROVE  IInv'
<1> USE DEF Runs
<1>1. /\ UNCHANGED <<modVars, refVars, at, id, st, areas, owner>>
      /\ pc[p] \in {"load", "encrypt"}
  BY DEF LoadNoMemory, LoadNoKey, LoadKey, EncryptNoMemory, EncryptKey
<1>2. lost' \in 0 .. KernelMem
  <2>1. lost' = lost \/ (lost < KernelMem /\ lost' = lost + 1)
    BY DEF LoadNoMemory, LoadNoKey, LoadKey, EncryptNoMemory, EncryptKey,
       KeyBuffer, NoKeyBuffer
  <2>2. lost \in 0 .. KernelMem /\ KernelMem \in Nat
    BY SccAssumption DEF IInv, TypeOK
  <2> QED
    BY <2>1, <2>2
<1>3. at[p] \in Slots /\ id[p] \in Owners
  BY <1>1 DEF IInv, SlotNamed
<1>4. PICK c \in BOOLEAN : keycopied' = [keycopied EXCEPT ![p] = c]
  BY <1>1, Idle DEF LoadNoMemory, LoadNoKey, LoadKey, EncryptNoMemory, EncryptKey
<1>5. key' \in [Slots -> Owners \cup {Nobody}]
  BY <1>1, <1>3 DEF LoadNoMemory, LoadNoKey, LoadKey, EncryptNoMemory, EncryptKey,
     IInv, TypeOK
<1>6. Answers(p)
  <2>1. CASE LoadNoMemory(p) \/ EncryptNoMemory(p)
    BY <2>1, CopyOutIs DEF LoadNoMemory, EncryptNoMemory
  <2>2. CASE LoadNoKey(p)
    <3>1. st[p] \in BOOLEAN /\ ~keycopied'[p]
      BY <2>2 DEF LoadNoKey, IInv, TypeOK
    <3> QED
      BY <2>2, <3>1, CopyOutIs DEF LoadNoKey
  <2>3. CASE LoadKey(p)
    BY <2>3, CopyOutIs DEF LoadKey
  <2>4. CASE EncryptKey(p)
    BY <2>4, CopyOutIs, ReplyIs DEF EncryptKey
  <2> QED
    BY <2>1, <2>2, <2>3, <2>4
<1>7. owner' \in [Slots -> Owners \cup {Nobody}]
  BY <1>1 DEF IInv, TypeOK
<1> QED
  BY <1>1, <1>2, <1>4, <1>5, <1>6, <1>7, Idle, AnswerStep DEF Running

\* scc_test_cipher and the return to the process.
LEMMA CipherStep ==
    ASSUME NEW p \in Procs, IInv, CipherAlloc(p) \/ Cipher(p) \/ Return(p)
    PROVE  IInv'
<1> USE DEF Starts, Runs
<1>1. UNCHANGED <<lost, slotVars>>
  BY DEF CipherAlloc, Cipher, Return
<1>2. /\ lost \in 0 .. KernelMem
      /\ owner \in [Slots -> Owners \cup {Nobody}]
      /\ key \in [Slots -> Owners \cup {Nobody}]
      /\ keycopied = [keycopied EXCEPT ![p] = keycopied[p]] /\ keycopied[p] \in BOOLEAN
  BY DEF IInv, TypeOK
<1>3. CASE CipherAlloc(p)
  <2>1. Frame(p)
    BY <1>3 DEF CipherAlloc, Frame, IInv, TypeOK
  <2>2. LocTypes(p)' /\ Good(p)'
    BY <1>3 DEF CipherAlloc, LocTypes, Good, IInv, TypeOK, Running, Replies
  <2> QED
    BY <1>1, <1>2, <1>3, <2>1, <2>2, FrameStep DEF Running, CipherAlloc
<1>4. CASE Cipher(p)
  <2>1. Answers(p)
    BY <1>4, CopyOutCodeIs DEF Cipher
  <2> QED
    BY <1>1, <1>2, <1>4, <2>1, AnswerStep DEF Running, Cipher
<1>5. CASE Return(p)
  <2>1. Frame(p)
    BY <1>5 DEF Return, Frame, IInv, TypeOK
  <2>2. LocTypes(p)' /\ Good(p)'
    BY <1>5 DEF Return, LocTypes, Good, IInv, TypeOK, Running, Replies, NoReply,
       CipherAreasFreed
  <2> QED
    BY <1>1, <1>2, <1>5, <2>1, <2>2, FrameStep DEF Running, Return
<1> QED
  BY <1>3, <1>4, <1>5

\* Every step keeps the invariant.
LEMMA NextIInv == IInv /\ [Next]_vars => IInv'
<1> SUFFICES ASSUME IInv, [Next]_vars PROVE IInv'
  OBVIOUS
<1>1. CASE ModuleNext
  BY <1>1, LoadKeeps, UnloadKeeps DEF ModuleNext
<1>2. ASSUME NEW p \in Procs, Open(p) \/ Release(p) \/ Mmap(p) PROVE IInv'
  BY <1>2, FileKeeps
<1>3. ASSUME NEW p \in Procs, IoctlNext(p) PROVE IInv'
  BY <1>3, PlainStep, SlotStep, SlotInfoStep, KeyStep, CipherStep DEF IoctlNext
<1>4. ASSUME NEW p \in Procs, Return(p) PROVE IInv'
  BY <1>4, CipherStep
<1>5. CASE UNCHANGED vars
  <2>1. TypeOK' /\ Registration' /\ SlotNamed'
    BY <1>5 DEF IInv, vars, TypeOK, Registration, SlotNamed
  <2>2. CipherAreasFreed' /\ SuccessIsReal' /\ FileKeepsModule' /\ Counted'
    BY <1>5 DEF IInv, vars, CipherAreasFreed, SuccessIsReal, FileKeepsModule, Counted, Opened
  <2> QED
    BY <2>1, <2>2 DEF IInv
<1> QED
  BY <1>1, <1>2, <1>3, <1>4, <1>5 DEF Next

LEMMA Invariance == Spec => []IInv
BY InitIInv, NextIInv, PTL DEF Spec

-----------------------------------------------------------------------------

\* scc_test_init saves only a tested result as major number, slots keep
\* owners that were passed, and the rest has its type.
THEOREM TypeCorrect == Spec => []TypeOK
<1>1. IInv => TypeOK
  BY DEF IInv
<1> QED
  BY <1>1, Invariance, PTL

\* Every handler but load_slot without a readable key reports success only
\* for a request it has carried out.
THEOREM SuccessIsTrue == Spec => []SuccessIsReal
<1>1. IInv => SuccessIsReal
  BY DEF IInv
<1> QED
  BY <1>1, Invariance, PTL

\* scc_test_cipher leaves no kernel buffer behind, whichever copy or call of
\* it fails.
THEOREM CipherLeavesNoArea == Spec => []CipherAreasFreed
<1>1. IInv => CipherAreasFreed
  BY DEF IInv
<1> QED
  BY <1>1, Invariance, PTL

\* As long as mmap is not used, the module is not unloaded under an open file.
THEOREM OpenFileKeepsModule == Spec => []FileKeepsModule
<1>1. IInv => FileKeepsModule
  BY DEF IInv
<1> QED
  BY <1>1, Invariance, PTL

\* After rmmod and after a failed insmod the device is not registered.
THEOREM NotRegisteredWhenOut == Spec => []UnloadedIsUnregistered
<1>1. IInv => UnloadedIsUnregistered
  BY DEF IInv, Registration, UnloadedIsUnregistered
<1> QED
  BY <1>1, Invariance, PTL
=============================================================================

------------------------ MODULE Scc2TestDriverProofs ------------------------
(***************************************************************************)
(* What scc2_test_mutex is good for, for any number of processes,          *)
(* partitions and values: one process is in scc2_test_ioctl at a time, and *)
(* the text a call leaves in the user's buffer is that of the partition.   *)
(***************************************************************************)
EXTENDS Scc2TestDriver, TLAPS

Replies == [ret : {"zero", "pos", "neg"}, told : {"none", "ok", "fail"}, done : BOOLEAN]

PartCmds == {"engage", "encrypt", "decrypt", "load", "read", "release"}

\* A command on a partition has one, and a step of the cipher handler belongs
\* to a cipher command.
CallOK ==
    /\ res \in [Procs -> Replies]
    /\ \A p \in Procs :
        /\ pc[p] \notin {"closed", "idle"} /\ cmd[p] \in PartCmds => arg[p] \in Parts
        /\ pc[p] \in {"encrypt", "give"} => cmd[p] = "encrypt"
        /\ pc[p] \in {"decrypt", "dodecrypt"} => cmd[p] = "decrypt"

\* Between the steps of a cipher call nobody else touches what it works on.
BlackIsCurrent ==
    \A p \in Procs :
        /\ pc[p] = "give" /\ st[p] => Usable(arg[p]) /\ black[p] = Enc(data[arg[p]])
        /\ pc[p] = "dodecrypt" => black[p] = buf[p]
        /\ pc[p] \in {"encrypt", "give"} => black[p] \in Texts

IInv ==
    /\ TypeOK
    /\ CallOK
    /\ BlackIsCurrent
    /\ SuccessIsReal
    /\ BufferMatchesPartition
    /\ BlackMemoryFreed
    /\ UnloadedIsUnregistered

USE DEF partVars, modVars

\* The initial states: no call is running.
LEMMA InitIInv == Init => IInv
<1> SUFFICES ASSUME Init PROVE IInv
  OBVIOUS
<1>1. NoReply \in Replies /\ Junk \in Texts /\ "config" \in Cmds
  BY DEF NoReply, Replies, Texts, Cmds
<1>2. TypeOK
  BY <1>1, Scc2Assumption DEF Init, TypeOK, InIoctl
<1>3. CallOK
  BY <1>1 DEF Init, CallOK
<1> QED
  BY <1>2, <1>3 DEF Init, IInv, BlackIsCurrent, SuccessIsReal, Success, RegisterNotGiven,
     BufferMatchesPartition, BlackMemoryFreed, UnloadedIsUnregistered

\* Loading and unloading leave the calls alone.
LEMMA ModuleStep ==
    ASSUME IInv, InitStatus \/ InitSetup \/ InitMonitor \/ Cleanup
    PROVE  IInv'
<1> USE DEF InitStatus, InitSetup, InitMonitor, Cleanup, LoadStep, IInv
<1>1. TypeOK'
  BY DEF TypeOK, InIoctl
<1>2. UnloadedIsUnregistered'
  BY DEF UnloadedIsUnregistered, TypeOK
<1>3. CallOK' /\ BlackIsCurrent' /\ BlackMemoryFreed'
  <2>1. CallOK'
    BY DEF CallOK
  <2>2. BlackIsCurrent'
    BY DEF BlackIsCurrent, Usable
  <2>3. BlackMemoryFreed'
    BY DEF BlackMemoryFreed
  <2> QED
    BY <2>1, <2>2, <2>3
<1>4. SuccessIsReal' /\ BufferMatchesPartition'
  BY DEF SuccessIsReal, BufferMatchesPartition, Success, RegisterNotGiven, Usable
<1> QED
  BY <1>1, <1>2, <1>3, <1>4

\* Open, close, and the two ends of scc2_test_ioctl.
LEMMA UserStep ==
    ASSUME NEW p \in Procs, IInv,
           \/ Open(p) \/ Release(p) \/ Lock(p) \/ Unlock(p)
           \/ \E c \in Cmds, x \in Parts \cup {None} : Call(p, c, x)
    PROVE  IInv'
<1> USE Scc2Assumption DEF IInv, TypeOK, CallOK, BlackIsCurrent, SuccessIsReal,
    BufferMatchesPartition, BlackMemoryFreed, UnloadedIsUnregistered, InIoctl, Success,
    RegisterNotGiven, Usable
<1>1. CASE Open(p) \/ Release(p)
  BY <1>1 DEF Open, Release
<1>2. CASE Lock(p)
  BY <1>2 DEF Lock
<1>3. CASE Unlock(p)
  BY <1>3 DEF Unlock, Forget, NoReply, Replies, Cmds
<1>4. ASSUME NEW c \in Cmds, NEW x \in Parts \cup {None}, Call(p, c, x) PROVE IInv'
  BY <1>4 DEF Call, Texts, PartCmds, Cmds
<1> QED
  BY <1>1, <1>2, <1>3, <1>4

\* The invariant of one process.
Good(p) ==
    /\ pc[p] \notin {"closed", "idle"} /\ cmd[p] \in PartCmds => arg[p] \in Parts
    /\ pc[p] \in {"encrypt", "give"} => cmd[p] = "encrypt"
    /\ pc[p] \in {"decrypt", "dodecrypt"} => cmd[p] = "decrypt"
    /\ pc[p] = "give" /\ st[p] => Usable(arg[p]) /\ black[p] = Enc(data[arg[p]])
    /\ pc[p] = "dodecrypt" => black[p] = buf[p]
    /\ pc[p] \in {"encrypt", "give"} => black[p] \in Texts
    /\ Success(p) /\ ~RegisterNotGiven(p) => res[p].done
    /\ Success(p) =>
        /\ cmd[p] = "encrypt" => Usable(arg[p]) /\ buf[p] = Enc(data[arg[p]])
        /\ cmd[p] = "decrypt" => buf[p] = Enc(data[arg[p]])
        /\ cmd[p] \in {"read", "load"} => data[arg[p]] \in {buf[p], None}
    /\ black[p] # None => pc[p] \in {"encrypt", "decrypt", "give", "dodecrypt"}

LEMMA IInvIsGood ==
    IInv <=> /\ TypeOK
             /\ res \in [Procs -> Replies]
             /\ \A p \in Procs : Good(p)
             /\ UnloadedIsUnregistered
BY DEF IInv, CallOK, BlackIsCurrent, SuccessIsReal, BufferMatchesPartition,
   BlackMemoryFreed, Good

\* What a step inside scc2_test_ioctl leaves alone.
Frame(p) ==
    /\ UNCHANGED <<modVars, scc2_test_mutex, cmd, arg>>
    /\ pc' = [pc EXCEPT ![p] = pc'[p]]
    /\ st' = [st EXCEPT ![p] = st'[p]]
    /\ black' = [black EXCEPT ![p] = black'[p]]
    /\ buf' = [buf EXCEPT ![p] = buf'[p]]
    /\ res' = [res EXCEPT ![p] = res'[p]]

InPcs == {"enter", "encrypt", "decrypt", "give", "dodecrypt", "unlock"}

\* The process in scc2_test_ioctl holds the mutex, so nobody else is in it,
\* and a step of it has to be good only for itself.
LEMMA FrameStep ==
    ASSUME NEW p \in Procs, IInv, InIoctl(p), Frame(p),
           pc'[p] \in InPcs, st'[p] \in BOOLEAN, black'[p] \in Texts \cup {None},
           buf'[p] \in Texts, res'[p] \in Replies,
           part' \in [Parts -> {"free", "alloc", "engaged"}],
           data' \in [Parts -> Texts \cup {None}],
           Good(p)'
    PROVE  IInv'
<1>1. TypeOK'
  BY DEF IInv, TypeOK, Frame, InPcs, InIoctl
<1>2. res' \in [Procs -> Replies]
  BY DEF IInv, CallOK, Frame
<1>3. ASSUME NEW q \in Procs PROVE Good(q)'
  <2>1. CASE q = p
    BY <2>1
  <2>2. CASE q # p
    <3>1. ~InIoctl(q)
      BY <2>2, Scc2Assumption DEF IInv, TypeOK
    <3>2. /\ pc'[q] = pc[q] /\ st'[q] = st[q] /\ black'[q] = black[q]
          /\ cmd'[q] = cmd[q] /\ arg'[q] = arg[q]
      BY <2>2 DEF Frame, IInv, TypeOK, CallOK
    <3> QED
      BY <3>1, <3>2, IInvIsGood DEF Good, InIoctl, Success, RegisterNotGiven
  <2> QED
    BY <2>1, <2>2
<1>4. UnloadedIsUnregistered'
  BY DEF Frame, IInv, UnloadedIsUnregistered
<1> QED
  BY <1>1, <1>2, <1>3, <1>4, IInvIsGood DEF IInv, CallOK, BlackIsCurrent, SuccessIsReal,
     BufferMatchesPartition, BlackMemoryFreed, Good

\* A handler that replies: res is r, and r is good only if the request was.
Answered(p, r) ==
    /\ pc' = [pc EXCEPT ![p] = "unlock"]
    /\ res' = [res EXCEPT ![p] = r]

Says(r) == r.ret = "zero" /\ r.told \in {"none", "ok"}

LEMMA ReplyAnswers ==
    ASSUME NEW p \in Procs, NEW ret \in {"zero", "pos", "neg"},
           NEW told \in {"none", "ok", "fail"}, NEW done \in BOOLEAN,
           Reply(p, ret, told, done)
    PROVE  \E r \in Replies :
               /\ Answered(p, r)
               /\ r.done = done /\ r.told = told
               /\ Says(r) <=> ret = "zero" /\ told \in {"none", "ok"}
<1> DEFINE r == [ret |-> ret, told |-> told, done |-> done]
<1>1. r \in Replies /\ r.ret = ret /\ r.told = told /\ r.done = done
  BY DEF Replies
<1>2. Answered(p, r)
  BY DEF Reply, Answered
<1>3. Says(r) <=> ret = "zero" /\ told \in {"none", "ok"}
  BY <1>1 DEF Says
<1> QED
  BY <1>1, <1>2, <1>3

LEMMA CopyOutAnswers ==
    ASSUME NEW p \in Procs, NEW ok \in BOOLEAN, CopyOut(p, ok, ok)
    PROVE  \E r \in Replies : Answered(p, r) /\ (Says(r) => ok /\ r.done)
<1>1. CASE Reply(p, "zero", Told(ok), ok)
  <2>1. Told(ok) = (IF ok THEN "ok" ELSE "fail")
    BY DEF Told
  <2> QED
    BY <1>1, <2>1, ReplyAnswers
<1>2. CASE Reply(p, "pos", "none", ok)
  BY <1>2, ReplyAnswers
<1> QED
  BY <1>1, <1>2 DEF CopyOut

\* A handler that ends in an answer which is good only if the call was.
LEMMA AnswerStep ==
    ASSUME NEW p \in Procs, IInv, InIoctl(p), NEW r \in Replies, Answered(p, r),
           UNCHANGED <<modVars, scc2_test_mutex, cmd, arg, st>>,
           NEW b \in Texts, buf' = [buf EXCEPT ![p] = b],
           black' = [black EXCEPT ![p] = None],
           part' \in [Parts -> {"free", "alloc", "engaged"}],
           data' \in [Parts -> Texts \cup {None}],
           cmd[p] \in PartCmds => arg[p] \in Parts,
           Says(r) /\ ~(cmd[p] = "register" /\ r.told = "none") => r.done,
           Says(r) =>
              /\ cmd[p] = "encrypt" => Usable(arg[p])' /\ b = Enc(data'[arg[p]])
              /\ cmd[p] = "decrypt" => b = Enc(data'[arg[p]])
              /\ cmd[p] \in {"read", "load"} => data'[arg[p]] \in {b, None}
    PROVE  IInv'
<1>1. /\ pc'[p] = "unlock" /\ res'[p] = r /\ black'[p] = None /\ st'[p] = st[p]
      /\ buf'[p] = b
  BY DEF Answered, IInv, TypeOK, CallOK
<1>2. Frame(p)
  BY <1>1 DEF Answered, Frame, IInv, TypeOK
<1>3. Good(p)'
  BY <1>1 DEF Good, Success, RegisterNotGiven, Says, Usable
<1> QED
  BY <1>1, <1>2, <1>3, FrameStep DEF IInv, TypeOK, InPcs

\* The handlers that reply at once: scc2_test_mutex is held, and the process
\* has no DMA memory.
LEMMA OneStepHandlers ==
    ASSUME NEW p \in Procs, IInv,
           \/ CopyInFails(p) \/ Simple(p) \/ AllocPart(p) \/ EngagePart(p)
           \/ LoadData(p) \/ ReadData(p) \/ ReleasePart(p)
    PROVE  IInv'
<1>1. pc[p] = "enter"
  BY DEF CopyInFails, Simple, AllocPart, EngagePart, LoadData, ReadData, ReleasePart, Enters
<1>2. InIoctl(p) /\ black = [black EXCEPT ![p] = None] /\ buf = [buf EXCEPT ![p] = buf[p]]
  BY <1>1 DEF InIoctl, IInv, TypeOK, BlackMemoryFreed
<1>3. cmd[p] \in PartCmds => arg[p] \in Parts
  BY <1>1 DEF IInv, CallOK
<1>4. /\ buf[p] \in Texts
      /\ part \in [Parts -> {"free", "alloc", "engaged"}]
      /\ data \in [Parts -> Texts \cup {None}]
  BY DEF IInv, TypeOK
<1>5. CASE CopyInFails(p)
  <2>1. PICK r \in Replies : Answered(p, r) /\ ~Says(r)
    BY <1>5, ReplyAnswers DEF CopyInFails
  <2> QED
    BY <1>5, <2>1, <1>2, <1>3, <1>4, AnswerStep DEF CopyInFails
<1>6. CASE Simple(p)
  <2>1. cmd[p] \in {"config", "alarm", "invalid", "register"}
    BY <1>6 DEF Simple, Enters
  <2> DEFINE Honest(r) ==
        Says(r) /\ ~(cmd[p] = "register" /\ r.told = "none") => r.done
  <2>2. \E r \in Replies : Answered(p, r) /\ Honest(r)
    <3>1. CASE Enters(p, "register")
      <4>1. PICK ok, written \in BOOLEAN :
                Reply(p, IF ok THEN "zero" ELSE "neg",
                      IF written THEN Told(ok) ELSE "none", ok /\ written)
        BY <1>6, <3>1 DEF Simple, Enters
      <4> DEFINE ret == IF ok THEN "zero" ELSE "neg"
                 told == IF written THEN Told(ok) ELSE "none"
      <4>2. /\ ret \in {"zero", "pos", "neg"}
            /\ told \in {"none", "ok", "fail"}
            /\ ret = "zero" /\ told = "ok" => ok /\ written
        BY DEF Told
      <4>3. (ok /\ written) \in BOOLEAN
        BY Zenon
      <4>4. \E r \in Replies :
               /\ Answered(p, r)
               /\ r.done = (ok /\ written) /\ r.told = told
               /\ Says(r) <=> ret = "zero" /\ told \in {"none", "ok"}
        <5> HIDE DEF ret, told
        <5> QED
          BY <4>1, <4>2, <4>3, ReplyAnswers DEF ret, told
      <4> HIDE DEF ret, told
      <4> QED
        BY <4>2, <4>4, <3>1 DEF Enters
    <3>2. CASE ~Enters(p, "register")
      <4>1. \/ Reply(p, "zero", "none", TRUE)
            \/ Reply(p, "neg", "none", FALSE)
        BY <1>6, <3>2 DEF Simple
      <4> QED
        BY <4>1, ReplyAnswers
    <3> QED
      BY <3>1, <3>2
  <2>3. PICK r \in Replies : Answered(p, r) /\ Honest(r)
    BY <2>2
  <2> QED
    BY <1>6, <2>1, <2>3, <1>2, <1>3, <1>4, AnswerStep DEF Simple
<1>7. CASE AllocPart(p)
  <2>1. PICK r \in Replies : Answered(p, r) /\ (Says(r) => r.done)
    BY <1>7, CopyOutAnswers DEF AllocPart
  <2>2. part' \in [Parts -> {"free", "alloc", "engaged"}]
    BY <1>7, <1>4 DEF AllocPart
  <2> QED
    BY <1>7, <2>1, <2>2, <1>2, <1>3, <1>4, AnswerStep DEF AllocPart, Enters
<1>8. CASE EngagePart(p)
  <2>1. PICK r \in Replies : Answered(p, r) /\ (Says(r) => r.done)
    BY <1>8, CopyOutAnswers DEF EngagePart
  <2>2. part' \in [Parts -> {"free", "alloc", "engaged"}]
    BY <1>8, <1>4 DEF EngagePart
  <2> QED
    BY <1>8, <2>1, <2>2, <1>2, <1>3, <1>4, AnswerStep DEF EngagePart, Enters
<1>9. CASE LoadData(p)
  <2>0. arg[p] \in Parts /\ cmd[p] = "load"
    BY <1>9, <1>3 DEF LoadData, Enters, PartCmds
  <2>1. PICK r \in Replies :
            Answered(p, r) /\ (Says(r) => r.done /\ data' = [data EXCEPT ![arg[p]] = buf[p]])
    BY <1>9, ReplyAnswers DEF LoadData
  <2>2. data' \in [Parts -> Texts \cup {None}]
    BY <1>9, <1>4, <2>0 DEF LoadData
  <2>3. Says(r) => data'[arg[p]] = buf[p]
    BY <2>0, <2>1, <1>4
  <2> QED
    BY <1>9, <2>0, <2>1, <2>2, <2>3, <1>2, <1>4, AnswerStep DEF LoadData
<1>10. CASE ReadData(p)
  <2>0. arg[p] \in Parts /\ cmd[p] = "read"
    BY <1>10, <1>3 DEF ReadData, Enters, PartCmds
  <2> DEFINE t == IF data[arg[p]] = None THEN Junk ELSE data[arg[p]]
  <2>1. t \in Texts
    BY <1>4, <2>0 DEF Texts
  <2>2. PICK r \in Replies, b \in Texts :
            /\ Answered(p, r) /\ buf' = [buf EXCEPT ![p] = b]
            /\ Says(r) => r.done /\ b = t
    <3>1. CASE buf' = [buf EXCEPT ![p] = t] /\ Reply(p, "zero", "none", TRUE)
      <4> HIDE DEF t
      <4> QED
        BY <3>1, <2>1, ReplyAnswers
    <3>2. CASE UNCHANGED buf /\ Reply(p, "pos", "none", FALSE)
      <4> HIDE DEF t
      <4>1. PICK r \in Replies : Answered(p, r) /\ ~Says(r)
        BY <3>2, ReplyAnswers
      <4> QED
        BY <3>2, <4>1, <1>2, <1>4
    <3> QED
      BY <1>10, <3>1, <3>2 DEF ReadData
  <2> QED
    BY <1>10, <2>0, <2>2, <1>2, <1>4, AnswerStep DEF ReadData
<1>11. CASE ReleasePart(p)
  <2>1. PICK r \in Replies : Answered(p, r) /\ (Says(r) => r.done)
    BY <1>11, CopyOutAnswers DEF ReleasePart
  <2>2. /\ part' \in [Parts -> {"free", "alloc", "engaged"}]
        /\ data' \in [Parts -> Texts \cup {None}]
    BY <1>11, <1>4 DEF ReleasePart
  <2> QED
    BY <1>11, <2>1, <2>2, <1>2, <1>3, <1>4, AnswerStep DEF ReleasePart, Enters
<1> QED
  BY <1>5, <1>6, <1>7, <1>8, <1>9, <1>10, <1>11

\* scc2_test_encrypt_part: the DMA memory holds the text of this partition
\* until it is freed.
LEMMA CipherHandlers ==
    ASSUME NEW p \in Procs, IInv,
           \/ DmaAlloc(p) \/ EncryptRegion(p) \/ EncryptGive(p)
           \/ DecryptTake(p) \/ DecryptRegion(p)
    PROVE  IInv'
<1>1. InIoctl(p) /\ arg[p] \in Parts /\ cmd[p] \in {"encrypt", "decrypt"}
  BY DEF DmaAlloc, EncryptRegion, EncryptGive, DecryptTake, DecryptRegion, InIoctl,
     IInv, CallOK, PartCmds
<1>2. /\ buf[p] \in Texts /\ black[p] \in Texts \cup {None} /\ st[p] \in BOOLEAN
      /\ res[p] \in Replies /\ buf = [buf EXCEPT ![p] = buf[p]]
      /\ part \in [Parts -> {"free", "alloc", "engaged"}]
      /\ data \in [Parts -> Texts \cup {None}]
  BY DEF IInv, TypeOK, CallOK
<1>3. CASE DmaAlloc(p)
  <2>1. CASE pc' = [pc EXCEPT ![p] = cmd[p]] /\ black' = [black EXCEPT ![p] = Junk] /\ UNCHANGED res
    <3>1. pc'[p] = cmd[p] /\ black'[p] = Junk /\ Junk \in Texts
      BY <2>1 DEF IInv, TypeOK, Texts
    <3>2. Frame(p)
      BY <1>3, <2>1, <3>1 DEF DmaAlloc, Frame, IInv, TypeOK, CallOK
    <3>3. Good(p)'
      BY <1>1, <1>3, <3>1 DEF DmaAlloc, Good, Success
    <3> QED
      BY <1>1, <1>2, <1>3, <2>1, <3>1, <3>2, <3>3, FrameStep DEF DmaAlloc, InPcs
  <2>2. CASE UNCHANGED black /\ Reply(p, "pos", "none", FALSE)
    <3>1. PICK r \in Replies : Answered(p, r) /\ ~Says(r)
      BY <2>2, ReplyAnswers
    <3>2. black = [black EXCEPT ![p] = None]
      BY <1>3 DEF DmaAlloc, IInv, TypeOK, BlackMemoryFreed
    <3> QED
      BY <1>1, <1>2, <1>3, <2>2, <3>1, <3>2, AnswerStep DEF DmaAlloc
  <2> QED
    BY <1>3, <2>1, <2>2 DEF DmaAlloc
<1>4. CASE EncryptRegion(p)
  <2>1. pc'[p] = "give" /\ cmd[p] = "encrypt" /\ st'[p] \in BOOLEAN /\ black'[p] \in Texts
    <3>0. black[p] \in Texts
      BY <1>4 DEF EncryptRegion, IInv, BlackIsCurrent
    <3>1. ASSUME Usable(arg[p]) PROVE Enc(data[arg[p]]) \in Texts
      BY <3>1 DEF Usable, Texts
    <3> QED
      BY <1>2, <1>4, <3>0, <3>1 DEF EncryptRegion, IInv, TypeOK, CallOK
  <2>2. Frame(p)
    BY <1>4, <2>1 DEF EncryptRegion, Frame, IInv, TypeOK, CallOK
  <2>3. st'[p] => Usable(arg[p]) /\ black'[p] = Enc(data[arg[p]])
    BY <1>4 DEF EncryptRegion, IInv, TypeOK
  <2>4. Good(p)'
    BY <1>1, <1>4, <2>1, <2>3 DEF EncryptRegion, Good, Success, Usable
  <2> QED
    BY <1>1, <1>2, <1>4, <2>1, <2>2, <2>4, FrameStep DEF EncryptRegion, InPcs
<1>5. CASE EncryptGive(p)
  <2>0. cmd[p] = "encrypt" /\ (st[p] => Usable(arg[p]) /\ black[p] = Enc(data[arg[p]]))
    BY <1>5 DEF EncryptGive, IInv, CallOK, BlackIsCurrent
  <2>1. CASE buf' = [buf EXCEPT ![p] = black[p]] /\ CopyOut(p, st[p], st[p])
    <3>1. PICK r \in Replies : Answered(p, r) /\ (Says(r) => st[p] /\ r.done)
      BY <1>2, <2>1, CopyOutAnswers
    <3>2. black[p] \in Texts
      BY <1>5 DEF EncryptGive, IInv, BlackIsCurrent
    <3> QED
      BY <1>1, <1>2, <1>5, <2>0, <2>1, <3>1, <3>2, AnswerStep DEF EncryptGive, Usable
  <2>2. CASE UNCHANGED buf /\ Reply(p, "pos", "none", FALSE)
    <3>1. PICK r \in Replies : Answered(p, r) /\ ~Says(r)
      BY <2>2, ReplyAnswers
    <3> QED
      BY <1>1, <1>2, <1>5, <2>2, <3>1, AnswerStep DEF EncryptGive
  <2> QED
    BY <1>5, <2>1, <2>2 DEF EncryptGive
<1>6. CASE DecryptTake(p)
  <2>1. CASE /\ black' = [black EXCEPT ![p] = buf[p]] /\ UNCHANGED res
             /\ pc' = [pc EXCEPT ![p] = "dodecrypt"]
    <3>1. pc'[p] = "dodecrypt" /\ black'[p] = buf[p] /\ cmd[p] = "decrypt"
      BY <1>6, <2>1 DEF DecryptTake, IInv, TypeOK, CallOK
    <3>2. Frame(p)
      BY <1>6, <2>1, <3>1 DEF DecryptTake, Frame, IInv, TypeOK, CallOK
    <3>3. Good(p)'
      BY <1>1, <1>6, <3>1 DEF DecryptTake, Good, Success
    <3> QED
      BY <1>1, <1>2, <1>6, <2>1, <3>1, <3>2, <3>3, FrameStep DEF DecryptTake, InPcs
  <2>2. CASE black' = [black EXCEPT ![p] = None] /\ Reply(p, "pos", "none", FALSE)
    <3>1. PICK r \in Replies : Answered(p, r) /\ ~Says(r)
      BY <2>2, ReplyAnswers
    <3> QED
      BY <1>1, <1>2, <1>6, <2>2, <3>1, AnswerStep DEF DecryptTake
  <2> QED
    BY <1>6, <2>1, <2>2 DEF DecryptTake
<1>7. CASE DecryptRegion(p)
  <2>0. cmd[p] = "decrypt" /\ black[p] = buf[p]
    BY <1>7 DEF DecryptRegion, IInv, CallOK, BlackIsCurrent
  <2>1. CASE /\ \E v \in Values : black[p] = Enc(v) /\ data' = [data EXCEPT ![arg[p]] = v]
             /\ CopyOut(p, TRUE, TRUE)
    <3>1. PICK r \in Replies : Answered(p, r) /\ (Says(r) => r.done)
      BY <2>1, CopyOutAnswers
    <3>2. PICK v \in Values : black[p] = Enc(v) /\ data' = [data EXCEPT ![arg[p]] = v]
      BY <2>1
    <3>3. data' \in [Parts -> Texts \cup {None}] /\ data'[arg[p]] = v
      BY <1>1, <1>2, <3>2 DEF Texts
    <3> QED
      BY <1>1, <1>2, <1>7, <2>0, <3>1, <3>2, <3>3, AnswerStep DEF DecryptRegion
  <2>2. CASE UNCHANGED data /\ CopyOut(p, FALSE, FALSE)
    <3>1. PICK r \in Replies : Answered(p, r) /\ ~Says(r)
      BY <2>2, CopyOutAnswers
    <3> QED
      BY <1>1, <1>2, <1>7, <2>2, <3>1, AnswerStep DEF DecryptRegion
  <2> QED
    BY <1>7, <2>1, <2>2 DEF DecryptRegion
<1> QED
  BY <1>3, <1>4, <1>5, <1>6, <1>7

\* IInv is an inductive invariant.
LEMMA NextIInv == IInv /\ [Next]_vars => IInv'
<1> SUFFICES ASSUME IInv, [Next]_vars PROVE IInv'
  OBVIOUS
<1>1. CASE InitStatus \/ InitSetup \/ InitMonitor \/ Cleanup
  BY <1>1, ModuleStep
<1>2. ASSUME NEW p \in Procs,
             \/ Open(p) \/ Release(p) \/ Lock(p) \/ Unlock(p)
             \/ \E c \in Cmds, x \in Parts \cup {None} : Call(p, c, x)
      PROVE  IInv'
  BY <1>2, UserStep
<1>3. ASSUME NEW p \in Procs, Handler(p) PROVE IInv'
  BY <1>2, <1>3, OneStepHandlers, CipherHandlers DEF Handler
<1>4. CASE UNCHANGED vars
  BY <1>4 DEF vars, IInv, TypeOK, CallOK, BlackIsCurrent, SuccessIsReal, Success, RegisterNotGiven, Usable,
     InIoctl, BufferMatchesPartition, BlackMemoryFreed, UnloadedIsUnregistered
<1> QED
  BY <1>1, <1>2, <1>3, <1>4 DEF Next

\* The types, and "no more than 1 user at a time" in scc2_test_ioctl.
THEOREM OneUserAtATime == Spec => []TypeOK
BY InitIInv, NextIInv, PTL DEF Spec, IInv

\* A reply of success is never that of a request that failed, except that the
\* two register commands lose a failing copy of their struct.
THEOREM SuccessIsTrue == Spec => []SuccessIsReal
BY InitIInv, NextIInv, PTL DEF Spec, IInv

\* A call that ends well leaves the partition's own text in the user's buffer,
\* whatever the other processes do.
THEOREM TextsAgree == Spec => []BufferMatchesPartition
BY InitIInv, NextIInv, PTL DEF Spec, IInv

\* No path of scc2_test_encrypt_part leaves DMA memory behind.
THEOREM DmaMemoryFreed == Spec => []BlackMemoryFreed
BY InitIInv, NextIInv, PTL DEF Spec, IInv

\* A failed scc2_test_init and scc2_test_cleanup undo the registration.
THEOREM NotRegisteredWhenOut == Spec => []UnloadedIsUnregistered
BY InitIInv, NextIInv, PTL DEF Spec, IInv
=============================================================================

------------------------- MODULE RngTestDriverProofs -------------------------
(***************************************************************************)
(* The random number driver for any number of files, threads, contexts and *)
(* request sizes.  The context of a call stays registered because a file   *)
(* is not released while a call runs on it, and contexts are not shared;   *)
(* an answer is complete because a request is rounded up to words and the  *)
(* generator answers a request once.                                       *)
(***************************************************************************)
EXTENDS RngTestDriver, TLAPS

USE DEF modVars, fileVars, callVars, rngVars

Pcs == {"idle", "random", "sleep", "give", "entropy", "add", "ret", "dead"}

Replies == [code : {"ok", "bad", "nomem", "fail"}, told : {"none", "ok", "fail"},
            done : BOOLEAN, by : Pcs]

\* The module's flag is true to the registration.
FlagInv == chrdev = rng_device_registered

\* Contexts: an open file has one of its own that is registered, a file that
\* is being opened has one of its own that is not.
CtxInv ==
    /\ users \subseteq mem
    /\ users = {private[f] : f \in {g \in Files : fstate[g] = "open"}}
    /\ \A f \in Files :
        /\ fstate[f] = "open" => private[f] \in Ctxs
        /\ fstate[f] # "open" => private[f] = NULL
        /\ fstate[f] = "opening" => user_ctx[f] \in mem \ users
    /\ \A f, g \in Files : fstate[f] = "open" /\ fstate[g] = "open" /\ private[f] = private[g]
                           => f = g
    /\ \A f, g \in Files : fstate[f] = "opening" /\ fstate[g] = "opening"
                           /\ user_ctx[f] = user_ctx[g] => f = g

\* A call that uses the generator has the context of its open file.
CallCtxInv ==
    \A t \in Threads : InRng(t) =>
        file[t] \in Files /\ fstate[file[t]] = "open" /\ ctx[t] = private[file[t]]

\* The generator's queue holds threads that sleep, each once; a good answer
\* has all its words.
QueueInv ==
    /\ \A i \in 1 .. Len(rngq) : pc[rngq[i]] = "sleep"
    /\ \A i, j \in 1 .. Len(rngq) : rngq[i] = rngq[j] => i = j
    /\ \A t \in Threads : pc[t] = "give" /\ st[t] => filled[t] = CountWords(count[t])

ReplyInv ==
    /\ res \in [Threads -> Replies]
    /\ SuccessIsReal
    /\ BuffersFreed

IInv == TypeOK /\ FlagInv /\ CtxInv /\ CallCtxInv /\ QueueInv /\ ReplyInv

\* (count_bytes + 3) / 4 words are at least count_bytes bytes.
LEMMA WordsCover ==
    ASSUME NEW n \in Nat
    PROVE  CountWords(n) \in Nat /\ 4 * CountWords(n) >= n
BY DEF CountWords

\* TypeOK in parts.
ModTypes ==
    /\ mpc \in {"out", "up"}
    /\ rng_device_registered \in BOOLEAN
    /\ chrdev \in BOOLEAN
    /\ mpc = "up" <=> rng_device_registered

FileTypes ==
    /\ fstate \in [Files -> {"closed", "opening", "open"}]
    /\ user_ctx \in [Files -> Ctxs \cup {NULL}]
    /\ private \in [Files -> Ctxs \cup {NULL}]
    /\ mem \subseteq Ctxs
    /\ users \subseteq Ctxs

CallTypes ==
    /\ pc \in [Threads -> {"idle", "random", "sleep", "give", "entropy", "add",
                           "ret", "dead"}]
    /\ file \in [Threads -> Files \cup {NULL}]
    /\ ctx \in [Threads -> Ctxs \cup {NULL}]
    /\ count \in [Threads -> Counts \cup {0}]
    /\ buf \in [Threads -> {"none", "mem", "null"}]
    /\ filled \in [Threads -> Nat]
    /\ st \in [Threads -> BOOLEAN]

RngTypes == rngq \in Seq(Threads) /\ entropy \in 0 .. FifoWords

LEMMA TypeParts == TypeOK <=> ModTypes /\ FileTypes /\ CallTypes /\ RngTypes
BY DEF TypeOK, ModTypes, FileTypes, CallTypes, RngTypes

LEMMA TypePartsNext == TypeOK' <=> ModTypes' /\ FileTypes' /\ CallTypes' /\ RngTypes'
BY DEF TypeOK, ModTypes, FileTypes, CallTypes, RngTypes

LEMMA InitIInv == Init => IInv
<1> SUFFICES ASSUME Init PROVE IInv
  OBVIOUS
<1>1. NoReply \in Replies
  BY DEF NoReply, Replies, Pcs
<1>2. TypeOK
  <2>1. ModTypes
    BY DEF Init, ModTypes
  <2>2. FileTypes /\ CallTypes
    BY DEF Init, FileTypes, CallTypes
  <2>3. RngTypes
    BY RngAssumption DEF Init, RngTypes
  <2> QED
    BY <2>1, <2>2, <2>3, TypeParts
<1>3. FlagInv /\ CtxInv /\ CallCtxInv
  BY DEF Init, FlagInv, CtxInv, CallCtxInv, InRng
<1>4. QueueInv
  BY DEF Init, QueueInv
<1>5. ReplyInv
  BY <1>1 DEF Init, ReplyInv, SuccessIsReal, BuffersFreed
<1> QED
  BY <1>2, <1>3, <1>4, <1>5 DEF IInv

\* Loading and unloading.
LEMMA ModuleStep ==
    ASSUME IInv, Load \/ Cleanup
    PROVE  IInv'
<1>2. UNCHANGED <<fileVars, callVars, rngVars>>
  BY DEF Load, Cleanup
<1>3. FlagInv' /\ ModTypes'
  <2>1. CASE Load /\ chrdev'
    BY <2>1 DEF Load, FlagInv, ModTypes
  <2>2. CASE Load /\ ~chrdev'
    BY <2>2 DEF Load, FlagInv, ModTypes
  <2>3. CASE Cleanup
    <3>1. chrdev \in BOOLEAN /\ chrdev = rng_device_registered
      BY DEF IInv, TypeOK, FlagInv
    <3>2. chrdev' = FALSE
      BY <2>3, <3>1 DEF Cleanup
    <3> QED
      BY <2>3, <3>2 DEF Cleanup, FlagInv, ModTypes
  <2> QED
    BY <2>1, <2>2, <2>3
<1>4. FileTypes' /\ CallTypes' /\ RngTypes'
  BY <1>2, TypeParts DEF IInv, FileTypes, CallTypes, RngTypes
<1>1. TypeOK' /\ FlagInv'
  BY <1>3, <1>4, TypePartsNext
<1> QED
  BY <1>1, <1>2 DEF IInv, CtxInv, CallCtxInv, QueueInv, ReplyInv, InRng, SuccessIsReal,
     BuffersFreed

\* rng_test_open and rng_test_release.
LEMMA FileStep ==
    ASSUME NEW f \in Files, IInv, OpenAlloc(f) \/ OpenRegister(f) \/ Release(f)
    PROVE  IInv'
<1> USE DEF IInv
<1>1. UNCHANGED <<modVars, callVars, rngVars>>
  BY DEF OpenAlloc, OpenRegister, Release, Closes
<1>2. FlagInv' /\ QueueInv' /\ ReplyInv'
  BY <1>1 DEF FlagInv, QueueInv, ReplyInv, SuccessIsReal, BuffersFreed
<1>3. CASE OpenAlloc(f)
  <2>1. TypeOK'
    BY <1>1, <1>3 DEF TypeOK, OpenAlloc
  <2>2. CtxInv'
    BY <1>3 DEF TypeOK, OpenAlloc, CtxInv
  <2>3. CallCtxInv'
    BY <1>1, <1>3 DEF TypeOK, OpenAlloc, CallCtxInv, InRng
  <2> QED
    BY <1>2, <2>1, <2>2, <2>3
<1>4. CASE OpenRegister(f)
  <2> DEFINE c == user_ctx[f]
  <2>0. fstate[f] = "opening" /\ c \in mem \ users /\ c \in Ctxs /\ mem \subseteq Ctxs
    BY <1>4 DEF OpenRegister, CtxInv, TypeOK
  <2>1. TypeOK'
    <3>1. FileTypes'
      BY <1>4, <2>0, TypeParts DEF OpenRegister, FileTypes
    <3>2. ModTypes' /\ CallTypes' /\ RngTypes'
      BY <1>1, TypeParts DEF ModTypes, CallTypes, RngTypes
    <3> QED
      BY <3>1, <3>2, TypePartsNext
  <2>2. CtxInv'
    <3>1. CASE fstate' = [fstate EXCEPT ![f] = "closed"] /\ UNCHANGED <<users, private>>
      <4>1. {g \in Files : fstate'[g] = "open"} = {g \in Files : fstate[g] = "open"}
        BY <2>0, <3>1 DEF TypeOK
      <4> QED
        BY <1>4, <2>0, <3>1, <4>1 DEF OpenRegister, CtxInv, TypeOK
    <3>2. CASE /\ users' = users \cup {c} /\ private' = [private EXCEPT ![f] = c]
               /\ fstate' = [fstate EXCEPT ![f] = "open"]
      <4>1. /\ fstate'[f] = "open" /\ private'[f] = c
            /\ \A g \in Files \ {f} : fstate'[g] = fstate[g] /\ private'[g] = private[g]
                                      /\ user_ctx'[g] = user_ctx[g]
            /\ mem' = mem
        BY <1>4, <3>2 DEF OpenRegister, TypeOK
      <4>2. \A g \in Files : fstate[g] = "open" => private[g] \in users
        BY DEF CtxInv
      <4>3. users' = {private'[g] : g \in {h \in Files : fstate'[h] = "open"}}
        BY <2>0, <3>2, <4>1 DEF CtxInv
      <4> QED
        BY <2>0, <3>2, <4>1, <4>2, <4>3 DEF CtxInv
    <3> QED
      BY <1>4, <3>1, <3>2 DEF OpenRegister
  <2>3. CallCtxInv'
    BY <1>1, <1>4 DEF TypeOK, OpenRegister, CallCtxInv, InRng
  <2> QED
    BY <1>2, <2>1, <2>2, <2>3
<1>5. CASE Release(f)
  <2>1. TypeOK'
    BY <1>1, <1>5 DEF TypeOK, Release, Closes
  <2>2. CtxInv'
    BY <1>5, RngAssumption DEF TypeOK, Release, Closes, CtxInv
  <2>3. CallCtxInv'
    BY <1>1, <1>5 DEF TypeOK, Release, Closes, CallCtxInv, InRng
  <2> QED
    BY <1>2, <2>1, <2>2, <2>3
<1> QED
  BY <1>3, <1>4, <1>5

\* A reply that is a success is that of a request carried out, or of add_entropy.
Honest(r) == r.code = "ok" /\ r.told # "fail" /\ r.by # "add" => r.done

\* The invariant of one thread.
Good(t) ==
    /\ InRng(t) => file[t] \in Files /\ fstate[file[t]] = "open" /\ ctx[t] = private[file[t]]
    /\ pc[t] = "give" /\ st[t] => filled[t] = CountWords(count[t])
    /\ pc[t] = "ret" => Honest(res[t])
    /\ buf[t] # "none" => pc[t] \in {"sleep", "give", "add", "dead"}

\* The generator's queue.
Queue ==
    /\ \A i \in 1 .. Len(rngq) : pc[rngq[i]] = "sleep"
    /\ \A i, j \in 1 .. Len(rngq) : rngq[i] = rngq[j] => i = j

\* What a step of thread t leaves alone.
Frame(t) ==
    /\ UNCHANGED <<modVars, fileVars>>
    /\ \A u \in Threads \ {t} :
        /\ pc'[u] = pc[u] /\ file'[u] = file[u] /\ ctx'[u] = ctx[u] /\ count'[u] = count[u]
        /\ buf'[u] = buf[u] /\ filled'[u] = filled[u] /\ st'[u] = st[u] /\ res'[u] = res[u]

\* A step of a thread has to be good only for itself and for the queue.
LEMMA ThreadStep ==
    ASSUME NEW t \in Threads, IInv, Frame(t), CallTypes', RngTypes',
           res' \in [Threads -> Replies], Good(t)', Queue'
    PROVE  IInv'
<1> USE DEF IInv
<1>1. TypeOK'
  BY TypeParts, TypePartsNext DEF Frame, ModTypes, FileTypes
<1>2. FlagInv' /\ CtxInv'
  BY DEF Frame, FlagInv, CtxInv
<1>3. \A u \in Threads \ {t} : Good(u)
  BY DEF Good, CallCtxInv, QueueInv, ReplyInv, SuccessIsReal, BuffersFreed, Honest
<1>4. \A u \in Threads : Good(u)'
  <2> SUFFICES ASSUME NEW u \in Threads \ {t} PROVE Good(u)'
    OBVIOUS
  <2> QED
    BY <1>3 DEF Good, Frame, InRng, Honest
<1>5. CallCtxInv' /\ QueueInv' /\ ReplyInv'
  BY <1>4 DEF Good, Queue, CallCtxInv, QueueInv, ReplyInv, SuccessIsReal, BuffersFreed, Honest
<1> QED
  BY <1>1, <1>2, <1>5

\* A thread that does not sleep is not in the queue.
LEMMA QueueStays ==
    ASSUME NEW t \in Threads, IInv, Frame(t), pc[t] # "sleep", UNCHANGED rngq
    PROVE  Queue'
<1>1. \A i \in 1 .. Len(rngq) : rngq[i] \in Threads /\ pc[rngq[i]] = "sleep"
  BY DEF IInv, QueueInv, TypeOK
<1> QED
  BY <1>1 DEF IInv, QueueInv, Queue, Frame

LEMMA ReplyIs ==
    ASSUME NEW t \in Threads, NEW code \in {"ok", "bad", "nomem", "fail"},
           NEW told \in {"none", "ok", "fail"}, NEW done \in BOOLEAN, pc[t] \in Pcs,
           Reply(t, code, told, done), code = "ok" /\ told # "fail" /\ pc[t] # "add" => done
    PROVE  \E r \in Replies : /\ Honest(r)
                              /\ pc' = [pc EXCEPT ![t] = "ret"]
                              /\ res' = [res EXCEPT ![t] = r]
<1> DEFINE r == [code |-> code, told |-> told, done |-> done, by |-> pc[t]]
<1>1. r \in Replies /\ r.code = code /\ r.told = told /\ r.done = done /\ r.by = pc[t]
  BY DEF Replies
<1>2. Honest(r)
  BY <1>1 DEF Honest
<1> QED
  BY <1>1, <1>2 DEF Reply

LEMMA CopyOutIs ==
    ASSUME NEW t \in Threads, NEW ok \in BOOLEAN, NEW done \in BOOLEAN, pc[t] \in Pcs,
           CopyOut(t, ok, done), ok /\ pc[t] # "add" => done
    PROVE  \E r \in Replies : /\ Honest(r)
                              /\ pc' = [pc EXCEPT ![t] = "ret"]
                              /\ res' = [res EXCEPT ![t] = r]
<1>1. CASE Reply(t, "ok", Told(ok), done)
  <2>1. Told(ok) = (IF ok THEN "ok" ELSE "fail")
    BY DEF Told
  <2> QED
    BY <1>1, <2>1, ReplyIs
<1>2. CASE Reply(t, "bad", "none", done)
  BY <1>2, ReplyIs
<1> QED
  BY <1>1, <1>2 DEF CopyOut

\* A step that ends in a reply and leaves no buffer.
LEMMA ReplyStep ==
    ASSUME NEW t \in Threads, IInv, pc[t] # "sleep",
           NEW r \in Replies, Honest(r), pc' = [pc EXCEPT ![t] = "ret"],
           res' = [res EXCEPT ![t] = r], buf' = [buf EXCEPT ![t] = "none"],
           NEW f \in Files \cup {NULL}, file' = [file EXCEPT ![t] = f],
           NEW c \in Ctxs \cup {NULL}, ctx' = [ctx EXCEPT ![t] = c],
           UNCHANGED <<modVars, fileVars, count, filled, st, rngVars>>
    PROVE  IInv'
<1>0. CallTypes /\ RngTypes /\ res \in [Threads -> Replies]
  BY TypeParts DEF IInv, ReplyInv
<1>1. CallTypes' /\ RngTypes' /\ res' \in [Threads -> Replies]
  BY <1>0 DEF CallTypes, RngTypes
<1>2. Frame(t)
  BY <1>0 DEF Frame, CallTypes
<1>3. Good(t)'
  BY <1>0 DEF Good, InRng, CallTypes, Honest
<1> QED
  BY <1>1, <1>2, <1>3, QueueStays, ThreadStep

\* What get_random is asked for is a number of bytes.
LEMMA CountIsNat ==
    ASSUME NEW t \in Threads, CallTypes
    PROVE  count[t] \in Nat
<1>1. count[t] \in Counts \cup {0}
  BY DEF CallTypes
<1>2. CASE count[t] \in Counts
  BY <1>2, RngAssumption
<1>3. CASE count[t] = 0
  BY <1>3
<1> QED
  BY <1>1, <1>2, <1>3

\* Handlers that answer.
LEMMA Answers ==
    ASSUME NEW t \in Threads, IInv,
           \/ \E f \in Files : IoctlRegister(t, f)
           \/ GetRandomGive(t) \/ AddEntropy(t)
    PROVE  IInv'
<1>0. CallTypes /\ count[t] \in Nat /\ pc[t] \in Pcs
  BY TypeParts, CountIsNat DEF IInv, CallTypes, Pcs
<1>1. ASSUME NEW f \in Files, IoctlRegister(t, f) PROVE IInv'
  <2>1. PICK r \in Replies : /\ Honest(r) /\ pc' = [pc EXCEPT ![t] = "ret"]
                             /\ res' = [res EXCEPT ![t] = r]
    BY <1>0, <1>1, ReplyIs, CopyOutIs DEF IoctlRegister
  <2>2. buf' = [buf EXCEPT ![t] = "none"] /\ ctx' = [ctx EXCEPT ![t] = ctx[t]]
    BY <1>0, <1>1 DEF IoctlRegister, CallTypes, IInv, ReplyInv, BuffersFreed
  <2> QED
    BY <1>0, <1>1, <2>1, <2>2, ReplyStep DEF IoctlRegister, CallTypes
<1>2. CASE GetRandomGive(t)
  <2>1. CASE st[t]
    <3>1. PICK copied \in BOOLEAN, told \in {"none", "ok"} :
              Reply(t, IF copied THEN "ok" ELSE "bad", told, copied /\ 4 * filled[t] >= count[t])
      BY <1>2, <2>1 DEF GetRandomGive
    <3>2. 4 * filled[t] >= count[t]
      BY <1>0, <1>2, <2>1, WordsCover DEF GetRandomGive, IInv, QueueInv
    <3>3. Reply(t, IF copied THEN "ok" ELSE "bad", told, copied)
      BY <3>1, <3>2
    <3>4. PICK r \in Replies : /\ Honest(r) /\ pc' = [pc EXCEPT ![t] = "ret"]
                               /\ res' = [res EXCEPT ![t] = r]
      BY <1>0, <3>3, ReplyIs
    <3>5. file' = [file EXCEPT ![t] = file[t]] /\ ctx' = [ctx EXCEPT ![t] = ctx[t]]
      BY <1>0, <1>2 DEF GetRandomGive, CallTypes
    <3> QED
      BY <1>0, <1>2, <3>4, <3>5, ReplyStep DEF GetRandomGive, CallTypes
  <2>2. CASE ~st[t]
    <3>1. PICK r \in Replies : /\ Honest(r) /\ pc' = [pc EXCEPT ![t] = "ret"]
                               /\ res' = [res EXCEPT ![t] = r]
      BY <1>0, <1>2, <2>2, CopyOutIs DEF GetRandomGive
    <3>2. file' = [file EXCEPT ![t] = file[t]] /\ ctx' = [ctx EXCEPT ![t] = ctx[t]]
      BY <1>0, <1>2 DEF GetRandomGive, CallTypes
    <3> QED
      BY <1>0, <1>2, <3>1, <3>2, ReplyStep DEF GetRandomGive, CallTypes
  <2> QED
    BY <2>1, <2>2
<1>3. CASE AddEntropy(t)
  <2>1. PICK r \in Replies : /\ Honest(r) /\ pc' = [pc EXCEPT ![t] = "ret"]
                             /\ res' = [res EXCEPT ![t] = r]
    BY <1>0, <1>3, CopyOutIs DEF AddEntropy
  <2>2. file' = [file EXCEPT ![t] = file[t]] /\ ctx' = [ctx EXCEPT ![t] = ctx[t]]
    BY <1>0, <1>3 DEF AddEntropy, CallTypes
  <2> QED
    BY <1>0, <1>3, <2>1, <2>2, ReplyStep DEF AddEntropy, CallTypes
<1> QED
  BY <1>1, <1>2, <1>3

\* A call begins and ends, and asks for memory.
LEMMA Calls ==
    ASSUME NEW t \in Threads, IInv,
           \/ \E f \in Files : IoctlContext(t, f)
           \/ IoctlReturn(t) \/ AddEntropyAlloc(t)
    PROVE  IInv'
<1>0. CallTypes /\ RngTypes /\ res \in [Threads -> Replies]
  BY TypeParts DEF IInv, ReplyInv
<1>1. ASSUME NEW f \in Files, IoctlContext(t, f) PROVE IInv'
  <2>0. private[f] \in Ctxs /\ private[f] # NULL /\ fstate[f] = "open"
    BY <1>1, RngAssumption DEF IoctlContext, IInv, CtxInv
  <2>1. PICK c \in {"random", "entropy"} : pc' = [pc EXCEPT ![t] = c] /\ UNCHANGED res
    BY <1>1, <2>0 DEF IoctlContext
  <2>2. CallTypes' /\ RngTypes' /\ res' \in [Threads -> Replies]
    BY <1>0, <1>1, <2>0, <2>1 DEF IoctlContext, CallTypes, RngTypes
  <2>3. Frame(t)
    BY <1>0, <1>1, <2>1 DEF IoctlContext, Frame, CallTypes
  <2>4. pc'[t] = c /\ file'[t] = f /\ ctx'[t] = private[f] /\ buf'[t] = buf[t] /\ buf[t] = "none"
    BY <1>0, <1>1, <2>1 DEF IoctlContext, CallTypes, IInv, ReplyInv, BuffersFreed
  <2>5. Good(t)'
    BY <1>1, <2>0, <2>4 DEF IoctlContext, Good
  <2> QED
    BY <1>1, <2>2, <2>3, <2>5, QueueStays, ThreadStep DEF IoctlContext
<1>2. CASE IoctlReturn(t)
  <2>1. NoReply \in Replies
    BY DEF NoReply, Replies, Pcs
  <2>2. CallTypes' /\ RngTypes' /\ res' \in [Threads -> Replies]
    BY <1>0, <1>2, <2>1 DEF IoctlReturn, CallTypes, RngTypes
  <2>3. Frame(t)
    BY <1>0, <1>2 DEF IoctlReturn, Frame, CallTypes
  <2>4. pc'[t] = "idle" /\ buf'[t] = "none"
    BY <1>0, <1>2 DEF IoctlReturn, CallTypes, IInv, ReplyInv, BuffersFreed
  <2>5. Good(t)'
    BY <2>4 DEF Good, InRng
  <2> QED
    BY <1>2, <2>2, <2>3, <2>5, QueueStays, ThreadStep DEF IoctlReturn
<1>3. CASE AddEntropyAlloc(t)
  <2>0. buf = [buf EXCEPT ![t] = "none"] /\ file = [file EXCEPT ![t] = file[t]]
        /\ ctx = [ctx EXCEPT ![t] = ctx[t]]
    BY <1>0, <1>3 DEF AddEntropyAlloc, CallTypes, IInv, ReplyInv, BuffersFreed
  <2>1. CASE (Reply(t, "bad", "none", FALSE) \/ Reply(t, "nomem", "none", FALSE)) /\ UNCHANGED buf
    <3>1. PICK r \in Replies : /\ Honest(r) /\ pc' = [pc EXCEPT ![t] = "ret"]
                               /\ res' = [res EXCEPT ![t] = r]
      BY <1>3, <2>1, ReplyIs DEF AddEntropyAlloc, Pcs
    <3> QED
      BY <1>0, <1>3, <2>0, <2>1, <3>1, ReplyStep DEF AddEntropyAlloc, CallTypes
  <2>2. CASE buf' = [buf EXCEPT ![t] = "mem"] /\ pc' = [pc EXCEPT ![t] = "add"] /\ UNCHANGED res
    <3>1. CallTypes' /\ RngTypes' /\ res' \in [Threads -> Replies]
      BY <1>0, <1>3, <2>2 DEF AddEntropyAlloc, CallTypes, RngTypes
    <3>2. Frame(t)
      BY <1>0, <1>3, <2>2 DEF AddEntropyAlloc, Frame, CallTypes
    <3>3. pc[t] = "entropy" /\ pc'[t] = "add"
      BY <1>0, <1>3, <2>2 DEF AddEntropyAlloc, CallTypes
    <3>4. Good(t)'
      BY <1>3, <3>3 DEF AddEntropyAlloc, Good, InRng, IInv, CallCtxInv
    <3> QED
      BY <1>3, <3>1, <3>2, <3>3, <3>4, QueueStays, ThreadStep DEF AddEntropyAlloc
  <2> QED
    BY <1>3, <2>1, <2>2 DEF AddEntropyAlloc
<1> QED
  BY <1>1, <1>2, <1>3

\* A request enters the queue once.
LEMMA Asks ==
    ASSUME NEW t \in Threads, IInv, GetRandomAsk(t)
    PROVE  IInv'
<1> USE DEF GetRandomAsk
<1>0. CallTypes /\ RngTypes /\ res \in [Threads -> Replies]
  BY TypeParts DEF IInv, ReplyInv
<1>1. CASE Reply(t, "bad", "none", FALSE) /\ UNCHANGED <<count, buf, rngq>>
  <2>0. buf = [buf EXCEPT ![t] = "none"] /\ file = [file EXCEPT ![t] = file[t]]
        /\ ctx = [ctx EXCEPT ![t] = ctx[t]]
    BY <1>0 DEF CallTypes, IInv, ReplyInv, BuffersFreed
  <2>1. PICK r \in Replies : /\ Honest(r) /\ pc' = [pc EXCEPT ![t] = "ret"]
                             /\ res' = [res EXCEPT ![t] = r]
    BY <1>1, ReplyIs DEF Pcs
  <2> QED
    BY <1>0, <1>1, <2>0, <2>1, ReplyStep DEF CallTypes
<1>2. CASE /\ \E n \in Counts : count' = [count EXCEPT ![t] = n]
           /\ \E b \in {"mem", "null"} : buf' = [buf EXCEPT ![t] = b]
           /\ pc' = [pc EXCEPT ![t] = "sleep"]
           /\ rngq' = Append(rngq, t) /\ UNCHANGED res
  <2>1. CallTypes' /\ RngTypes' /\ res' \in [Threads -> Replies]
    BY <1>0, <1>2 DEF CallTypes, RngTypes
  <2>2. Frame(t)
    BY <1>0, <1>2 DEF Frame, CallTypes
  <2>3. pc[t] = "random" /\ pc'[t] = "sleep"
    BY <1>0, <1>2 DEF CallTypes
  <2>4. Good(t)'
    BY <2>3 DEF Good, InRng, IInv, CallCtxInv
  <2>5. \A i \in 1 .. Len(rngq) : rngq[i] \in Threads \ {t} /\ pc[rngq[i]] = "sleep"
    BY <1>0, <2>3 DEF RngTypes, IInv, QueueInv
  <2>6. /\ Len(rngq') = Len(rngq) + 1 /\ rngq'[Len(rngq) + 1] = t /\ Len(rngq) \in Nat
        /\ \A i \in 1 .. Len(rngq) : rngq'[i] = rngq[i]
    BY <1>0, <1>2 DEF RngTypes
  <2>7. Queue'
    BY <2>2, <2>3, <2>5, <2>6 DEF Queue, Frame, IInv, QueueInv
  <2> QED
    BY <2>1, <2>2, <2>4, <2>7, ThreadStep
<1> QED
  BY <1>1, <1>2

\* The head of the queue sleeps; once it leaves it is not in the queue.
LEMMA HeadLeaves ==
    ASSUME NEW t \in Threads, IInv, Serves(t)
    PROVE  /\ pc[t] = "sleep" /\ rngq # <<>> /\ Tail(rngq) \in Seq(Threads)
           /\ Len(Tail(rngq)) \in Nat /\ Len(rngq) \in Nat /\ Len(rngq) = Len(Tail(rngq)) + 1
           /\ \A i \in 1 .. Len(Tail(rngq)) : /\ Tail(rngq)[i] = rngq[i + 1]
                                              /\ rngq[i + 1] \in Threads \ {t}
<1>1. rngq \in Seq(Threads) /\ rngq # <<>> /\ t = rngq[1] /\ Len(rngq) \in Nat /\ Len(rngq) >= 1
  BY DEF Serves, IInv, TypeOK
<1>2. /\ Tail(rngq) \in Seq(Threads) /\ Len(Tail(rngq)) = Len(rngq) - 1
      /\ \A i \in 1 .. Len(Tail(rngq)) : Tail(rngq)[i] = rngq[i + 1]
  BY <1>1
<1>3. \A i \in 1 .. Len(Tail(rngq)) : rngq[i + 1] \in Threads /\ rngq[i + 1] # t
  BY <1>1, <1>2 DEF IInv, QueueInv
<1> QED
  BY <1>1, <1>2, <1>3 DEF IInv, QueueInv

\* The generator serves the head of the queue.
LEMMA Serving ==
    ASSUME NEW t \in Threads, IInv, Rng(t) \/ RngFail(t)
    PROVE  IInv'
<1> USE DEF Rng
<1>0. /\ CallTypes /\ RngTypes /\ res \in [Threads -> Replies] /\ FifoWords \in Nat
      /\ Serves(t)
  BY TypeParts, RngAssumption DEF IInv, ReplyInv, RngWord, RngDone, RngFail, RngFault
<1>1. pc[t] = "sleep"
  BY <1>0, HeadLeaves
<1>2. CASE RngWord(t)
  <2>1. CallTypes' /\ RngTypes' /\ res' \in [Threads -> Replies]
    BY <1>0, <1>2 DEF RngWord, CallTypes, RngTypes
  <2>2. Frame(t)
    BY <1>0, <1>2 DEF RngWord, Frame, CallTypes
  <2>3. Good(t)'
    BY <1>1, <1>2 DEF RngWord, Good, InRng, IInv, CallCtxInv
  <2>4. Queue'
    BY <1>2 DEF RngWord, Queue, IInv, QueueInv
  <2> QED
    BY <2>1, <2>2, <2>3, <2>4, ThreadStep
<1>3. ASSUME NEW ok \in BOOLEAN, Answer(t, ok), ok => filled[t] = CountWords(count[t])
      PROVE  IInv'
  <2>1. CallTypes' /\ RngTypes' /\ res' \in [Threads -> Replies]
    BY <1>0, <1>3, HeadLeaves DEF Answer, CallTypes, RngTypes
  <2>2. Frame(t)
    BY <1>0, <1>3 DEF Answer, Frame, CallTypes
  <2>3. pc'[t] = "give" /\ st'[t] = ok
    BY <1>0, <1>3 DEF Answer, CallTypes
  <2>4. Good(t)'
    BY <1>1, <1>3, <2>3 DEF Answer, Good, InRng, IInv, CallCtxInv
  <2>5. Queue'
    BY <1>0, <1>3, <2>2, HeadLeaves DEF Answer, Queue, Frame, IInv, QueueInv
  <2> QED
    BY <2>1, <2>2, <2>4, <2>5, ThreadStep
<1>4. CASE RngDone(t) \/ RngFail(t)
  BY <1>3, <1>4 DEF RngDone, RngFail
<1>5. CASE RngFault(t)
  <2>1. CallTypes' /\ RngTypes' /\ res' \in [Threads -> Replies]
    BY <1>0, <1>5, HeadLeaves DEF RngFault, CallTypes, RngTypes
  <2>2. Frame(t)
    BY <1>0, <1>5 DEF RngFault, Frame, CallTypes
  <2>3. pc'[t] = "dead"
    BY <1>0, <1>5 DEF RngFault, CallTypes
  <2>4. Good(t)'
    BY <2>3 DEF Good, InRng
  <2>5. Queue'
    BY <1>0, <1>5, <2>2, HeadLeaves DEF RngFault, Queue, Frame, IInv, QueueInv
  <2> QED
    BY <2>1, <2>2, <2>4, <2>5, ThreadStep
<1> QED
  BY <1>2, <1>4, <1>5

LEMMA Refills == ASSUME IInv, RngRefill PROVE IInv'
<1>1. RngTypes'
  BY TypeParts, RngAssumption DEF IInv, RngRefill, RngTypes
<1>2. ModTypes' /\ FileTypes' /\ CallTypes'
  BY TypeParts DEF IInv, RngRefill, ModTypes, FileTypes, CallTypes
<1> QED
  BY <1>1, <1>2, TypePartsNext DEF RngRefill, IInv, FlagInv, CtxInv, CallCtxInv, QueueInv,
     ReplyInv, InRng, SuccessIsReal, BuffersFreed

LEMMA NextIInv == IInv /\ [Next]_vars => IInv'
<1> SUFFICES ASSUME IInv, [Next]_vars PROVE IInv'
  OBVIOUS
<1>1. CASE Load \/ Cleanup
  BY <1>1, ModuleStep
<1>2. ASSUME NEW f \in Files, OpenAlloc(f) \/ OpenRegister(f) \/ Release(f) PROVE IInv'
  BY <1>2, FileStep
<1>3. ASSUME NEW t \in Threads, NEW f \in Files, IoctlContext(t, f) \/ IoctlRegister(t, f)
      PROVE  IInv'
  BY <1>3, Calls, Answers
<1>4. ASSUME NEW t \in Threads, Handler(t) \/ Rng(t) \/ RngFail(t) PROVE IInv'
  BY <1>4, Calls, Answers, Asks, Serving DEF Handler
<1>5. CASE RngRefill
  BY <1>5, Refills
<1>6. CASE UNCHANGED vars
  BY <1>6 DEF vars, IInv, TypeOK, FlagInv, CtxInv, CallCtxInv, QueueInv, ReplyInv, InRng,
     SuccessIsReal, BuffersFreed
<1> QED
  BY <1>1, <1>2, <1>3, <1>4, <1>5, <1>6 DEF Next

\* The context of a call is registered as long as the call uses it.
LEMMA ContextLives == IInv => ContextOfCallLives
<1> SUFFICES ASSUME IInv, NEW t \in Threads, InRng(t)
             PROVE  /\ ctx[t] \in mem \cap users
                    /\ \A f \in Files : private[f] = ctx[t] <=> f = file[t]
  BY DEF ContextOfCallLives
<1>1. file[t] \in Files /\ fstate[file[t]] = "open" /\ ctx[t] = private[file[t]]
  BY DEF IInv, CallCtxInv
<1>2. ctx[t] \in users /\ ctx[t] \in Ctxs
  BY <1>1 DEF IInv, CtxInv
<1>3. ASSUME NEW f \in Files, private[f] = ctx[t] PROVE f = file[t]
  BY <1>1, <1>2, <1>3, RngAssumption DEF IInv, CtxInv
<1> QED
  BY <1>1, <1>2, <1>3 DEF IInv, CtxInv

\* The types; the module is up exactly when it is registered.
THEOREM TypeCorrect == Spec => []TypeOK
BY InitIInv, NextIInv, PTL DEF Spec, IInv

\* No call uses a context that was freed, deregistered or is another file's.
THEOREM ContextsLive == Spec => []ContextOfCallLives
BY InitIInv, NextIInv, ContextLives, PTL DEF Spec

\* The library's users are the open files.
THEOREM UsersKnown == Spec => []UsersAreOpenFiles
<1>1. IInv => UsersAreOpenFiles
  BY DEF IInv, CtxInv, UsersAreOpenFiles
<1> QED
  BY <1>1, InitIInv, NextIInv, PTL DEF Spec

\* A success of get_random and of the register commands is one: all the bytes
\* asked for are random, and delivered.  add_entropy is not covered.
THEOREM SuccessIsTrue == Spec => []SuccessIsReal
<1>1. IInv => SuccessIsReal
  BY DEF IInv, ReplyInv
<1> QED
  BY <1>1, InitIInv, NextIInv, PTL DEF Spec

\* No handler leaves its buffer allocated.
THEOREM NoBufferLeft == Spec => []BuffersFreed
<1>1. IInv => BuffersFreed
  BY DEF IInv, ReplyInv
<1> QED
  BY <1>1, InitIInv, NextIInv, PTL DEF Spec

\* An unloaded module is not registered.
THEOREM NotRegisteredWhenOut == Spec => []UnloadedIsUnregistered
<1>1. IInv => UnloadedIsUnregistered
  BY DEF IInv, TypeOK, FlagInv, UnloadedIsUnregistered
<1> QED
  BY <1>1, InitIInv, NextIInv, PTL DEF Spec
=============================================================================

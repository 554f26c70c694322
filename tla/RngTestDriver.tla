--------------------------- MODULE RngTestDriver ---------------------------
(***************************************************************************)
(* The test driver for the random number generator, module_test/           *)
(* rng_test_driver.c.  Every open file has a user context registered with  *)
(* the security library (FSL SHW); threads that share the file use it in   *)
(* their ioctls, and rng_test_release takes it away.                       *)
(*                                                                         *)
(* The generator is external: requests are served in turn, a word at a     *)
(* time, and a request sleeps while there is no word.  It may also fail.   *)
(* The kernel calls release when no ioctl runs on the file, and unloads    *)
(* the module when no file is open.                                        *)
(***************************************************************************)
EXTENDS Integers, Sequences, FiniteSets

CONSTANTS Files, Threads,
          Ctxs,         \* user contexts that kernel memory has room for
          NULL,
          Counts,       \* values of count_bytes, none of them negative
          FifoWords     \* words the generator holds at most

ASSUME RngAssumption ==
    /\ NULL \notin Ctxs \cup Files
    /\ Counts \subseteq Nat
    /\ FifoWords \in Nat \ {0}

VARIABLES
    mpc,                    \* the module: "out" or "up"
    rng_device_registered,
    chrdev,                 \* the device special file leads to this driver
    fstate,                 \* per file: "closed", "opening" or "open"
    user_ctx,               \* per file: the context rng_test_open allocated
    private,                \* per file: os_dev_set_user_private
    mem, users,             \* contexts allocated; contexts registered
    pc, file, ctx,          \* per thread: where it is, its file and context
    count, buf,             \* count_bytes; data_buffer or entropy
    filled, st,             \* words the generator wrote; its return code is OK
    res,                    \* what ioctl gave the thread
    rngq, entropy           \* the generator: waiting requests, words it has

modVars  == <<mpc, rng_device_registered, chrdev>>
fileVars == <<fstate, user_ctx, private, mem, users>>
callVars == <<pc, file, ctx, count, buf, filled, st, res>>
rngVars  == <<rngq, entropy>>
vars == <<modVars, fileVars, callVars, rngVars>>

\* code: value of ioctl; told: function_return_code in the thread's struct
\* ("none" when it was not written); done: the request was carried out; by: the
\* step of the handler that ended the call.
NoReply == [code |-> "ok", told |-> "none", done |-> FALSE, by |-> "idle"]

Init ==
    /\ mpc = "out"
    /\ rng_device_registered = FALSE
    /\ chrdev = FALSE
    /\ fstate = [f \in Files |-> "closed"]
    /\ user_ctx = [f \in Files |-> NULL]
    /\ private = [f \in Files |-> NULL]
    /\ mem = {}
    /\ users = {}
    /\ pc = [t \in Threads |-> "idle"]
    /\ file = [t \in Threads |-> NULL]
    /\ ctx = [t \in Threads |-> NULL]
    /\ count = [t \in Threads |-> 0]
    /\ buf = [t \in Threads |-> "none"]
    /\ filled = [t \in Threads |-> 0]
    /\ st = [t \in Threads |-> FALSE]
    /\ res = [t \in Threads |-> NoReply]
    /\ rngq = <<>>
    /\ entropy = 0

-----------------------------------------------------------------------------
(* rng_test_init, rng_test_setup_user_driver_interaction, rng_test_cleanup *)

Load ==
    /\ mpc = "out"
    /\ chrdev' \in BOOLEAN
    /\ rng_device_registered' = chrdev'
    /\ mpc' = IF chrdev' THEN "up" ELSE "out"
    /\ UNCHANGED <<fileVars, callVars, rngVars>>

Cleanup ==
    /\ mpc = "up"
    /\ \A f \in Files : fstate[f] = "closed"
    /\ mpc' = "out"
    /\ chrdev' = (chrdev /\ ~rng_device_registered)
    /\ rng_device_registered' = FALSE
    /\ UNCHANGED <<fileVars, callVars, rngVars>>

-----------------------------------------------------------------------------
(* rng_test_open and rng_test_release.                                     *)

\* os_alloc_memory; without memory open fails and nothing is left.
OpenAlloc(f) ==
    /\ mpc = "up"
    /\ fstate[f] = "closed"
    /\ \E c \in Ctxs \ mem :
           /\ mem' = mem \cup {c}
           /\ user_ctx' = [user_ctx EXCEPT ![f] = c]
    /\ fstate' = [fstate EXCEPT ![f] = "opening"]
    /\ UNCHANGED <<modVars, private, users, callVars, rngVars>>

\* Mutant: the return code of fsl_shw_register_user is not looked at.
OpenRegisterUnchecked(f) ==
    /\ fstate[f] = "opening"
    /\ users' \in {users, users \cup {user_ctx[f]}}
    /\ private' = [private EXCEPT ![f] = user_ctx[f]]
    /\ fstate' = [fstate EXCEPT ![f] = "open"]
    /\ user_ctx' = [user_ctx EXCEPT ![f] = NULL]
    /\ UNCHANGED <<modVars, mem, callVars, rngVars>>

\* When fsl_shw_register_user fails the context is not freed.
OpenRegister(f) ==
    /\ fstate[f] = "opening"
    /\ \/ /\ users' = users \cup {user_ctx[f]}
          /\ private' = [private EXCEPT ![f] = user_ctx[f]]
          /\ fstate' = [fstate EXCEPT ![f] = "open"]
       \/ /\ fstate' = [fstate EXCEPT ![f] = "closed"]
          /\ UNCHANGED <<users, private>>
    /\ user_ctx' = [user_ctx EXCEPT ![f] = NULL]
    /\ UNCHANGED <<modVars, mem, callVars, rngVars>>

\* The last close of the file.
Closes(f) ==
    /\ fstate[f] = "open"
    /\ \A t \in Threads : file[t] # f
    /\ fstate' = [fstate EXCEPT ![f] = "closed"]
    /\ UNCHANGED <<modVars, user_ctx, callVars, rngVars>>

\* Mutant: the context is freed while it is still registered.
ReleaseKeepsUser(f) ==
    /\ Closes(f)
    /\ mem' = mem \ {private[f]}
    /\ private' = [private EXCEPT ![f] = NULL]
    /\ UNCHANGED users

Release(f) ==
    /\ Closes(f)
    /\ users' = users \ {private[f]}
    /\ mem' = mem \ {private[f]}
    /\ private' = [private EXCEPT ![f] = NULL]

-----------------------------------------------------------------------------
(* rng_test_ioctl.                                                         *)

Reply(t, code, told, done) ==
    /\ pc' = [pc EXCEPT ![t] = "ret"]
    /\ res' = [res EXCEPT ![t] = [code |-> code, told |-> told, done |-> done,
                                     by |-> pc[t]]]

Told(ok) == IF ok THEN "ok" ELSE "fail"

\* os_copy_to_user of the struct as the last thing a handler does.
CopyOut(t, ok, done) ==
    \/ Reply(t, "ok", Told(ok), done)
    \/ Reply(t, "bad", "none", done)

\* The two commands that need the context of the file.
IoctlContext(t, f) ==
    /\ pc[t] = "idle"
    /\ fstate[f] = "open"
    /\ file' = [file EXCEPT ![t] = f]
    /\ ctx' = [ctx EXCEPT ![t] = private[f]]
    /\ IF private[f] # NULL
       THEN /\ \E c \in {"random", "entropy"} : pc' = [pc EXCEPT ![t] = c]
            /\ UNCHANGED res
       ELSE Reply(t, "fail", "none", FALSE)
    /\ UNCHANGED <<modVars, fileVars, count, buf, filled, st, rngVars>>

\* rng_test_read_register, rng_test_write_register and unknown commands.
IoctlRegister(t, f) ==
    /\ pc[t] = "idle"
    /\ fstate[f] = "open"
    /\ file' = [file EXCEPT ![t] = f]
    /\ \/ Reply(t, "bad", "none", FALSE)
       \/ \E ok \in BOOLEAN : CopyOut(t, ok, ok)
       \/ Reply(t, "fail", "none", FALSE)
    /\ UNCHANGED <<modVars, fileVars, ctx, count, buf, filled, st, rngVars>>

IoctlReturn(t) ==
    /\ pc[t] = "ret"
    /\ pc' = [pc EXCEPT ![t] = "idle"]
    /\ file' = [file EXCEPT ![t] = NULL]
    /\ ctx' = [ctx EXCEPT ![t] = NULL]
    /\ count' = [count EXCEPT ![t] = 0]
    /\ filled' = [filled EXCEPT ![t] = 0]
    /\ st' = [st EXCEPT ![t] = FALSE]
    /\ res' = [res EXCEPT ![t] = NoReply]
    /\ UNCHANGED <<modVars, fileVars, buf, rngVars>>

-----------------------------------------------------------------------------
(* rng_test_get_random.                                                    *)

\* Mutant: the request is rounded down to whole words.
CountWordsDown(n) == n \div 4

CountWords(n) == (n + 3) \div 4

\* The result of os_alloc_memory is not looked at before it is passed on.  The
\* memory has count_bytes and gets whole words; it is taken to come in multiples
\* of the word, so what is written behind the last byte harms nobody.
GetRandomAsk(t) ==
    /\ pc[t] = "random"
    /\ \/ /\ Reply(t, "bad", "none", FALSE)
          /\ UNCHANGED <<count, buf, rngq>>
       \/ /\ \E n \in Counts : count' = [count EXCEPT ![t] = n]
          /\ \E b \in {"mem", "null"} : buf' = [buf EXCEPT ![t] = b]
          /\ pc' = [pc EXCEPT ![t] = "sleep"]
          /\ rngq' = Append(rngq, t)
          /\ UNCHANGED res
    /\ UNCHANGED <<modVars, fileVars, file, ctx, filled, st, entropy>>

Serves(t) == rngq # <<>> /\ t = Head(rngq)

Answer(t, ok) ==
    /\ st' = [st EXCEPT ![t] = ok]
    /\ pc' = [pc EXCEPT ![t] = "give"]
    /\ rngq' = Tail(rngq)
    /\ UNCHANGED <<modVars, fileVars, file, ctx, count, buf, filled, res, entropy>>

RngWord(t) ==
    /\ Serves(t)
    /\ buf[t] = "mem"
    /\ filled[t] < CountWords(count[t])
    /\ entropy > 0
    /\ entropy' = entropy - 1
    /\ filled' = [filled EXCEPT ![t] = @ + 1]
    /\ UNCHANGED <<modVars, fileVars, pc, file, ctx, count, buf, st, res, rngq>>

RngDone(t) ==
    /\ Serves(t)
    /\ filled[t] = CountWords(count[t])
    /\ Answer(t, TRUE)

RngFail(t) == Serves(t) /\ Answer(t, FALSE)

\* Writing through a NULL data_buffer is a kernel fault: the thread is gone,
\* and the file it used is closed with it or stays in use for ever.
RngFault(t) ==
    /\ Serves(t)
    /\ buf[t] = "null"
    /\ filled[t] < CountWords(count[t])
    /\ pc' = [pc EXCEPT ![t] = "dead"]
    /\ file' \in {file, [file EXCEPT ![t] = NULL]}
    /\ rngq' = Tail(rngq)
    /\ UNCHANGED <<modVars, fileVars, ctx, count, buf, filled, st, res, entropy>>

\* The hardware goes on making words; a full FIFO drops them.
RngRefill ==
    /\ entropy' = IF entropy < FifoWords THEN entropy + 1 ELSE entropy
    /\ UNCHANGED <<modVars, fileVars, callVars, rngq>>

\* Mutant: a request that failed is made again.
GetRandomGiveRetry(t) ==
    /\ pc[t] = "give"
    /\ IF st[t]
       THEN /\ \E copied \in BOOLEAN, told \in {"none", "ok"} :
                   Reply(t, IF copied THEN "ok" ELSE "bad", told, copied)
            /\ buf' = [buf EXCEPT ![t] = "none"]
            /\ UNCHANGED <<filled, rngq>>
       ELSE /\ pc' = [pc EXCEPT ![t] = "sleep"]
            /\ filled' = [filled EXCEPT ![t] = 0]
            /\ rngq' = Append(rngq, t)
            /\ UNCHANGED <<buf, res>>
    /\ UNCHANGED <<modVars, fileVars, file, ctx, count, st, entropy>>

\* The struct is copied, then the data if there are any; the result of the
\* second copy replaces that of the first.
GetRandomGive(t) ==
    /\ pc[t] = "give"
    /\ IF st[t]
       THEN \E copied \in BOOLEAN, told \in {"none", "ok"} :
                Reply(t, IF copied THEN "ok" ELSE "bad", told,
                      copied /\ 4 * filled[t] >= count[t])
       ELSE CopyOut(t, FALSE, FALSE)
    /\ buf' = [buf EXCEPT ![t] = "none"]
    /\ UNCHANGED <<modVars, fileVars, file, ctx, count, filled, st, rngVars>>

-----------------------------------------------------------------------------
(* rng_test_add_entropy.  The bytes added are those the new memory held:   *)
(* the user's are never copied to it, so the request is never carried out. *)

AddEntropyAlloc(t) ==
    /\ pc[t] = "entropy"
    /\ \/ Reply(t, "bad", "none", FALSE) /\ UNCHANGED buf
       \/ Reply(t, "nomem", "none", FALSE) /\ UNCHANGED buf
       \/ /\ buf' = [buf EXCEPT ![t] = "mem"]
          /\ pc' = [pc EXCEPT ![t] = "add"]
          /\ UNCHANGED res
    /\ UNCHANGED <<modVars, fileVars, file, ctx, count, filled, st, rngVars>>

AddEntropy(t) ==
    /\ pc[t] = "add"
    /\ \E ok \in BOOLEAN : CopyOut(t, ok, FALSE)
    /\ buf' = [buf EXCEPT ![t] = "none"]
    /\ UNCHANGED <<modVars, fileVars, file, ctx, count, filled, st, rngVars>>

-----------------------------------------------------------------------------

Handler(t) ==
    \/ GetRandomAsk(t) \/ GetRandomGive(t)
    \/ AddEntropyAlloc(t) \/ AddEntropy(t)
    \/ IoctlReturn(t)

Rng(t) == RngWord(t) \/ RngDone(t) \/ RngFault(t)

Next ==
    \/ Load \/ Cleanup
    \/ \E f \in Files : OpenAlloc(f) \/ OpenRegister(f) \/ Release(f)
    \/ \E t \in Threads :
           \/ \E f \in Files : IoctlContext(t, f) \/ IoctlRegister(t, f)
           \/ Handler(t) \/ Rng(t) \/ RngFail(t)
    \/ RngRefill

Spec == Init /\ [][Next]_vars

\* Handlers run on, the hardware makes words, and the generator serves the
\* request at the head of its queue.
FairSpec ==
    /\ Spec
    /\ WF_vars(RngRefill)
    /\ \A t \in Threads : WF_vars(Handler(t)) /\ WF_vars(Rng(t))

-----------------------------------------------------------------------------
(* Properties.                                                             *)

InRng(t) == pc[t] \in {"random", "sleep", "give", "entropy", "add"}

\* Every variable has its type; the module is up exactly when rng_test_init
\* registered it.
TypeOK ==
    /\ mpc \in {"out", "up"}
    /\ rng_device_registered \in BOOLEAN
    /\ chrdev \in BOOLEAN
    /\ mpc = "up" <=> rng_device_registered
    /\ fstate \in [Files -> {"closed", "opening", "open"}]
    /\ user_ctx \in [Files -> Ctxs \cup {NULL}]
    /\ private \in [Files -> Ctxs \cup {NULL}]
    /\ mem \subseteq Ctxs
    /\ users \subseteq Ctxs
    /\ pc \in [Threads -> {"idle", "random", "sleep", "give", "entropy", "add",
                           "ret", "dead"}]
    /\ file \in [Threads -> Files \cup {NULL}]
    /\ ctx \in [Threads -> Ctxs \cup {NULL}]
    /\ count \in [Threads -> Counts \cup {0}]
    /\ buf \in [Threads -> {"none", "mem", "null"}]
    /\ filled \in [Threads -> Nat]
    /\ st \in [Threads -> BOOLEAN]
    /\ rngq \in Seq(Threads)
    /\ entropy \in 0 .. FifoWords

\* A call that uses the generator uses the context of its file, which is
\* allocated and registered until the call ends, and is no other file's.
ContextOfCallLives ==
    \A t \in Threads : InRng(t) =>
        /\ ctx[t] \in mem \cap users
        /\ \A f \in Files : private[f] = ctx[t] <=> f = file[t]

\* The library knows no user but the contexts of the open files: every close
\* takes its user away, and a failed open leaves none.
UsersAreOpenFiles == users = {private[f] : f \in {g \in Files : fstate[g] = "open"}}

\* An ioctl that returns 0, and does not say otherwise in the struct, has
\* carried its request out, whichever copy or request failed before: for
\* RNG_TEST_GET_RANDOM all count_bytes are random and are in the user's buffer.
\* Left out is the known departure: rng_test_add_entropy, which is to "add
\* randomness to the RNG", reports success and has not taken the user's bytes.
SuccessIsReal ==
    \A t \in Threads :
        /\ pc[t] = "ret" /\ res[t].by # "add"
        /\ res[t].code = "ok" /\ res[t].told # "fail"
        => res[t].done

\* data_buffer and entropy are freed on every path of their handlers.
BuffersFreed ==
    \A t \in Threads : buf[t] # "none" => pc[t] \in {"sleep", "give", "add", "dead"}

\* An unloaded module is not registered: rng_device_registered tells
\* rng_test_cleanup the truth.
UnloadedIsUnregistered == mpc = "out" => ~chrdev

\* rng_test_get_random sleeps until there is enough entropy and no longer:
\* every call ends.
GetRandomReturns ==
    \A t \in Threads : pc[t] = "random" ~> pc[t] \in {"idle", "dead"}
=============================================================================

--------------------------- MODULE Scc2TestDriver ---------------------------
(***************************************************************************)
(* The test driver for the second Security Controller, module_test/        *)
(* scc2_test_driver.c.  Test programs allocate, engage, fill, encrypt,     *)
(* decrypt, read and release partitions of secure memory.  One mutex is    *)
(* held over the whole of scc2_test_ioctl.                                 *)
(*                                                                         *)
(* The controller (scc_...) is external: a partition is free, allocated or *)
(* engaged, and encrypting gives a text that only decrypting turns back.   *)
(* Handlers sleep in copies, allocations and mutex_lock, so those are      *)
(* steps of their own.  A program uses partitions that are allocated.      *)
(***************************************************************************)
EXTENDS Integers, FiniteSets

CONSTANTS Procs, Parts,
          Values,       \* contents of a partition
          None          \* no process, no partition, no content

ASSUME Scc2Assumption == None \notin Procs \cup Parts \cup Values

\* Texts: plain values, what encrypting gives, memory never written.
Enc(v) == [enc |-> v]
Junk == [enc |-> None]
Texts == Values \cup {Enc(v) : v \in Values} \cup {Junk}

Cmds == {"config", "register", "alarm", "alloc", "engage", "encrypt", "decrypt",
         "load", "read", "release", "invalid"}

VARIABLES
    mpc, error_code, registered, callback,   \* module life cycle
    scc2_test_mutex,      \* the process in scc2_test_ioctl, or None
    pc, cmd, arg,         \* per process: where it is, its command and partition
    st,                   \* acc.scc_status is SCC_RET_OK
    black,                \* DMA memory of an encrypt or decrypt call
    buf,                  \* the user's buffer at acc.black_address
    res,                  \* what ioctl gave the process
    part, data            \* the controller's partitions

modVars  == <<mpc, error_code, registered, callback>>
partVars == <<part, data>>
vars == <<modVars, scc2_test_mutex, pc, cmd, arg, st, black, buf, res, partVars>>

\* ret: value of ioctl; told: status in the process's struct ("none" when it
\* was not written); done: the request was carried out.
NoReply == [ret |-> "zero", told |-> "none", done |-> FALSE]

Init ==
    /\ mpc = "out"
    /\ error_code = FALSE
    /\ registered = FALSE
    /\ callback = FALSE
    /\ scc2_test_mutex = None
    /\ pc = [p \in Procs |-> "closed"]
    /\ cmd = [p \in Procs |-> "config"]
    /\ arg = [p \in Procs |-> None]
    /\ st = [p \in Procs |-> FALSE]
    /\ black = [p \in Procs |-> None]
    /\ buf = [p \in Procs |-> Junk]
    /\ res = [p \in Procs |-> NoReply]
    /\ part = [x \in Parts |-> "free"]
    /\ data = [x \in Parts |-> None]

-----------------------------------------------------------------------------
(* scc2_test_init, setup_user_driver_interaction, scc2_test_cleanup.  The  *)
(* kernel does not unload the module while a file is open.                 *)

LoadStep(from, to) ==
    /\ mpc = from
    /\ mpc' = to
    /\ UNCHANGED <<scc2_test_mutex, pc, cmd, arg, st, black, buf, res, partVars>>

InitStatus ==
    /\ LoadStep("out", "setup")
    /\ error_code' \in BOOLEAN
    /\ UNCHANGED <<registered, callback>>

InitSetup ==
    /\ LoadStep("setup", "monitor")
    /\ registered' \in {FALSE, ~error_code}
    /\ error_code' = ~registered'
    /\ UNCHANGED callback

InitMonitor ==
    /\ LoadStep("monitor", IF error_code THEN "out" ELSE "up")
    /\ callback' = TRUE
    /\ registered' = ~error_code
    /\ error_code' = FALSE

Cleanup ==
    /\ LoadStep("up", "out")
    /\ \A p \in Procs : pc[p] = "closed"
    /\ registered' = FALSE
    /\ UNCHANGED <<error_code, callback>>

\* scc2_test_open and scc2_test_release do nothing of their own; in
\* particular a close releases no partition.
Open(p) ==
    /\ mpc = "up"
    /\ pc[p] = "closed"
    /\ pc' = [pc EXCEPT ![p] = "idle"]
    /\ UNCHANGED <<modVars, scc2_test_mutex, cmd, arg, st, black, buf, res, partVars>>

Release(p) ==
    /\ pc[p] = "idle"
    /\ pc' = [pc EXCEPT ![p] = "closed"]
    /\ UNCHANGED <<modVars, scc2_test_mutex, cmd, arg, st, black, buf, res, partVars>>

-----------------------------------------------------------------------------
(* scc2_test_ioctl: lock, one handler, unlock.                             *)

\* The process calls ioctl; before that it may write its buffer.
Call(p, c, x) ==
    /\ pc[p] = "idle"
    /\ IF c \in {"config", "register", "alarm", "alloc", "invalid"} THEN x = None
       ELSE x \in Parts /\ part[x] # "free"
    /\ pc' = [pc EXCEPT ![p] = "lock"]
    /\ cmd' = [cmd EXCEPT ![p] = c]
    /\ arg' = [arg EXCEPT ![p] = x]
    /\ IF c = "load" THEN \E v \in Values : buf' = [buf EXCEPT ![p] = v]
                     ELSE UNCHANGED buf
    /\ UNCHANGED <<modVars, scc2_test_mutex, st, black, res, partVars>>

\* Mutant: the mutex does not keep the second process out.
LockShared(p) ==
    /\ pc[p] = "lock"
    /\ scc2_test_mutex' = p
    /\ pc' = [pc EXCEPT ![p] = "enter"]
    /\ UNCHANGED <<modVars, cmd, arg, st, black, buf, res, partVars>>

Lock(p) ==
    /\ pc[p] = "lock"
    /\ scc2_test_mutex = None
    /\ scc2_test_mutex' = p
    /\ pc' = [pc EXCEPT ![p] = "enter"]
    /\ UNCHANGED <<modVars, cmd, arg, st, black, buf, res, partVars>>

\* The locals of the handler end with it.
Forget(p) ==
    /\ res' = [res EXCEPT ![p] = NoReply]
    /\ st' = [st EXCEPT ![p] = FALSE]
    /\ cmd' = [cmd EXCEPT ![p] = "config"]
    /\ arg' = [arg EXCEPT ![p] = None]

\* Mutant: a handler that fails returns without unlocking.
UnlockOnSuccess(p) ==
    /\ pc[p] = "unlock"
    /\ scc2_test_mutex' = IF res[p].ret = "zero" THEN None ELSE scc2_test_mutex
    /\ pc' = [pc EXCEPT ![p] = "idle"]
    /\ Forget(p)
    /\ UNCHANGED <<modVars, black, buf, partVars>>

Unlock(p) ==
    /\ pc[p] = "unlock"
    /\ scc2_test_mutex' = None
    /\ pc' = [pc EXCEPT ![p] = "idle"]
    /\ Forget(p)
    /\ UNCHANGED <<modVars, black, buf, partVars>>

Enters(p, c) == pc[p] = "enter" /\ cmd[p] = c

Told(ok) == IF ok THEN "ok" ELSE "fail"

Reply(p, ret, told, done) ==
    /\ pc' = [pc EXCEPT ![p] = "unlock"]
    /\ res' = [res EXCEPT ![p] = [ret |-> ret, told |-> told, done |-> done]]

\* The last copy_to_user; what it could not copy is what ioctl returns.
CopyOut(p, ok, done) ==
    \/ Reply(p, "zero", Told(ok), done)
    \/ Reply(p, "pos", "none", done)

\* The struct, or the UMID it points to, cannot be read.
CopyInFails(p) ==
    /\ pc[p] = "enter"
    /\ cmd[p] \in Cmds \ {"config", "register", "alarm", "invalid"}
    /\ Reply(p, "pos", "none", FALSE)
    /\ UNCHANGED <<modVars, scc2_test_mutex, cmd, arg, st, black, buf, partVars>>

-----------------------------------------------------------------------------
(* Handlers of one step.                                                   *)

\* Configuration, software alarm and unknown commands write no status.  The
\* register commands ignore the result of the last copy_to_user: when it fails
\* the process gets neither the value nor the status, and still a 0.
Simple(p) ==
    /\ \/ Enters(p, "config") /\ Reply(p, "zero", "none", TRUE)
       \/ Enters(p, "config") /\ Reply(p, "neg", "none", FALSE)
       \/ Enters(p, "alarm") /\ Reply(p, "zero", "none", TRUE)
       \/ Enters(p, "invalid") /\ Reply(p, "neg", "none", FALSE)
       \/ /\ Enters(p, "register")
          /\ \E ok, written \in BOOLEAN :
                 Reply(p, IF ok THEN "zero" ELSE "neg",
                       IF written THEN Told(ok) ELSE "none", ok /\ written)
    /\ UNCHANGED <<modVars, scc2_test_mutex, cmd, arg, st, black, buf, partVars>>

AllocPart(p) ==
    /\ Enters(p, "alloc")
    /\ \/ \E x \in Parts :
              /\ part[x] = "free"
              /\ part' = [part EXCEPT ![x] = "alloc"]
              /\ CopyOut(p, TRUE, TRUE)
       \/ UNCHANGED part /\ CopyOut(p, FALSE, FALSE)
    /\ UNCHANGED <<modVars, scc2_test_mutex, cmd, arg, st, black, buf, data>>

EngagePart(p) ==
    /\ Enters(p, "engage")
    /\ \/ /\ part[arg[p]] = "alloc"
          /\ part' = [part EXCEPT ![arg[p]] = "engaged"]
          /\ CopyOut(p, TRUE, TRUE)
       \/ UNCHANGED part /\ CopyOut(p, FALSE, FALSE)
    /\ UNCHANGED <<modVars, scc2_test_mutex, cmd, arg, st, black, buf, data>>

\* copy_from_user straight into the partition; the status is never written.
LoadData(p) ==
    /\ Enters(p, "load")
    /\ \/ data' = [data EXCEPT ![arg[p]] = buf[p]] /\ Reply(p, "zero", "none", TRUE)
       \/ UNCHANGED data /\ Reply(p, "pos", "none", FALSE)
    /\ UNCHANGED <<modVars, scc2_test_mutex, cmd, arg, st, black, buf, part>>

ReadData(p) ==
    /\ Enters(p, "read")
    /\ \/ buf' = [buf EXCEPT ![p] = IF data[arg[p]] = None THEN Junk ELSE data[arg[p]]]
          /\ Reply(p, "zero", "none", TRUE)
       \/ UNCHANGED buf /\ Reply(p, "pos", "none", FALSE)
    /\ UNCHANGED <<modVars, scc2_test_mutex, cmd, arg, st, black, partVars>>

ReleasePart(p) ==
    /\ Enters(p, "release")
    /\ \/ /\ part[arg[p]] # "free"
          /\ part' = [part EXCEPT ![arg[p]] = "free"]
          /\ data' = [data EXCEPT ![arg[p]] = None]
          /\ CopyOut(p, TRUE, TRUE)
       \/ UNCHANGED partVars /\ CopyOut(p, FALSE, FALSE)
    /\ UNCHANGED <<modVars, scc2_test_mutex, cmd, arg, st, black, buf>>

-----------------------------------------------------------------------------
(* scc2_test_encrypt_part: DMA memory, do_encrypt_part or do_decrypt_part, *)
(* dma_free_coherent, reply.                                               *)

DmaAlloc(p) ==
    /\ pc[p] = "enter" /\ cmd[p] \in {"encrypt", "decrypt"}
    /\ \/ /\ black' = [black EXCEPT ![p] = Junk]
          /\ pc' = [pc EXCEPT ![p] = cmd[p]]
          /\ UNCHANGED res
       \/ UNCHANGED black /\ Reply(p, "pos", "none", FALSE)
    /\ UNCHANGED <<modVars, scc2_test_mutex, cmd, arg, st, buf, partVars>>

Usable(x) == part[x] = "engaged" /\ data[x] \in Values

EncryptRegion(p) ==
    /\ pc[p] = "encrypt"
    /\ \/ /\ Usable(arg[p])
          /\ black' = [black EXCEPT ![p] = Enc(data[arg[p]])]
          /\ st' = [st EXCEPT ![p] = TRUE]
       \/ UNCHANGED black /\ st' = [st EXCEPT ![p] = FALSE]
    /\ pc' = [pc EXCEPT ![p] = "give"]
    /\ UNCHANGED <<modVars, scc2_test_mutex, cmd, arg, buf, res, partVars>>

\* Mutant: a failing copy_to_user skips dma_free_coherent.
EncryptGiveLeaks(p) ==
    /\ pc[p] = "give"
    /\ \/ buf' = [buf EXCEPT ![p] = black[p]] /\ CopyOut(p, st[p], st[p])
          /\ black' = [black EXCEPT ![p] = None]
       \/ UNCHANGED <<buf, black>> /\ Reply(p, "pos", "none", FALSE)
    /\ UNCHANGED <<modVars, scc2_test_mutex, cmd, arg, st, partVars>>

\* Mutant: the result of copying the text is overwritten by the last copy.
EncryptGiveOverwritten(p) ==
    /\ pc[p] = "give"
    /\ \/ buf' = [buf EXCEPT ![p] = black[p]] /\ CopyOut(p, st[p], st[p])
       \/ UNCHANGED buf /\ CopyOut(p, st[p], FALSE)
    /\ black' = [black EXCEPT ![p] = None]
    /\ UNCHANGED <<modVars, scc2_test_mutex, cmd, arg, st, partVars>>

\* The text is copied also when encrypting failed: then it is what the DMA
\* memory held before.
EncryptGive(p) ==
    /\ pc[p] = "give"
    /\ \/ buf' = [buf EXCEPT ![p] = black[p]] /\ CopyOut(p, st[p], st[p])
       \/ UNCHANGED buf /\ Reply(p, "pos", "none", FALSE)
    /\ black' = [black EXCEPT ![p] = None]
    /\ UNCHANGED <<modVars, scc2_test_mutex, cmd, arg, st, partVars>>

DecryptTake(p) ==
    /\ pc[p] = "decrypt"
    /\ \/ /\ black' = [black EXCEPT ![p] = buf[p]]
          /\ pc' = [pc EXCEPT ![p] = "dodecrypt"]
          /\ UNCHANGED res
       \/ black' = [black EXCEPT ![p] = None] /\ Reply(p, "pos", "none", FALSE)
    /\ UNCHANGED <<modVars, scc2_test_mutex, cmd, arg, st, buf, partVars>>

DecryptRegion(p) ==
    /\ pc[p] = "dodecrypt"
    /\ \/ /\ part[arg[p]] = "engaged"
          /\ \E v \in Values : black[p] = Enc(v) /\ data' = [data EXCEPT ![arg[p]] = v]
          /\ CopyOut(p, TRUE, TRUE)
       \/ UNCHANGED data /\ CopyOut(p, FALSE, FALSE)
    /\ black' = [black EXCEPT ![p] = None]
    /\ UNCHANGED <<modVars, scc2_test_mutex, cmd, arg, st, buf, part>>

-----------------------------------------------------------------------------

Handler(p) ==
    \/ CopyInFails(p) \/ Simple(p)
    \/ AllocPart(p) \/ EngagePart(p) \/ LoadData(p) \/ ReadData(p) \/ ReleasePart(p)
    \/ DmaAlloc(p) \/ EncryptRegion(p) \/ EncryptGive(p)
    \/ DecryptTake(p) \/ DecryptRegion(p)
    \/ Unlock(p)

Next ==
    \/ InitStatus \/ InitSetup \/ InitMonitor \/ Cleanup
    \/ \E p \in Procs :
           \/ Open(p) \/ Release(p)
           \/ \E c \in Cmds, x \in Parts \cup {None} : Call(p, c, x)
           \/ Lock(p)
           \/ Handler(p)

Spec == Init /\ [][Next]_vars

\* A handler that can run does run, and the mutex is handed on in turn, so a
\* process that waits for it gets it if it is free again and again.
FairSpec == Spec /\ \A p \in Procs : WF_vars(Handler(p)) /\ SF_vars(Lock(p))

-----------------------------------------------------------------------------
(* Properties.                                                             *)

InIoctl(p) == pc[p] \in {"enter", "encrypt", "decrypt", "give", "dodecrypt", "unlock"}

\* Every variable has its type, and "no more than 1 user at a time" is in
\* scc2_test_ioctl: the process that holds scc2_test_mutex.
TypeOK ==
    /\ mpc \in {"out", "setup", "monitor", "up"}
    /\ error_code \in BOOLEAN /\ registered \in BOOLEAN /\ callback \in BOOLEAN
    /\ scc2_test_mutex \in Procs \cup {None}
    /\ pc \in [Procs -> {"closed", "idle", "lock", "enter", "encrypt", "decrypt",
                         "give", "dodecrypt", "unlock"}]
    /\ cmd \in [Procs -> Cmds]
    /\ arg \in [Procs -> Parts \cup {None}]
    /\ st \in [Procs -> BOOLEAN]
    /\ black \in [Procs -> Texts \cup {None}]
    /\ buf \in [Procs -> Texts]
    /\ part \in [Parts -> {"free", "alloc", "engaged"}]
    /\ data \in [Parts -> Texts \cup {None}]
    /\ \A p \in Procs : InIoctl(p) <=> scc2_test_mutex = p

Success(p) == pc[p] = "unlock" /\ res[p].ret = "zero" /\ res[p].told \in {"none", "ok"}

\* The register commands could not write their struct back and return 0 all the
\* same, against "0 for success, an error code on failure" in their headers.
RegisterNotGiven(p) == cmd[p] = "register" /\ res[p].told = "none"

\* An ioctl that returns 0, with a good status if it writes one, has carried
\* out the request: a failing copy, allocation or controller call is not
\* overwritten by a later result.  The one known departure is left out of the
\* property: scc2_test_read_register and scc2_test_write_register do lose a
\* failing copy_to_user.
SuccessIsReal ==
    \A p \in Procs : Success(p) /\ ~RegisterNotGiven(p) => res[p].done

\* When an encrypt, read or load call ends well, the user's buffer and the
\* partition agree: no other process changed the partition between the steps
\* of the call.
BufferMatchesPartition ==
    \A p \in Procs : Success(p) =>
        /\ cmd[p] = "encrypt" => Usable(arg[p]) /\ buf[p] = Enc(data[arg[p]])
        /\ cmd[p] = "decrypt" => buf[p] = Enc(data[arg[p]])
        /\ cmd[p] \in {"read", "load"} => data[arg[p]] \in {buf[p], None}

\* scc2_test_encrypt_part frees its DMA memory on every path: only a call
\* that runs has any.
BlackMemoryFreed ==
    \A p \in Procs : black[p] # None => pc[p] \in {"encrypt", "decrypt", "give", "dodecrypt"}

\* scc2_test_init on an error and scc2_test_cleanup leave no registration.
UnloadedIsUnregistered == mpc = "out" => ~registered

\* Every ioctl returns: scc2_test_mutex is unlocked on every path and passed
\* on, so nobody waits for it for ever.
EveryIoctlReturns == \A p \in Procs : pc[p] = "lock" ~> pc[p] = "idle"
=============================================================================

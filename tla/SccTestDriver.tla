--------------------------- MODULE SccTestDriver ---------------------------
(***************************************************************************)
(* The test driver for the Security Controller, module_test/               *)
(* scc_test_driver.c: loading and unloading, open and close, and the       *)
(* ioctls by which test programs use the controller's cipher, registers    *)
(* and key slots.                                                          *)
(*                                                                         *)
(* Handlers sleep in copy_from_user, copy_to_user and kmalloc, and the     *)
(* kernel then runs other processes, so the driver calls of one handler    *)
(* are steps of their own.  The controller (scc_...) is external: a slot   *)
(* has an owner and a key, every call checks the owner and may also fail.  *)
(* A process passes any owner id, also one that another process uses.      *)
(***************************************************************************)
EXTENDS Integers, FiniteSets

CONSTANTS Procs, Slots,
          Owners,       \* values of owner_id
          Nobody,       \* no owner and no slot: the owner of a free slot
          InitMajor,    \* scc_test_major_node at insmod (240)
          MajorBusy,    \* values of "another driver has that major number"
          KernelMem,    \* key buffers kmalloc can give before it fails
          MaxMmap       \* bound on the calls of mmap

ASSUME SccAssumption ==
    /\ IsFiniteSet(Procs)
    /\ Nobody \notin Owners \cup Slots
    /\ InitMajor \in Nat
    /\ MajorBusy \subseteq BOOLEAN
    /\ KernelMem \in Nat
    /\ MaxMmap \in Nat

VARIABLES
    mpc, error_code,        \* the module: out, loading, up; scc_test_init's local
    scc_test_major_node,
    chrdev,                 \* who has the major number: "none", "scc", "other"
    callback,               \* scc_test_report_failure is registered
    refs, mmaps,            \* module use count; calls of mmap so far
    pc, at, id, st,         \* per process: handler; acc.slot, owner_id, scc_status
    keycopied,              \* load_slot: the key was copied from the user
    areas,                  \* kernel buffers of a running cipher call
    res,                    \* what the ioctl gave the process
    lost,                   \* key buffers allocated and never freed
    owner, key              \* the controller's slots

modVars  == <<mpc, error_code, scc_test_major_node, chrdev, callback>>
refVars  == <<refs, mmaps>>
slotVars == <<owner, key>>
locVars  == <<at, id, st, keycopied>>
vars == <<modVars, refVars, pc, locVars, areas, res, lost, slotVars>>

\* ret: value of ioctl; told: status in the process's struct ("none" when the
\* struct was not written); done: the request was carried out.
NoReply == [ret |-> "zero", told |-> "none", done |-> FALSE]

Init ==
    /\ mpc = "out"
    /\ error_code = FALSE
    /\ scc_test_major_node = InitMajor
    /\ \E busy \in MajorBusy : chrdev = IF busy THEN "other" ELSE "none"
    /\ callback = FALSE
    /\ refs = 0
    /\ mmaps = 0
    /\ pc = [p \in Procs |-> "closed"]
    /\ at = [p \in Procs |-> Nobody]
    /\ id = [p \in Procs |-> Nobody]
    /\ st = [p \in Procs |-> FALSE]
    /\ keycopied = [p \in Procs |-> TRUE]
    /\ areas = [p \in Procs |-> {}]
    /\ res = [p \in Procs |-> NoReply]
    /\ lost = 0
    /\ owner = [s \in Slots |-> Nobody]
    /\ key = [s \in Slots |-> Nobody]

-----------------------------------------------------------------------------
(* scc_test_init, setup_user_driver_interaction, scc_test_cleanup.         *)

LoadStep(from, to) ==
    /\ mpc = from
    /\ mpc' = to
    /\ UNCHANGED <<refVars, pc, locVars, areas, res, lost, slotVars>>

InitStatus ==
    /\ LoadStep("out", "setup")
    /\ error_code' \in BOOLEAN
    /\ scc_test_major_node' = InitMajor
    /\ UNCHANGED <<chrdev, callback>>

\* Registering succeeds with code 0; that is also what is "saved" when the
\* major number was left to the kernel.  It fails when the number is taken.
InitSetup ==
    /\ LoadStep("setup", "monitor")
    /\ \/ ~error_code /\ chrdev # "other" /\ chrdev' = "scc" /\ UNCHANGED error_code
       \/ ~error_code /\ error_code' = TRUE /\ UNCHANGED chrdev
       \/ error_code /\ UNCHANGED <<error_code, chrdev>>
    /\ UNCHANGED <<scc_test_major_node, callback>>

\* unregister_chrdev frees the number, whoever has it.
UnregisterIfMajor ==
    /\ chrdev' = IF scc_test_major_node # 0 THEN "none" ELSE chrdev
    /\ scc_test_major_node' = 0

\* The failure callback is registered also when there was an error.
InitMonitor ==
    /\ LoadStep("monitor", IF error_code THEN "failed" ELSE "up")
    /\ callback' = TRUE
    /\ IF error_code THEN UnregisterIfMajor
                     ELSE UNCHANGED <<chrdev, scc_test_major_node>>
    /\ UNCHANGED error_code

\* insmod returned the error and the module is gone.
InitFailed ==
    /\ LoadStep("failed", "out")
    /\ error_code' = FALSE
    /\ UNCHANGED <<scc_test_major_node, chrdev, callback>>

\* A file that is open when the module goes away has no handlers any more.
Unload ==
    /\ mpc = "up"
    /\ refs = 0
    /\ mpc' = "out"
    /\ pc' = [p \in Procs |-> IF pc[p] = "closed" THEN "closed" ELSE "stale"]
    /\ UNCHANGED <<error_code, callback, refVars, locVars, areas, res, lost, slotVars>>

Cleanup == Unload /\ UnregisterIfMajor

-----------------------------------------------------------------------------
(* scc_test_open, scc_test_release; the registered mmap handler is         *)
(* scc_test_release too.                                                   *)

\* Mutant: open does not take a reference.
OpenUncounted(p) ==
    /\ mpc = "up" /\ chrdev = "scc"
    /\ pc[p] = "closed"
    /\ pc' = [pc EXCEPT ![p] = "idle"]
    /\ UNCHANGED <<modVars, refVars, locVars, areas, res, lost, slotVars>>

Open(p) ==
    /\ mpc = "up" /\ chrdev = "scc"
    /\ pc[p] = "closed"
    /\ pc' = [pc EXCEPT ![p] = "idle"]
    /\ refs' = refs + 1
    /\ UNCHANGED <<modVars, mmaps, locVars, areas, res, lost, slotVars>>

Release(p) ==
    /\ mpc = "up"
    /\ pc[p] = "idle"
    /\ pc' = [pc EXCEPT ![p] = "closed"]
    /\ refs' = refs - 1
    /\ UNCHANGED <<modVars, mmaps, locVars, areas, res, lost, slotVars>>

Mmap(p) ==
    /\ mpc = "up"
    /\ pc[p] = "idle"
    /\ mmaps < MaxMmap
    /\ mmaps' = mmaps + 1
    /\ refs' = refs - 1
    /\ UNCHANGED <<modVars, pc, locVars, areas, res, lost, slotVars>>

-----------------------------------------------------------------------------
(* Replies.                                                                *)

Starts(p) == mpc = "up" /\ pc[p] = "idle"

Runs(p, l) == mpc = "up" /\ pc[p] = l

Told(ok) == IF ok THEN "ok" ELSE "fail"

Reply(p, ret, told, done) ==
    /\ pc' = [pc EXCEPT ![p] = "ret"]
    /\ res' = [res EXCEPT ![p] = [ret |-> ret, told |-> told, done |-> done]]

\* The last copy_to_user of a slot command: its result, the number of bytes
\* that were not copied, is what ioctl returns.
CopyOut(p, ok, done) ==
    \/ Reply(p, "zero", Told(ok), done)
    \/ Reply(p, "pos", "none", done)

\* The last copy_to_user of a register or cipher command: a failure gives
\* IOCTL_SCC_FAILURE, otherwise ioctl returns code.
CopyOutCode(p, code, ok, done) ==
    \/ Reply(p, code, Told(ok), done)
    \/ Reply(p, "pos", "none", done)

\* The process has seen the reply.
Return(p) ==
    /\ Runs(p, "ret")
    /\ pc' = [pc EXCEPT ![p] = "idle"]
    /\ res' = [res EXCEPT ![p] = NoReply]
    /\ keycopied' = [keycopied EXCEPT ![p] = TRUE]
    /\ st' = [st EXCEPT ![p] = FALSE]
    /\ at' = [at EXCEPT ![p] = Nobody]
    /\ id' = [id EXCEPT ![p] = Nobody]
    /\ UNCHANGED <<modVars, refVars, areas, lost, slotVars>>

\* A slot command whose struct cannot be read.
CopyInFails(p) ==
    /\ Starts(p)
    /\ Reply(p, "pos", "none", FALSE)
    /\ UNCHANGED <<modVars, refVars, locVars, areas, lost, slotVars>>

-----------------------------------------------------------------------------
(* Commands of one step.                                                   *)

GetConfiguration(p) ==
    /\ Starts(p)
    /\ \/ Reply(p, "zero", "none", TRUE)
       \/ Reply(p, "neg", "none", FALSE)
    /\ UNCHANGED <<modVars, refVars, locVars, areas, lost, slotVars>>

\* scc_test_read_register, scc_test_write_register: ok when the struct was
\* read and the controller accepted the offset.
RegisterAccess(p) ==
    /\ Starts(p)
    /\ \E ok \in BOOLEAN : CopyOutCode(p, IF ok THEN "zero" ELSE "neg", ok, ok)
    /\ UNCHANGED <<modVars, refVars, locVars, areas, lost, slotVars>>

InvalidCmd(p) ==
    /\ Starts(p)
    /\ Reply(p, "neg", "none", FALSE)
    /\ UNCHANGED <<modVars, refVars, locVars, areas, lost, slotVars>>

\* scc_set_sw_alarm: the controller calls the callback, which only logs.
SetAlarm(p) ==
    /\ Starts(p)
    /\ Reply(p, "zero", "none", TRUE)
    /\ UNCHANGED <<modVars, refVars, locVars, areas, lost, slotVars>>

Zeroize(p) ==
    /\ Starts(p)
    /\ \E ok \in BOOLEAN :
           /\ CopyOut(p, ok, ok)
           /\ key' = IF ok THEN [s \in Slots |-> Nobody] ELSE key
    /\ UNCHANGED <<modVars, refVars, locVars, areas, lost, owner>>

AllocSlot(p, o) ==
    /\ Starts(p)
    /\ \/ \E s \in Slots :
              /\ owner[s] = Nobody
              /\ owner' = [owner EXCEPT ![s] = o]
              /\ CopyOut(p, TRUE, TRUE)
       \/ UNCHANGED owner /\ CopyOut(p, FALSE, FALSE)
    /\ UNCHANGED <<modVars, refVars, locVars, areas, lost, key>>

DeallocSlot(p, o, s) ==
    /\ Starts(p)
    /\ \/ /\ owner[s] = o
          /\ owner' = [owner EXCEPT ![s] = Nobody]
          /\ key' = [key EXCEPT ![s] = Nobody]
          /\ CopyOut(p, TRUE, TRUE)
       \/ UNCHANGED slotVars /\ CopyOut(p, FALSE, FALSE)
    /\ UNCHANGED <<modVars, refVars, locVars, areas, lost>>

-----------------------------------------------------------------------------
(* scc_get_slot_info, first call of the load and encrypt commands and the  *)
(* whole of SCC_TEST_GET_SLOT_INFO.                                        *)

GetSlotInfo(p, o, s) ==
    /\ Starts(p)
    /\ CopyOut(p, owner[s] = o, owner[s] = o)
    /\ UNCHANGED <<modVars, refVars, locVars, areas, lost, slotVars>>

SlotInfo(p, o, s, next) ==
    /\ Starts(p)
    /\ \/ /\ owner[s] = o
          /\ pc' = [pc EXCEPT ![p] = next]
          /\ at' = [at EXCEPT ![p] = s]
          /\ id' = [id EXCEPT ![p] = o]
          /\ st' = [st EXCEPT ![p] = TRUE]
          /\ UNCHANGED res
       \/ CopyOut(p, FALSE, FALSE) /\ UNCHANGED <<at, id, st>>
    /\ UNCHANGED <<modVars, refVars, keycopied, areas, lost, slotVars>>

\* kmalloc of key_data, which no path frees.
KeyBuffer == lost < KernelMem /\ lost' = lost + 1

NoKeyBuffer == UNCHANGED lost

LoadNoMemory(p) ==
    /\ Runs(p, "load")
    /\ NoKeyBuffer
    /\ CopyOut(p, FALSE, FALSE)
    /\ UNCHANGED <<modVars, refVars, locVars, areas, slotVars>>

\* The key cannot be read from the user: acc.scc_status is still the one of
\* scc_get_slot_info, and the last copy_to_user overwrites status.
LoadNoKey(p) ==
    /\ Runs(p, "load")
    /\ KeyBuffer
    /\ keycopied' = [keycopied EXCEPT ![p] = FALSE]
    /\ CopyOut(p, st[p], FALSE)
    /\ UNCHANGED <<modVars, refVars, at, id, st, areas, slotVars>>

\* scc_load_slot, or scc_decrypt_slot for a wrapped key.
LoadKey(p) ==
    /\ Runs(p, "load")
    /\ KeyBuffer
    /\ \/ /\ owner[at[p]] = id[p]
          /\ key' = [key EXCEPT ![at[p]] = id[p]]
          /\ CopyOut(p, TRUE, TRUE)
       \/ UNCHANGED key /\ CopyOut(p, FALSE, FALSE)
    /\ UNCHANGED <<modVars, refVars, locVars, areas, owner>>

EncryptNoMemory(p) ==
    /\ Runs(p, "encrypt")
    /\ NoKeyBuffer
    /\ CopyOut(p, FALSE, FALSE)
    /\ UNCHANGED <<modVars, refVars, locVars, areas, slotVars>>

\* Mutant: the failed copy of the wrapped key is overwritten, as in load_slot.
EncryptKeyOverwritten(p) ==
    /\ Runs(p, "encrypt")
    /\ KeyBuffer
    /\ \/ /\ owner[at[p]] = id[p]
          /\ \E copied \in BOOLEAN : CopyOut(p, TRUE, copied)
       \/ CopyOut(p, FALSE, FALSE)
    /\ UNCHANGED <<modVars, refVars, locVars, areas, slotVars>>

\* scc_encrypt_slot; the struct is written only if the wrapped key was.
EncryptKey(p) ==
    /\ Runs(p, "encrypt")
    /\ KeyBuffer
    /\ \/ /\ owner[at[p]] = id[p]
          /\ CopyOut(p, TRUE, TRUE) \/ Reply(p, "pos", "none", FALSE)
       \/ CopyOut(p, FALSE, FALSE)
    /\ UNCHANGED <<modVars, refVars, locVars, areas, slotVars>>

-----------------------------------------------------------------------------
(* scc_test_cipher: the struct is written back and both areas are freed    *)
(* on every path.                                                          *)

CipherNoStruct(p) ==
    /\ Starts(p)
    /\ CopyOutCode(p, "neg", FALSE, FALSE)
    /\ UNCHANGED <<modVars, refVars, locVars, areas, lost, slotVars>>

CipherAlloc(p) ==
    /\ Starts(p)
    /\ \E got \in SUBSET {"in", "out"} : areas' = [areas EXCEPT ![p] = got]
    /\ pc' = [pc EXCEPT ![p] = "cipher"]
    /\ UNCHANGED <<modVars, refVars, locVars, res, lost, slotVars>>

\* Mutant: an early return when one of the areas is missing.
CipherEarlyReturn(p) ==
    /\ Runs(p, "cipher")
    /\ \/ areas[p] # {"in", "out"} /\ CopyOutCode(p, "neg", FALSE, FALSE)
          /\ UNCHANGED areas
       \/ areas[p] = {"in", "out"} /\ CopyOutCode(p, "zero", TRUE, TRUE)
          /\ areas' = [areas EXCEPT ![p] = {}]
    /\ UNCHANGED <<modVars, refVars, locVars, lost, slotVars>>

Cipher(p) ==
    /\ Runs(p, "cipher")
    /\ \/ areas[p] # {"in", "out"} /\ CopyOutCode(p, "neg", FALSE, FALSE)
       \/ /\ areas[p] = {"in", "out"}
          /\ \/ CopyOutCode(p, "neg", FALSE, FALSE)  \* text not readable
             \/ CopyOutCode(p, "pos", FALSE, FALSE)  \* scc_crypt failed
             \/ CopyOutCode(p, "pos", TRUE, FALSE)   \* result not written
             \/ CopyOutCode(p, "zero", TRUE, TRUE)
    /\ areas' = [areas EXCEPT ![p] = {}]
    /\ UNCHANGED <<modVars, refVars, locVars, lost, slotVars>>

-----------------------------------------------------------------------------

ModuleNext ==
    InitStatus \/ InitSetup \/ InitMonitor \/ InitFailed \/ Cleanup

IoctlNext(p) ==
    \/ GetConfiguration(p) \/ RegisterAccess(p) \/ InvalidCmd(p)
    \/ SetAlarm(p) \/ Zeroize(p) \/ CopyInFails(p)
    \/ \E o \in Owners : AllocSlot(p, o)
    \/ \E o \in Owners, s \in Slots :
           \/ DeallocSlot(p, o, s) \/ GetSlotInfo(p, o, s)
           \/ SlotInfo(p, o, s, "load") \/ SlotInfo(p, o, s, "encrypt")
    \/ LoadNoMemory(p) \/ LoadNoKey(p) \/ LoadKey(p)
    \/ EncryptNoMemory(p) \/ EncryptKey(p)
    \/ CipherNoStruct(p) \/ CipherAlloc(p) \/ Cipher(p)

Next ==
    \/ ModuleNext
    \/ \E p \in Procs : Open(p) \/ Release(p) \/ Mmap(p) \/ IoctlNext(p) \/ Return(p)

Spec == Init /\ [][Next]_vars

-----------------------------------------------------------------------------
(* Properties.                                                             *)

\* Every variable has its type.
TypeOK ==
    /\ mpc \in {"out", "setup", "monitor", "failed", "up"}
    /\ error_code \in BOOLEAN
    /\ scc_test_major_node \in {0, InitMajor}
    /\ chrdev \in {"none", "scc", "other"}
    /\ callback \in BOOLEAN
    /\ refs \in Int
    /\ mmaps \in 0 .. MaxMmap
    /\ pc \in [Procs -> {"closed", "idle", "load", "encrypt", "cipher", "ret", "stale"}]
    /\ at \in [Procs -> Slots \cup {Nobody}]
    /\ id \in [Procs -> Owners \cup {Nobody}]
    /\ st \in [Procs -> BOOLEAN]
    /\ keycopied \in [Procs -> BOOLEAN]
    /\ areas \in [Procs -> SUBSET {"in", "out"}]
    /\ res \in [Procs -> [ret : {"zero", "pos", "neg"},
                          told : {"none", "ok", "fail"}, done : BOOLEAN]]
    /\ lost \in 0 .. KernelMem
    /\ owner \in [Slots -> Owners \cup {Nobody}]
    /\ key \in [Slots -> Owners \cup {Nobody}]

\* An ioctl that returns 0 with a good status in the struct has carried out
\* the request: no failing copy, allocation or controller call on the way is
\* overwritten by a later result.  The exception is scc_test_load_slot when it
\* cannot read the key: it reports success and has loaded nothing.
SuccessIsReal ==
    \A p \in Procs :
        pc[p] = "ret" /\ res[p].ret = "zero" /\ res[p].told = "ok" /\ keycopied[p]
            => res[p].done

\* scc_test_cipher frees both areas on every path, so none is left when the
\* call has returned.
CipherAreasFreed == \A p \in Procs : pc[p] \notin {"cipher", "stale"} => areas[p] = {}

\* scc_test_open and scc_test_release keep the module loaded while a file is
\* open, unless mmap was called, whose handler gives back a reference.
FileKeepsModule == mmaps = 0 => \A p \in Procs : pc[p] # "stale"

\* scc_test_cleanup: when the module is not loaded the kernel has no device
\* that leads to it, provided that insmod gave a major number.
UnloadedIsUnregistered == InitMajor # 0 /\ mpc = "out" => chrdev # "scc"

\* scc_test_init: "any errors, we must undo what we've done", so after a
\* failed insmod the controller has no callback into the module.
FailedInitUndone == mpc = "failed" => ~callback
=============================================================================

------------------------------- MODULE ShmXfr -------------------------------
(***************************************************************************)
(* The System V shared memory transfer of svshm/svshm_xfr_writer.c and     *)
(* svshm/svshm_xfr_reader.c, over the binary semaphores of                 *)
(* svsem/binary_sems.c.                                                    *)
(*                                                                         *)
(* The writer reads blocks from standard input into a shared segment, the  *)
(* reader copies them to standard output.  Two binary semaphores hand the  *)
(* segment back and forth.  The IPC objects outlive the processes, so the  *)
(* initial states include whatever an earlier, killed run left behind.     *)
(*                                                                         *)
(* bsUseSemUndo is FALSE and bsRetryOnEintr is TRUE here (neither program  *)
(* changes the defaults of binary_sems.c:22-23): a semop interrupted by a  *)
(* handler is retried, which is a stuttering step.                         *)
(***************************************************************************)
EXTENDS Integers, Sequences

CONSTANTS
    BUF_SIZE,   \* size of the transfer buffer
    Data,       \* what a filled buffer may hold
    MaxXfrs     \* bound: blocks the writer finds on its standard input

ASSUME ShmXfrAssumption ==
    /\ BUF_SIZE \in Nat \ {0}
    /\ Data # {}
    /\ MaxXfrs \in Nat

WRITE_SEM == 0
READ_SEM  == 1

VARIABLES
    semExists,  \* the semaphore set is present
    shmExists,  \* the segment is present
    sem,        \* the two semaphore values
    shm,        \* struct shmseg: cnt and buf
    w,          \* the writer: pc, xfrs, bytes
    r,          \* the reader: pc, xfrs, bytes
    sent,       \* history: blocks read from the writer's standard input
    out         \* blocks on the reader's standard output

vars == <<semExists, shmExists, sem, shm, w, r, sent, out>>

Block  == [cnt : 1..BUF_SIZE, buf : Data]
ShmSeg == [cnt : -1..BUF_SIZE, buf : Data]

\* Mutant: READ_SEM starts available.
initSemInUse_Available(s, n) == [s EXCEPT ![n] = 1]

\* svsem/binary_sems.c: the four operations on one semaphore of a set
initSemAvailable(s, n) == [s EXCEPT ![n] = 1]
initSemInUse(s, n)     == [s EXCEPT ![n] = 0]
available(s, n)        == s[n] > 0
reserveSem(s, n)       == [s EXCEPT ![n] = @ - 1]
releaseSem(s, n)       == [s EXCEPT ![n] = @ + 1]

(***************************************************************************)
(* Either no objects, or those a killed run left with any binary values.   *)
(***************************************************************************)
Init ==
    /\ semExists \in BOOLEAN
    /\ shmExists \in BOOLEAN
    /\ sem \in [{WRITE_SEM, READ_SEM} -> {0, 1}]
    /\ shm \in ShmSeg
    /\ w = [pc |-> "start", xfrs |-> 0, bytes |-> 0]
    /\ r = [pc |-> "start", xfrs |-> 0, bytes |-> 0]
    /\ sent = << >>
    /\ out = << >>

WGoto(pc) == w' = [w EXCEPT !.pc = pc]
RGoto(pc) == r' = [r EXCEPT !.pc = pc]

-----------------------------------------------------------------------------
(* svshm_xfr_writer.c *)

\* semget(IPC_CREAT): a new set has value 0 in both, an old one keeps its own
WSemget ==
    /\ w.pc = "start"
    /\ semExists' = TRUE
    /\ sem' = IF semExists THEN sem ELSE [n \in {WRITE_SEM, READ_SEM} |-> 0]
    /\ WGoto("initWrite")
    /\ UNCHANGED <<shmExists, shm, r, sent, out>>

WInitWrite ==
    /\ w.pc = "initWrite"
    /\ sem' = initSemAvailable(sem, WRITE_SEM)
    /\ WGoto("initRead")
    /\ UNCHANGED <<semExists, shmExists, shm, r, sent, out>>

\* Mutant: the value an earlier run left in READ_SEM is kept.
WInitRead_Skipped ==
    /\ w.pc = "initRead"
    /\ WGoto("shmget")
    /\ UNCHANGED <<semExists, shmExists, sem, shm, r, sent, out>>

WInitRead ==
    /\ w.pc = "initRead"
    /\ sem' = initSemInUse(sem, READ_SEM)
    /\ WGoto("shmget")
    /\ UNCHANGED <<semExists, shmExists, shm, r, sent, out>>

\* shmget(IPC_CREAT) and shmat: a new segment is zeroed
WShmget ==
    /\ w.pc = "shmget"
    /\ shmExists' = TRUE
    /\ \E b \in Data : shm' = IF shmExists THEN shm ELSE [cnt |-> 0, buf |-> b]
    /\ WGoto("reserve")
    /\ UNCHANGED <<semExists, sem, r, sent, out>>

WReserve ==
    /\ w.pc = "reserve"
    /\ available(sem, WRITE_SEM)
    /\ sem' = reserveSem(sem, WRITE_SEM)
    /\ WGoto("read")
    /\ UNCHANGED <<semExists, shmExists, shm, r, sent, out>>

\* read() fills the segment in place; 0 is end of file
WRead ==
    /\ w.pc = "read"
    /\ \/ /\ Len(sent) < MaxXfrs
          /\ \E blk \in Block : shm' = blk /\ sent' = Append(sent, blk)
       \/ /\ shm' = [shm EXCEPT !.cnt = 0]
          /\ UNCHANGED sent
    /\ WGoto("release")
    /\ UNCHANGED <<semExists, shmExists, sem, r, out>>

\* read() fails: cnt = -1 is stored in the segment and the writer exits
WReadError ==
    /\ w.pc = "read"
    /\ shm' = [shm EXCEPT !.cnt = -1]
    /\ WGoto("failed")
    /\ UNCHANGED <<semExists, shmExists, sem, r, sent, out>>

\* Mutant: the writer gives the turn back to itself.
WRelease_WrongSem ==
    /\ w.pc = "release"
    /\ sem' = releaseSem(sem, WRITE_SEM)
    /\ WGoto("test")
    /\ UNCHANGED <<semExists, shmExists, shm, r, sent, out>>

WRelease ==
    /\ w.pc = "release"
    /\ sem' = releaseSem(sem, READ_SEM)
    /\ WGoto("test")
    /\ UNCHANGED <<semExists, shmExists, shm, r, sent, out>>

\* Mutant: the end-of-file turn is counted as a transfer.
WTest_CountsEof ==
    /\ w.pc = "test"
    /\ w' = [pc |-> IF shm.cnt = 0 THEN "lastReserve" ELSE "reserve",
             xfrs |-> w.xfrs + 1, bytes |-> w.bytes + shm.cnt]
    /\ UNCHANGED <<semExists, shmExists, sem, shm, r, sent, out>>

\* cnt is read again AFTER the reader got its turn: the end-of-file test,
\* and then the loop's bytes += shmp->cnt
WTest ==
    /\ w.pc = "test"
    /\ w' = IF shm.cnt = 0
            THEN [w EXCEPT !.pc = "lastReserve"]
            ELSE [pc |-> "reserve", xfrs |-> w.xfrs + 1, bytes |-> w.bytes + shm.cnt]
    /\ UNCHANGED <<semExists, shmExists, sem, shm, r, sent, out>>

\* Mutant: the objects are removed without waiting for one more turn.
WLastReserve_NoWait ==
    /\ w.pc = "lastReserve"
    /\ WGoto("rmSem")
    /\ UNCHANGED <<semExists, shmExists, sem, shm, r, sent, out>>

WLastReserve ==
    /\ w.pc = "lastReserve"
    /\ available(sem, WRITE_SEM)
    /\ sem' = reserveSem(sem, WRITE_SEM)
    /\ WGoto("rmSem")
    /\ UNCHANGED <<semExists, shmExists, shm, r, sent, out>>

WRemoveSem ==
    /\ w.pc = "rmSem"
    /\ semExists' = FALSE
    /\ WGoto("rmShm")
    /\ UNCHANGED <<shmExists, sem, shm, r, sent, out>>

WRemoveShm ==
    /\ w.pc = "rmShm"
    /\ shmExists' = FALSE
    /\ WGoto("done")
    /\ UNCHANGED <<semExists, sem, shm, r, sent, out>>

Writer ==
    \/ WSemget \/ WInitWrite \/ WInitRead \/ WShmget
    \/ WReserve \/ WRead \/ WReadError \/ WRelease \/ WTest
    \/ WLastReserve \/ WRemoveSem \/ WRemoveShm

-----------------------------------------------------------------------------
(* svshm_xfr_reader.c *)

SetUp == w.pc \notin {"start", "initWrite", "initRead", "shmget"}

\* semget(SEM_KEY, 0, 0) fails when there is no set
RSemget ==
    /\ r.pc = "start"
    /\ RGoto(IF semExists THEN "shmget" ELSE "failed")
    /\ UNCHANGED <<semExists, shmExists, sem, shm, w, sent, out>>

\* shmget(SHM_KEY, 0, 0) and shmat
RShmget ==
    /\ r.pc = "shmget"
    /\ RGoto(IF shmExists THEN "reserve" ELSE "failed")
    /\ UNCHANGED <<semExists, shmExists, sem, shm, w, sent, out>>

\* semop on a removed set fails with EINVAL or EIDRM
RReserve ==
    /\ r.pc = "reserve"
    /\ \/ /\ semExists
          /\ available(sem, READ_SEM)
          /\ sem' = reserveSem(sem, READ_SEM)
          /\ RGoto("test")
       \/ /\ ~semExists
          /\ RGoto("failed")
          /\ UNCHANGED sem
    /\ UNCHANGED <<semExists, shmExists, shm, w, sent, out>>

\* the end-of-file test and bytes += shmp->cnt
RTest ==
    /\ r.pc = "test"
    /\ r' = IF shm.cnt = 0
            THEN [r EXCEPT !.pc = "lastRelease"]
            ELSE [r EXCEPT !.pc = "write", !.bytes = @ + shm.cnt]
    /\ UNCHANGED <<semExists, shmExists, sem, shm, w, sent, out>>

\* Mutant: a partial write is retried from the start of the buffer.
RWrite_Retried ==
    /\ r.pc = "write"
    /\ out' = Append(out, shm)
    /\ \E pc \in {"write", "release"} : RGoto(pc)
    /\ UNCHANGED <<semExists, shmExists, sem, shm, w, sent>>

\* write() of the cnt bytes of buf
RWrite ==
    /\ r.pc = "write"
    /\ out' = Append(out, shm)
    /\ RGoto("release")
    /\ UNCHANGED <<semExists, shmExists, sem, shm, w, sent>>

\* a partial or failed write ends the reader while it has the turn
RWriteError ==
    /\ r.pc = "write"
    /\ RGoto("failed")
    /\ UNCHANGED <<semExists, shmExists, sem, shm, w, sent, out>>

RRelease ==
    /\ r.pc = "release"
    /\ sem' = IF semExists THEN releaseSem(sem, WRITE_SEM) ELSE sem
    /\ r' = IF semExists THEN [r EXCEPT !.pc = "reserve", !.xfrs = @ + 1]
                         ELSE [r EXCEPT !.pc = "failed"]
    /\ UNCHANGED <<semExists, shmExists, shm, w, sent, out>>

\* Mutant: the reader leaves without giving the writer its last turn.
RLastRelease_Forgotten ==
    /\ r.pc = "lastRelease"
    /\ RGoto("done")
    /\ UNCHANGED <<semExists, shmExists, sem, shm, w, sent, out>>

\* shmdt, then the turn that lets the writer clean up
RLastRelease ==
    /\ r.pc = "lastRelease"
    /\ sem' = IF semExists THEN releaseSem(sem, WRITE_SEM) ELSE sem
    /\ RGoto(IF semExists THEN "done" ELSE "failed")
    /\ UNCHANGED <<semExists, shmExists, shm, w, sent, out>>

Reader ==
    RShmget \/ RReserve \/ RTest \/ RWrite \/ RWriteError \/ RRelease \/ RLastRelease

-----------------------------------------------------------------------------
(***************************************************************************)
(* "This program needs to be started before the reader process"            *)
(* (svshm_xfr_writer.c:24): the reader is started once the writer has set  *)
(* up the objects.                                                         *)
(***************************************************************************)
Next == Writer \/ (SetUp /\ RSemget) \/ Reader

\* Standard input and output do not fail forever, and the reader is started.
Fairness == WF_vars(Writer) /\ WF_vars((SetUp /\ RSemget) \/ Reader)

Spec == Init /\ [][Next]_vars /\ Fairness

\* The reader started at any time, as nothing in the code prevents.
EarlySpec == Init /\ [][Writer \/ RSemget \/ Reader]_vars

-----------------------------------------------------------------------------
(* Properties *)

WPc == {"start", "initWrite", "initRead", "shmget", "reserve", "read", "release",
        "test", "lastReserve", "rmSem", "rmShm", "done", "failed"}
RPc == {"start", "shmget", "reserve", "test", "write", "release", "lastRelease",
        "done", "failed"}

\* The types of all variables; in particular both semaphores stay binary,
\* which releaseSem (binary_sems.c:62) does not enforce by itself.
TypeOK ==
    /\ semExists \in BOOLEAN
    /\ shmExists \in BOOLEAN
    /\ sem \in [{WRITE_SEM, READ_SEM} -> {0, 1}]
    /\ shm \in ShmSeg
    /\ w \in [pc : WPc, xfrs : Nat, bytes : Int]
    /\ r \in [pc : RPc, xfrs : Nat, bytes : Int]
    /\ sent \in Seq(Block)
    /\ out \in Seq(ShmSeg)

WriterInside == w.pc \in {"read", "release"}
ReaderInside == r.pc \in {"test", "write", "release"}

\* "We use a pair of binary semaphores to ensure that the writer and reader
\* have exclusive, alternating access to the shared memory"
\* (svshm_xfr_writer.c:18-19): never both between a reserve and its release.
ExclusiveAccess == ~(WriterInside /\ ReaderInside)

\* "each block of data is processed in turn by the writer and reader"
\* (svshm_xfr_writer.c:21): the output is the input, in order, without loss,
\* duplication or tearing, at most one block behind.
InTurn == sent = out \/ sent = Append(out, shm)

\* "We then know reader has finished, and so we can delete the IPC objects"
\* (svshm_xfr_writer.c:85-86): no object vanishes under a running reader.
ObjectsOutliveReader == w.pc \in {"rmSem", "rmShm", "done"} => r.pc = "done"

\* Both programs report the same totals, and those of the whole input, although
\* the writer rereads cnt after giving up its turn (svshm_xfr_writer.c:67, 81).
TotalsAgree ==
    w.pc = "done" => /\ w.xfrs = r.xfrs /\ w.bytes = r.bytes
                     /\ out = sent /\ w.xfrs = Len(sent)

\* The transfer ends: both programs finish, unless one of them failed on
\* its own standard input or output.
Terminates == <>((w.pc = "done" /\ r.pc = "done") \/ w.pc = "failed" \/ r.pc = "failed")

\* The two programs together implement a hand-off of blocks, one at a time.
Abstract == INSTANCE Handoff WITH Item <- ShmSeg, given <- sent, taken <- out
HandoffSpec == Abstract!Spec
=============================================================================

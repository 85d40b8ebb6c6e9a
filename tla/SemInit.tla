------------------------------ MODULE SemInit ------------------------------
(***************************************************************************)
(* svsem/svsem_good_init.c and svsem_bad_init.c: several processes share   *)
(* one semaphore, and whichever comes first creates and initialises it.    *)
(* Both are run on the same key, again and again: a set may be left from   *)
(* earlier runs, a process may be killed at any point, and svsem_rm.c may  *)
(* remove the set.  System V semaphores themselves are external; a new set *)
(* has whatever value the system gives it.                                 *)
(***************************************************************************)
EXTENDS Integers

CONSTANTS
    Procs,
    MAX_TRIES,
    SemOps,         \* the sem-op arguments of svsem_good_init
    CreationVals,   \* values of a semaphore that was not initialised
    MaxSets         \* bound: sets created

SemInitAssumption ==
    /\ MAX_TRIES \in Nat \ {0} /\ MaxSets \in Nat
    /\ SemOps \subseteq Int /\ CreationVals \subseteq Nat

NoOne == 0

VARIABLES
    prog,           \* "svsem_good_init" or "svsem_bad_init"
    set,            \* the set with key 12345: id, creator, existence, value, sem_otime # 0
    ideal,          \* the sum of all operations done on it, and its value at the start
    pc, semid, tries, op    \* per process

vars == <<prog, set, ideal, pc, semid, tries, op>>

Good == prog = "svsem_good_init"

\* No set yet, one that was used before, or one whose creator was killed.
Init ==
    /\ prog \in {"svsem_good_init", "svsem_bad_init"}
    /\ \/ set = [id |-> 0, by |-> NoOne, exists |-> FALSE, val |-> 0, otime |-> FALSE] /\ ideal = 0
       \/ \E v \in CreationVals, used \in BOOLEAN :
            set = [id |-> 1, by |-> NoOne, exists |-> TRUE, val |-> v, otime |-> used] /\ ideal = v
    /\ pc = [p \in Procs |-> "start"] /\ semid = [p \in Procs |-> 0]
    /\ tries = [p \in Procs |-> 0]
    /\ op \in [Procs -> IF Good THEN SemOps ELSE {1}]

Go(p, to) == pc' = [pc EXCEPT ![p] = to]
Valid(p) == set.exists /\ semid[p] = set.id

\* A system call on a set that was removed fails, and ends the program.
Gone(p) ==
    /\ pc[p] \in {"setval", "dummy", "try", "op"} /\ ~Valid(p)
    /\ Go(p, "failed")
    /\ UNCHANGED <<prog, set, ideal, semid, tries, op>>

New(p) ==
    /\ ~set.exists /\ set.id < MaxSets
    /\ \E v \in CreationVals :
         set' = [id |-> set.id + 1, by |-> p, exists |-> TRUE, val |-> v, otime |-> FALSE]
    /\ ideal' = 0 /\ semid' = [semid EXCEPT ![p] = set.id + 1]
    /\ Go(p, "setval")

\* Mutant: without IPC_EXCL.
Create_NoExcl(p) ==
    /\ pc[p] = "start"
    /\ \/ New(p)
       \/ /\ set.exists /\ semid' = [semid EXCEPT ![p] = set.id]
          /\ Go(p, "setval") /\ UNCHANGED <<set, ideal>>
    /\ UNCHANGED <<prog, tries, op>>

\* semget(key, 1, IPC_CREAT | IPC_EXCL | perms)
Create(p) ==
    /\ pc[p] = "start"
    /\ \/ New(p)
       \/ set.exists /\ Go(p, "getid") /\ UNCHANGED <<set, ideal, semid>>
    /\ UNCHANGED <<prog, tries, op>>

SetVal(p) ==
    /\ pc[p] = "setval" /\ Valid(p)
    /\ set' = [set EXCEPT !.val = 0]
    /\ Go(p, IF Good THEN "dummy" ELSE "op")
    /\ UNCHANGED <<prog, ideal, semid, tries, op>>

\* semop() with sem_op 0: waits for the value 0, and sets sem_otime
Dummy(p) ==
    /\ pc[p] = "dummy" /\ Valid(p) /\ set.val = 0
    /\ set' = [set EXCEPT !.otime = TRUE]
    /\ Go(p, "op")
    /\ UNCHANGED <<prog, ideal, semid, tries, op>>

\* Mutant: a process that finds the set uses it at once.
GetId_NoWait(p) ==
    /\ pc[p] = "getid"
    /\ IF set.exists THEN semid' = [semid EXCEPT ![p] = set.id] /\ Go(p, "op")
                     ELSE Go(p, "failed") /\ UNCHANGED semid
    /\ UNCHANGED <<prog, set, ideal, tries, op>>

GetId(p) ==
    /\ pc[p] = "getid"
    /\ IF set.exists
       THEN semid' = [semid EXCEPT ![p] = set.id] /\ Go(p, IF Good THEN "try" ELSE "op")
       ELSE Go(p, "failed") /\ UNCHANGED semid
    /\ UNCHANGED <<prog, set, ideal, tries, op>>

\* IPC_STAT, at most MAX_TRIES times
Try(p) ==
    /\ pc[p] = "try" /\ Valid(p)
    /\ tries' = [tries EXCEPT ![p] = @ + 1]
    /\ Go(p, IF set.otime THEN "op" ELSE IF tries'[p] < MAX_TRIES THEN "try" ELSE "failed")
    /\ UNCHANGED <<prog, set, ideal, semid, op>>

\* The operation itself, which may have to wait
Op(p) ==
    /\ pc[p] = "op" /\ Valid(p)
    /\ IF op[p] = 0 THEN set.val = 0 ELSE set.val + op[p] >= 0
    /\ set' = [set EXCEPT !.val = @ + op[p], !.otime = TRUE]
    /\ ideal' = ideal + op[p]
    /\ Go(p, "done")
    /\ UNCHANGED <<prog, semid, tries, op>>

Kill(p) ==
    /\ pc[p] \notin {"done", "failed", "killed"}
    /\ Go(p, "killed")
    /\ UNCHANGED <<prog, set, ideal, semid, tries, op>>

Remove ==
    /\ set.exists
    /\ set' = [set EXCEPT !.exists = FALSE]
    /\ UNCHANGED <<prog, ideal, pc, semid, tries, op>>

main(p) ==
    \/ Create(p) \/ SetVal(p) \/ Dummy(p) \/ GetId(p) \/ Try(p) \/ Op(p) \/ Gone(p)

Next == Remove \/ \E p \in Procs : main(p) \/ Kill(p)

Spec == Init /\ [][Next]_vars

-----------------------------------------------------------------------------
(* Properties *)

\* With svsem_good_init, once a set has seen an operation its value is that of
\* all the operations done on it: no one's operation is wiped out by another's
\* initialisation (svsem_good_init.c:50-51).
NoOpLost == Good /\ set.exists /\ set.otime => set.val = ideal

\* The creator's "no-op" never has to wait: nobody changes the value between
\* its semctl() and its semop().
DummyNeverWaits == \A p \in Procs : pc[p] = "dummy" /\ Valid(p) => set.val = 0

\* With svsem_bad_init operations are lost, but never the creator's own.
CreatorsOpStays ==
    ~Good /\ set.exists /\ set.by # NoOne /\ pc[set.by] = "done" /\ Valid(set.by) => set.val >= 1

\* No process waits for the initialisation for ever, not even when the creator
\* was killed before it: each ends, or is at its own sem-op (or at MaxSets).
Settled ==
    \A p \in Procs :
        pc[p] \in {"done", "failed", "killed", "op"} \/ (pc[p] = "start" /\ set.id = MaxSets)
=============================================================================

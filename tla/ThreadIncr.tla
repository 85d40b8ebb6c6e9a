----------------------------- MODULE ThreadIncr -----------------------------
(***************************************************************************)
(* The programs whose threads increment one global variable: thread_incr,  *)
(* its mutex, read-write lock, spin lock and semaphore versions, and       *)
(* thread_lock_speed.  They differ in the number of threads, in whether    *)
(* there is a lock (of whatever kind: external), and in how many           *)
(* increments are made each time it is held.  An increment is a load and a *)
(* store; the variable is an int.                                          *)
(***************************************************************************)
EXTENDS Integers

CONSTANTS
    Loops,      \* the num-loops argument
    PEER_NUM,   \* threads of exr3001.c, where it is 8
    NumThreads, numInnerLoops, numOuterLoops,   \* arguments of thread_lock_speed.c
    INT_MAX     \* the greatest int

IncrAssumption ==
    /\ Loops \in Nat /\ NumThreads \in Nat /\ numInnerLoops \in Nat /\ numOuterLoops \in Nat
    /\ PEER_NUM \in Nat \ {0} /\ INT_MAX \in Nat \ {0}

Program(threads, locked, outer, inner) ==
    [threads |-> threads, locked |-> locked, outer |-> outer, inner |-> inner]

thread_incr          == Program(2, FALSE, Loops, 1)
ythread_incr         == Program(2, FALSE, Loops, 1)
exr3001              == Program(PEER_NUM, FALSE, Loops, 1)
thread_incr_mutex    == Program(2, TRUE, Loops, 1)
ythread_incr_mutex   == Program(2, TRUE, Loops, 1)
thread_incr_rwlock   == Program(2, TRUE, Loops, 1)
thread_incr_spinlock == Program(2, TRUE, Loops, 1)
thread_incr_psem     == Program(2, TRUE, Loops, 1)
thread_lock_speed    == Program(NumThreads, TRUE, numOuterLoops, numInnerLoops)

Programs ==
    {thread_incr, ythread_incr, exr3001, thread_incr_mutex, ythread_incr_mutex,
     thread_incr_rwlock, thread_incr_spinlock, thread_incr_psem, thread_lock_speed}

VARIABLES
    prog,       \* the program that is run
    glob, lock, \* the variable and the thread that holds the lock
    thr,        \* per thread: pc, loop counters j and k, and loc
    printed     \* what main prints at the end

vars == <<prog, glob, lock, thr, printed>>

Threads == 1..prog.threads
NoOne   == 0
INT_MIN == -INT_MAX - 1
Wrap(i) == INT_MIN + ((i - INT_MIN) % (2 * (INT_MAX + 1)))

Init ==
    /\ prog \in Programs
    /\ glob = 0 /\ lock = NoOne
    /\ thr = [t \in 1..prog.threads |-> [pc |-> "loop", j |-> 0, k |-> 0, loc |-> 0]]
    /\ printed = FALSE

\* The outer loop: take the lock, if there is one.
Lock(t) ==
    /\ thr[t].pc = "loop" /\ thr[t].j < prog.outer
    /\ IF prog.locked THEN lock = NoOne /\ lock' = t ELSE UNCHANGED lock
    /\ thr' = [thr EXCEPT ![t].pc = "load", ![t].k = 0]
    /\ UNCHANGED <<prog, glob, printed>>

Load(t) ==
    /\ thr[t].pc = "load" /\ thr[t].k < prog.inner
    /\ thr' = [thr EXCEPT ![t].loc = glob, ![t].pc = "store"]
    /\ UNCHANGED <<prog, glob, lock, printed>>

Store(t) ==
    /\ thr[t].pc = "store"
    /\ glob' = Wrap(thr[t].loc + 1)
    /\ thr' = [thr EXCEPT ![t].pc = "load", ![t].k = @ + 1]
    /\ UNCHANGED <<prog, lock, printed>>

\* Mutant: the lock is released after the first of the inner increments.
Unlock_Early(t) ==
    /\ thr[t].pc = "load" /\ thr[t].k > 0
    /\ lock' = NoOne
    /\ thr' = IF thr[t].k < prog.inner THEN thr
              ELSE [thr EXCEPT ![t].pc = "loop", ![t].j = @ + 1, ![t].k = 0]
    /\ UNCHANGED <<prog, glob, printed>>

Unlock(t) ==
    /\ thr[t].pc = "load" /\ thr[t].k = prog.inner
    /\ lock' = NoOne
    /\ thr' = [thr EXCEPT ![t].pc = "loop", ![t].j = @ + 1, ![t].k = 0]
    /\ UNCHANGED <<prog, glob, printed>>

threadFunc(t) == Lock(t) \/ Load(t) \/ Store(t) \/ Unlock(t)

Ended(t) == thr[t].pc = "loop" /\ thr[t].j = prog.outer

\* main prints when it has joined all the threads.
Report ==
    /\ ~printed /\ \A t \in Threads : Ended(t)
    /\ printed' = TRUE
    /\ UNCHANGED <<prog, glob, lock, thr>>

Next == Report \/ \E t \in Threads : threadFunc(t)

Spec == Init /\ [][Next]_vars

-----------------------------------------------------------------------------
(* Properties *)

Asked == prog.threads * prog.outer * prog.inner

\* The variable is an int and the threads are in their loops.
TypeOK ==
    /\ glob \in INT_MIN..INT_MAX
    /\ lock \in Threads \cup {NoOne} /\ printed \in BOOLEAN
    /\ \A t \in Threads : /\ thr[t].j \in 0..prog.outer /\ thr[t].k \in 0..prog.inner
                          /\ thr[t].pc \in {"loop", "load", "store"}

\* "updates are not lost" (thread_incr_mutex.c, thread_incr_rwlock.c:16-17,
\* thread_incr_spinlock.c:16-17): with a lock main prints the number of
\* increments, as an int.
NoUpdateLost == printed /\ prog.locked => glob = Wrap(Asked)

\* "updates are sometimes lost" (thread_incr.c:10), but never invented; and
\* however the loads and stores interleave, two increments at least survive
\* when each thread makes two or more.
LossBounded ==
    printed /\ ~prog.locked /\ Asked <= INT_MAX =>
        /\ glob <= Asked
        /\ prog.outer >= 2 => glob >= 2

Finished == printed
=============================================================================

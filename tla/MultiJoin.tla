----------------------------- MODULE MultiJoin -----------------------------
(***************************************************************************)
(* threads/thread_multijoin.c and threads/ythread_multijoin.c: the main    *)
(* thread joins its threads in whatever order they terminate.  A thread    *)
(* records its end under a mutex, releases it and then signals; the main   *)
(* thread joins while it holds the mutex.                                  *)
(***************************************************************************)
EXTENDS Integers, FiniteSets

CONSTANT N      \* threads: argc - 1

MultiJoinAssumption == N \in Nat \ {0}

Threads == 1..N
Main  == 0
NoOne == -1

VARIABLES
    threadMutex,            \* the thread that holds it
    state, numUnjoined,     \* shared: thread[].state, numUnjoined
    thr,                    \* per thread: where it is
    pc, idx, numLive        \* main

vars == <<threadMutex, state, numUnjoined, thr, pc, idx, numLive>>

Init ==
    /\ threadMutex = NoOne
    /\ state = [t \in Threads |-> "none"] /\ numUnjoined = 0
    /\ thr = [t \in Threads |-> "unborn"]
    /\ pc = "create" /\ idx = 1 /\ numLive = 0

-----------------------------------------------------------------------------
(* threadFunc *)

TLock(t) ==
    /\ thr[t] = "run" /\ threadMutex = NoOne
    /\ threadMutex' = t /\ thr' = [thr EXCEPT ![t] = "locked"]
    /\ UNCHANGED <<state, numUnjoined, pc, idx, numLive>>

TRecord(t) ==
    /\ thr[t] = "locked"
    /\ numUnjoined' = numUnjoined + 1
    /\ state' = [state EXCEPT ![t] = "TERMINATED"]
    /\ threadMutex' = NoOne /\ thr' = [thr EXCEPT ![t] = "signal"]
    /\ UNCHANGED <<pc, idx, numLive>>

TSignal(t) ==
    /\ thr[t] = "signal" /\ thr' = [thr EXCEPT ![t] = "ended"]
    /\ pc' = IF pc = "asleep" THEN "relock" ELSE pc
    /\ UNCHANGED <<threadMutex, state, numUnjoined, idx, numLive>>

threadFunc(t) == TLock(t) \/ TRecord(t) \/ TSignal(t)

-----------------------------------------------------------------------------
(* main *)

\* Mutant: the state is set after the thread was created.
MCreate_Late ==
    /\ pc = "create" /\ idx <= N
    /\ \/ /\ thr[idx] = "unborn" /\ thr' = [thr EXCEPT ![idx] = "run"]
          /\ UNCHANGED <<state, idx>>
       \/ /\ thr[idx] # "unborn" /\ state' = [state EXCEPT ![idx] = "ALIVE"] /\ idx' = idx + 1
          /\ UNCHANGED thr
    /\ UNCHANGED <<threadMutex, numUnjoined, pc, numLive>>

MCreate ==
    /\ pc = "create" /\ idx <= N
    /\ state' = [state EXCEPT ![idx] = "ALIVE"]
    /\ thr' = [thr EXCEPT ![idx] = "run"]
    /\ idx' = idx + 1
    /\ UNCHANGED <<threadMutex, numUnjoined, pc, numLive>>

MSetLive ==
    /\ pc = "create" /\ idx > N
    /\ numLive' = N /\ pc' = "loop"
    /\ UNCHANGED <<threadMutex, state, numUnjoined, thr, idx>>

MLoop ==
    /\ pc = "loop"
    /\ pc' = IF numLive > 0 THEN "lock" ELSE "exit"
    /\ UNCHANGED <<threadMutex, state, numUnjoined, thr, idx, numLive>>

MLock ==
    /\ pc \in {"lock", "relock"} /\ threadMutex = NoOne
    /\ threadMutex' = Main /\ pc' = "check"
    /\ UNCHANGED <<state, numUnjoined, thr, idx, numLive>>

\* Mutant: the mutex is released before the main thread is on the wait queue.
MCheck_Gap ==
    /\ pc = "check"
    /\ IF numUnjoined = 0 /\ threadMutex = Main
       THEN threadMutex' = NoOne /\ UNCHANGED <<pc, idx>>
       ELSE IF threadMutex # Main
       THEN pc' = "asleep" /\ UNCHANGED <<threadMutex, idx>>
       ELSE pc' = "walk" /\ idx' = 1 /\ UNCHANGED threadMutex
    /\ UNCHANGED <<state, numUnjoined, thr, numLive>>

\* pthread_cond_wait releases the mutex and sleeps in one step.
MCheck ==
    /\ pc = "check"
    /\ IF numUnjoined = 0
       THEN pc' = "asleep" /\ threadMutex' = NoOne /\ UNCHANGED idx
       ELSE pc' = "walk" /\ idx' = 1 /\ UNCHANGED threadMutex
    /\ UNCHANGED <<state, numUnjoined, thr, numLive>>

MSpurious ==
    /\ pc = "asleep" /\ pc' = "relock"
    /\ UNCHANGED <<threadMutex, state, numUnjoined, thr, idx, numLive>>

\* Mutant: the state of the joined thread is left as it was.
MJoin_NotMarked ==
    /\ pc = "walk" /\ idx <= N
    /\ state[idx] = "TERMINATED" /\ thr[idx] = "ended"
    /\ numLive' = numLive - 1 /\ numUnjoined' = numUnjoined - 1
    /\ idx' = idx + 1
    /\ UNCHANGED <<threadMutex, state, thr, pc>>

\* pthread_join waits for the thread, mutex held, until it has returned.
MJoin ==
    /\ pc = "walk" /\ idx <= N
    /\ state[idx] = "TERMINATED" /\ thr[idx] = "ended"
    /\ state' = [state EXCEPT ![idx] = "JOINED"]
    /\ numLive' = numLive - 1 /\ numUnjoined' = numUnjoined - 1
    /\ idx' = idx + 1
    /\ UNCHANGED <<threadMutex, thr, pc>>

MSkip ==
    /\ pc = "walk" /\ idx <= N
    /\ state[idx] # "TERMINATED"
    /\ idx' = idx + 1
    /\ UNCHANGED <<threadMutex, state, numUnjoined, thr, pc, numLive>>

MUnlock ==
    /\ pc = "walk" /\ idx > N
    /\ threadMutex' = NoOne /\ pc' = "loop"
    /\ UNCHANGED <<state, numUnjoined, thr, idx, numLive>>

MainStep == MCreate \/ MSetLive \/ MLoop \/ MLock \/ MCheck \/ MJoin \/ MSkip \/ MUnlock

Next == MainStep \/ MSpurious \/ \E t \in Threads : threadFunc(t)

Spec == Init /\ [][Next]_vars

-----------------------------------------------------------------------------
(* Properties *)

\* Threads are alive, terminated or joined, and the mutex has one holder.
TypeOK ==
    /\ threadMutex \in {NoOne, Main} \cup Threads
    /\ state \in [Threads -> {"none", "ALIVE", "TERMINATED", "JOINED"}]
    /\ numUnjoined \in 0..N /\ numLive \in 0..N
    /\ thr \in [Threads -> {"unborn", "run", "locked", "signal", "ended"}]
    /\ pc \in {"create", "loop", "lock", "relock", "check", "asleep", "walk", "exit"}
    /\ idx \in 1..(N + 1)

\* numUnjoined counts the terminated threads that are not joined yet and
\* numLive, once set, those not joined (thread_multijoin.c:44-45, 53-54), even
\* though threads terminate while the others are still being created.
CountsRight ==
    /\ numUnjoined = Cardinality({t \in Threads : state[t] = "TERMINATED"})
    /\ pc # "create" => numLive = Cardinality({t \in Threads : state[t] # "JOINED"})

\* The main thread never sleeps while a terminated thread is left to join and
\* no thread is on its way to signal.
NoLostWakeup ==
    pc = "asleep" /\ numUnjoined > 0 => \E t \in Threads : thr[t] = "signal"

Finished == pc = "exit" /\ \A t \in Threads : state[t] = "JOINED"
=============================================================================

---------------------------- MODULE BarrierDemo ----------------------------
(***************************************************************************)
(* threads/pthread_barrier_demo.c: numThreads threads meet at one barrier  *)
(* numBarriers times.  The barrier itself (pthread_barrier_wait(),         *)
(* external) blocks its callers until there are as many as it was          *)
(* initialised with, then lets them all go, each in its own time, telling  *)
(* one of them that it is the serial thread; it can be entered again as    *)
(* soon as it has opened.                                                  *)
(***************************************************************************)
EXTENDS Integers, FiniteSets

CONSTANTS numBarriers, numThreads

BarrierAssumption == numBarriers \in Nat /\ numThreads \in Nat \ {0}

Threads == 1 .. numThreads

VARIABLES
    blocked,    \* the threads blocked in pthread_barrier_wait()
    serial,     \* per crossing, the thread that was given PTHREAD_BARRIER_SERIAL_THREAD
    s,          \* per thread, what its last wait returned
    j, pc,      \* per thread
    created, joined     \* main: threads created and threads joined

vars == <<blocked, serial, s, j, pc, created, joined>>

TypeOK ==
    /\ blocked \subseteq Threads
    /\ serial \in [0 .. numBarriers - 1 -> SUBSET Threads]
    /\ s \in [Threads -> {"none", "0", "PTHREAD_BARRIER_SERIAL_THREAD"}]
    /\ j \in [Threads -> 0 .. numBarriers]
    /\ pc \in [Threads -> {"none", "loop", "sleep", "wait", "released", "delay", "gone"}]
    /\ created \in 0 .. numThreads /\ joined \in 0 .. numThreads

Init ==
    /\ blocked = {} /\ serial = [k \in 0 .. numBarriers - 1 |-> {}]
    /\ s = [t \in Threads |-> "none"]
    /\ j = [t \in Threads |-> 0] /\ pc = [t \in Threads |-> "none"]
    /\ created = 0 /\ joined = 0

-----------------------------------------------------------------------------
(* main *)

\* Mutant: the barrier is initialised for one thread too few.
barrierCount_OffByOne == IF numThreads > 1 THEN numThreads - 1 ELSE 1

\* pthread_barrier_init(&barrier, NULL, numThreads)
barrierCount == numThreads

Create ==
    /\ created < numThreads
    /\ created' = created + 1
    /\ pc' = [pc EXCEPT ![created + 1] = "loop"]
    /\ UNCHANGED <<blocked, serial, s, j, joined>>

Join ==
    /\ created = numThreads /\ joined < numThreads
    /\ pc[joined + 1] = "gone"
    /\ joined' = joined + 1
    /\ UNCHANGED <<blocked, serial, s, j, pc, created>>

-----------------------------------------------------------------------------
(* threadFunc *)

Loop(t) ==
    /\ pc[t] = "loop"
    /\ pc' = [pc EXCEPT ![t] = IF j[t] < numBarriers THEN "sleep" ELSE "delay"]
    /\ UNCHANGED <<blocked, serial, s, j, created, joined>>

\* sleep(nsecs), then pthread_barrier_wait(): the one that completes the
\* barrier opens it for all of them.
Wait(t) ==
    /\ pc[t] = "sleep"
    /\ LET all == blocked \cup {t} IN
       IF Cardinality(all) < barrierCount
       THEN /\ blocked' = all /\ pc' = [pc EXCEPT ![t] = "wait"]
            /\ UNCHANGED <<serial, s>>
       ELSE \E one \in all :
            /\ blocked' = {}
            /\ pc' = [u \in Threads |-> IF u \in all THEN "released" ELSE pc[u]]
            /\ s' = [u \in Threads |->
                        IF u = one THEN "PTHREAD_BARRIER_SERIAL_THREAD"
                        ELSE IF u \in all THEN "0" ELSE s[u]]
            /\ UNCHANGED serial
    /\ UNCHANGED <<j, created, joined>>

\* The return: a message, and the newline of the serial thread.
Passed(t) ==
    /\ pc[t] = "released"
    /\ serial' = IF s[t] = "PTHREAD_BARRIER_SERIAL_THREAD"
                 THEN [serial EXCEPT ![j[t]] = @ \cup {t}] ELSE serial
    /\ j' = [j EXCEPT ![t] = @ + 1] /\ pc' = [pc EXCEPT ![t] = "loop"]
    /\ UNCHANGED <<blocked, s, created, joined>>

Terminating(t) ==
    /\ pc[t] = "delay" /\ pc' = [pc EXCEPT ![t] = "gone"]
    /\ UNCHANGED <<blocked, serial, s, j, created, joined>>

threadFunc(t) == Loop(t) \/ Wait(t) \/ Passed(t) \/ Terminating(t)

main == Create \/ Join

Next == main \/ \E t \in Threads : threadFunc(t)

Spec == Init /\ [][Next]_vars

-----------------------------------------------------------------------------
(* Properties *)

\* No thread is two crossings ahead of another, though a fast one may be back
\* at the barrier before a slow one has left it (lines 57-61); and no thread
\* ends before all have arrived for the last crossing.
InStep ==
    \A t, u \in Threads :
        /\ j[t] - j[u] <= 1
        /\ j[t] > j[u] => pc[u] = "released"

\* Each time the barrier is passed, exactly one thread prints the newline
\* (lines 63-67: "exactly once each time a barrier is passed").
OneSerial ==
    \A k \in 0 .. numBarriers - 1 :
        /\ Cardinality(serial[k]) <= 1
        /\ (\A t \in Threads : j[t] > k) => serial[k] # {}

Finished == joined = numThreads /\ \A t \in Threads : j[t] = numBarriers
=============================================================================

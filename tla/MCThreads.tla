----------------------------- MODULE MCThreads -----------------------------
(***************************************************************************)
(* The programs of threads/.  They have nothing to do with each other, so  *)
(* a behaviour is a run of one of them (system); the variables that only   *)
(* others have keep the value Unused.                                      *)
(***************************************************************************)
EXTENDS ThreadPrograms, Sequences

CONSTANTS
    Counts,                         \* ProdCondvar
    Loops, PEER_NUM, NumThreads, numInnerLoops, numOuterLoops, INT_MAX,    \* ThreadIncr
    TsdThreads                      \* NameTsd

VARIABLES
    system,
    avail, prod, totRequired, numConsumed, done,        \* ProdCondvar
    lock, printed,                                      \* ThreadIncr, and printed also NameTsd
    once, keys, specific, heap, fn, ret                 \* NameTsd

prodVars  == <<avail, prod, totRequired, numConsumed, done>>
joinVars  == <<threadMutex, state, numUnjoined, idx, numLive>>
onceVars  == <<called, begun, ended, left>>
tsdVars   == <<once, keys, specific, heap, fn, ret>>
cleanVars == <<buf, handler, cancel, tpc, res, inTime>>
barrVars  == <<blocked, serial, s, joined>>

vars == <<system, mtx, pc, thr, created, glob, prog, printed, j, lock,
          prodVars, joinVars, onceVars, tsdVars, cleanVars, barrVars>>

Prod == INSTANCE ProdCondvar
Incr == INSTANCE ThreadIncr
Tsd  == INSTANCE NameTsd WITH Threads <- TsdThreads

ASSUME ThreadsAssumption ==
    /\ Prod!ProdAssumption /\ Join!MultiJoinAssumption /\ Incr!IncrAssumption
    /\ Once!OnceAssumption /\ Tsd!TsdAssumption /\ Clean!CleanupAssumption
    /\ Barr!BarrierAssumption

Unused == "unused"

Two_Zero_One == <<2, 0, 1>>     \* three producers, one of which makes nothing

Off(v) == v = Unused
NoProd  == Off(avail) /\ Off(prod) /\ Off(totRequired) /\ Off(numConsumed) /\ Off(done)
NoJoin  == Off(threadMutex) /\ Off(state) /\ Off(numUnjoined) /\ Off(idx) /\ Off(numLive)
NoOnce  == Off(called) /\ Off(begun) /\ Off(ended) /\ Off(left)
NoTsd   == Off(once) /\ Off(keys) /\ Off(specific) /\ Off(heap) /\ Off(fn) /\ Off(ret)
NoClean == Off(buf) /\ Off(handler) /\ Off(cancel) /\ Off(tpc) /\ Off(res) /\ Off(inTime)
NoBarr  == Off(blocked) /\ Off(serial) /\ Off(s) /\ Off(joined)

Init ==
    \/ /\ system = "prod" /\ Prod!Init
       /\ NoJoin /\ NoOnce /\ NoTsd /\ NoClean /\ NoBarr
       /\ Off(thr) /\ Off(glob) /\ Off(printed) /\ Off(j) /\ Off(lock)
    \/ /\ system = "multijoin" /\ Join!Init
       /\ NoProd /\ NoOnce /\ NoTsd /\ NoClean /\ NoBarr
       /\ Off(mtx) /\ Off(created) /\ Off(glob) /\ Off(prog) /\ Off(printed) /\ Off(j) /\ Off(lock)
    \/ /\ system = "incr" /\ Incr!Init
       /\ NoProd /\ NoJoin /\ NoOnce /\ NoTsd /\ NoClean /\ NoBarr
       /\ Off(mtx) /\ Off(pc) /\ Off(created) /\ Off(j)
    \/ /\ system = "once" /\ Once!Init
       /\ NoProd /\ NoJoin /\ NoTsd /\ NoClean /\ NoBarr
       /\ Off(thr) /\ Off(created) /\ Off(glob) /\ Off(prog) /\ Off(printed) /\ Off(j) /\ Off(lock)
    \/ /\ system = "tsd" /\ Tsd!Init
       /\ NoProd /\ NoJoin /\ NoOnce /\ NoClean /\ NoBarr
       /\ Off(mtx) /\ Off(thr) /\ Off(created) /\ Off(glob) /\ Off(prog) /\ Off(j) /\ Off(lock)
    \/ /\ system = "cleanup" /\ Clean!Init
       /\ NoProd /\ NoJoin /\ NoOnce /\ NoTsd /\ NoBarr
       /\ Off(thr) /\ Off(created) /\ Off(printed) /\ Off(lock)
    \/ /\ system = "barrier" /\ Barr!Init
       /\ NoProd /\ NoJoin /\ NoOnce /\ NoTsd /\ NoClean
       /\ Off(mtx) /\ Off(thr) /\ Off(glob) /\ Off(prog) /\ Off(printed) /\ Off(lock)

\* The program that runs, and the variables that are not its own
In(name) == system = name /\ UNCHANGED system
InProd  == In("prod") /\ UNCHANGED <<thr, glob, printed, j, lock, joinVars, onceVars, tsdVars,
                                     cleanVars, barrVars>>
InJoin  == In("multijoin") /\ UNCHANGED <<mtx, created, glob, prog, printed, j, lock, prodVars,
                                          onceVars, tsdVars, cleanVars, barrVars>>
InIncr  == In("incr") /\ UNCHANGED <<mtx, pc, created, j, prodVars, joinVars, onceVars, tsdVars,
                                     cleanVars, barrVars>>
InOnce  == In("once") /\ UNCHANGED <<thr, created, glob, prog, printed, j, lock, prodVars, joinVars,
                                     tsdVars, cleanVars, barrVars>>
InTsd   == In("tsd") /\ UNCHANGED <<mtx, thr, created, glob, prog, j, lock, prodVars, joinVars,
                                    onceVars, cleanVars, barrVars>>
InClean == In("cleanup") /\ UNCHANGED <<thr, created, printed, lock, prodVars, joinVars, onceVars,
                                        tsdVars, barrVars>>
InBarr  == In("barrier") /\ UNCHANGED <<mtx, thr, glob, prog, printed, lock, prodVars, joinVars,
                                        onceVars, tsdVars, cleanVars>>

Main ==
    \/ InProd /\ Prod!MainStep
    \/ InJoin /\ Join!MainStep
    \/ InIncr /\ Incr!Report
    \/ InClean /\ Clean!main
    \/ InBarr /\ Barr!main

Thread(t) ==
    \/ InProd /\ t \in Prod!Producers /\ Prod!producer(t)
    \/ InJoin /\ t \in Join!Threads /\ Join!threadFunc(t)
    \/ InIncr /\ t \in Incr!Threads /\ Incr!threadFunc(t)
    \/ InOnce /\ t \in OnceThreads /\ Once!one_time_init(t)
    \/ InTsd /\ t \in TsdThreads /\ Tsd!threadRoutine(t)
    \/ InClean /\ t = 1 /\ Clean!threadFunc
    \/ InBarr /\ t \in Barr!Threads /\ Barr!threadFunc(t)

\* A wait on a condition variable that ends without a signal
Spurious ==
    \/ InProd /\ Prod!MSpurious
    \/ InJoin /\ Join!MSpurious
    \/ InClean /\ ~cancel /\ Clean!TWake

Cancelled == InClean /\ cancel /\ Clean!TWake

ThreadIds ==
    Prod!Producers \cup Join!Threads \cup OnceThreads \cup TsdThreads \cup Barr!Threads
        \cup 1 .. NumThreads \cup 1 .. PEER_NUM

Next == Main \/ Spurious \/ Cancelled \/ \E t \in ThreadIds : Thread(t)

\* Every thread that can run does, a cancelled wait ends, and spurious wakeups
\* do not go on for ever.
Fairness ==
    /\ WF_vars(Main) /\ WF_vars(Cancelled) /\ <>[][~Spurious]_vars
    /\ \A t \in ThreadIds : WF_vars(Thread(t))

Spec == Init /\ [][Next]_vars /\ Fairness

-----------------------------------------------------------------------------
(* Properties: those of the modules, of the program that runs *)

\* The variables of every program stay in their types: no count of units or
\* threads drops below zero, no int outgrows its width.
TypeOK ==
    /\ system = "prod" => Prod!TypeOK
    /\ system = "multijoin" => Join!TypeOK
    /\ system = "incr" => Incr!TypeOK
    /\ system = "once" => Once!TypeOK
    /\ system = "barrier" => Barr!TypeOK

\* A thread that waits for a condition never sleeps over an available unit, or
\* a terminated thread, that no one is still going to signal, although both
\* programs signal after unlocking (prod_condvar.c:35, thread_multijoin.c:127).
NoLostWakeup ==
    /\ system = "prod" => Prod!NoLostWakeup
    /\ system = "multijoin" => Join!NoLostWakeup

\* Units are neither lost nor counted twice, and the program ends only when all
\* of them are consumed (prod_condvar.c, prod_no_condvar.c).
ProdAllConsumed == system = "prod" => Prod!AllConsumed

\* numUnjoined and numLive agree with the states of the threads, although
\* threads terminate while others are being created (thread_multijoin.c).
MultiJoinCountsRight == system = "multijoin" => Join!CountsRight

\* With a lock of any kind, and any number of increments made each time it is
\* held, main prints the number of increments as an int.  Without a lock
\* increments are lost, never invented, and never all (thread_incr.c:10).
IncrRight == system = "incr" => Incr!NoUpdateLost /\ Incr!LossBounded

\* init() is entered once (one_time_init.c:56-57), and no call of
\* one_time_init() returns before init() has, whoever runs it.
OnceInit == system = "once" => Once!InitOnce /\ Once!InitDoneOnReturn

\* A thread prints the results for its own pathname (name_tsd.c:36-37), from
\* keys that are created once and before they are used (41, 110).
TsdThreadSafe == system = "tsd" => Tsd!ThreadSafe /\ Tsd!KeyBeforeUse

\* Every buffer is some thread's and is freed with it (name_tsd.c:22).
TsdNoLeak == system = "tsd" => Tsd!NoLeak

\* However it ends, the thread of thread_cleanup.c has released the mutex and
\* freed its buffer once.
CleanedUp == system = "cleanup" => Clean!CleanedUp

\* No thread is two crossings ahead of another, nor ends before all have
\* arrived for the last crossing; and one thread per crossing is the serial one
\* (pthread_barrier_demo.c:57-67).
BarrierPassed == system = "barrier" => Barr!InStep /\ Barr!OneSerial

\* Every program ends: all units are consumed, all threads joined, every call
\* returns, the cancelled or signalled thread is joined.  The consumer of
\* prod_no_condvar.c polls, and may take the mutex again for ever.
AllEnd ==
    <>  /\ system = "prod" /\ ~Prod!Polling => Prod!Finished
        /\ system = "multijoin" => Join!Finished
        /\ system = "incr" => Incr!Finished
        /\ system = "once" => Once!Finished
        /\ system = "tsd" => Tsd!Finished
        /\ system = "cleanup" => Clean!Finished
        /\ system = "barrier" => Barr!Finished
=============================================================================

---------------------------- MODULE ThreadsProofs ----------------------------
(***************************************************************************)
(* Proofs about OneTimeInit, MultiJoin, ThreadCleanup and BarrierDemo, for *)
(* any number of threads, calls and crossings, as instances of             *)
(* ThreadPrograms.                                                         *)
(***************************************************************************)
EXTENDS ThreadPrograms, FiniteSetTheorems, TLAPS

-----------------------------------------------------------------------------
(***************************************************************************)
(* one_time_init.c: the flag tells the truth.  It is set exactly when init() *)
(* has returned, except while the holder of the mutex is inside init(); and *)
(* whoever is past the test with the flag unset is the only one ever there. *)
(***************************************************************************)

\* What the flag and the holder of the mutex say about init().
FlagTrue ==
    /\ called <=> ended = 1
    /\ called \/ ended = 0
    /\ begun = IF called \/ \E t \in OnceThreads : pc[t] = "inInit" THEN 1 ELSE 0
    /\ \A t \in OnceThreads : pc[t] \in {"init", "inInit"} => ~called
    /\ \A t \in OnceThreads : pc[t] = "unlock" => called

\* A call under way has not been counted as made.
CallsLeft == \A t \in OnceThreads : pc[t] \in Once!Inside => left[t] > 0

OnceIInv == Once!TypeOK /\ FlagTrue /\ CallsLeft /\ Once!InitDoneOnReturn

\* Before the first call init() has not run and no call has returned.
LEMMA OnceInitIInv == ASSUME Once!OnceAssumption, Once!Init PROVE OnceIInv
<1>1. \A t \in OnceThreads : pc[t] = "idle" /\ left[t] = Calls /\ mtx # t
  BY Zenon DEF Once!Init, Once!OnceAssumption, Once!NoOne
<1>2. Once!TypeOK
  BY <1>1, ZenonT(30) DEF Once!Init, Once!OnceAssumption, Once!TypeOK, Once!Inside
<1>3. FlagTrue /\ CallsLeft /\ Once!InitDoneOnReturn
  BY <1>1 DEF Once!Init, Once!OnceAssumption, FlagTrue, CallsLeft, Once!InitDoneOnReturn, Once!Inside
<1> QED
  BY <1>2, <1>3, Zenon DEF OnceIInv

\* No step of one_time_init() loses the invariant.
LEMMA OnceNextIInv ==
    ASSUME Once!OnceAssumption, OnceIInv, [Once!Next]_(Once!vars) PROVE OnceIInv'
<1> USE DEF Once!OnceAssumption, OnceIInv, Once!TypeOK, FlagTrue, CallsLeft, Once!InitDoneOnReturn, Once!Inside, Once!Go,
           Once!NoOne
<1>1. ASSUME NEW t \in OnceThreads, Once!Lock(t) PROVE OnceIInv'
  BY <1>1 DEF Once!Lock
<1>2. ASSUME NEW t \in OnceThreads, Once!Test(t) PROVE OnceIInv'
  BY <1>2, Zenon DEF Once!Test
<1>3. ASSUME NEW t \in OnceThreads, Once!InitBegins(t) PROVE OnceIInv'
  BY <1>3 DEF Once!InitBegins
<1>4. ASSUME NEW t \in OnceThreads, Once!InitEnds(t) PROVE OnceIInv'
  BY <1>4, SMTT(30) DEF Once!InitEnds
<1>5. ASSUME NEW t \in OnceThreads, Once!Unlock(t) PROVE OnceIInv'
  BY <1>5 DEF Once!Unlock
<1>6. CASE UNCHANGED Once!vars
  BY <1>6, Zenon DEF Once!vars
<1> QED
  BY <1>1, <1>2, <1>3, <1>4, <1>5, <1>6 DEF Once!Next, Once!one_time_init

\* The invariant holds throughout.
LEMMA OnceInvariant == ASSUME Once!OnceAssumption PROVE Once!Spec => []OnceIInv
  BY OnceInitIInv, OnceNextIInv, PTL DEF Once!Spec

\* The invariant gives the properties.
LEMMA OnceIInvImplies ==
    ASSUME OnceIInv PROVE Once!TypeOK /\ Once!InitOnce /\ Once!InitDoneOnReturn
  BY DEF OnceIInv, Once!TypeOK, FlagTrue, Once!InitOnce

\* init() is entered at most once, however many threads make however many
\* calls of one_time_init() at the same time.
THEOREM EnteredOnce == ASSUME Once!OnceAssumption PROVE Once!Spec => []Once!InitOnce
  BY OnceInvariant, OnceIInvImplies, PTL

\* No call of one_time_init() returns before init() has returned.
THEOREM DoneOnReturn == ASSUME Once!OnceAssumption PROVE Once!Spec => []Once!InitDoneOnReturn
  BY OnceInvariant, OnceIInvImplies, PTL

-----------------------------------------------------------------------------
(***************************************************************************)
(* thread_multijoin.c: thread[].state follows the thread under the mutex, and *)
(* the two counters follow thread[].state; so main sleeps only while whoever *)
(* terminated since it looked has its signal still to send, and ends with all *)
(* joined.                                                                 *)
(***************************************************************************)

Terminated == {t \in Join!Threads : state[t] = "TERMINATED"}
NotJoined  == {t \in Join!Threads : state[t] # "JOINED"}

\* The mutex is held from lock to unlock, by main from its test to its unlock.
JoinMutexHeld ==
    /\ \A t \in Join!Threads : thr[t] = "locked" <=> threadMutex = t
    /\ pc \in {"check", "walk"} <=> threadMutex = Join!Main

\* What a thread has done is what its state says.
StateFollows ==
    \A t \in Join!Threads :
        /\ state[t] = "none" <=> thr[t] = "unborn"
        /\ state[t] = "ALIVE" <=> thr[t] \in {"run", "locked"}
        /\ state[t] = "JOINED" => thr[t] = "ended"

\* While main creates threads it has joined none, and those from idx on are unborn.
Creating ==
    pc = "create" => /\ numLive = 0
                     /\ \A t \in Join!Threads : state[t] # "JOINED" /\ (t >= idx => thr[t] = "unborn")

\* main leaves its loop when it counts no thread as live.
ExitWithNone == pc = "exit" => numLive = 0

\* The counters count the threads.
JoinCounts ==
    /\ numUnjoined = Cardinality(Terminated)
    /\ pc # "create" => numLive = Cardinality(NotJoined)

JoinIInv ==
    Join!TypeOK /\ JoinMutexHeld /\ StateFollows /\ Creating /\ ExitWithNone /\ JoinCounts /\ Join!NoLostWakeup

\* Threads are numbered from 1, and there are N of them.
LEMMA JoinNumbered ==
    ASSUME Join!MultiJoinAssumption
    PROVE  /\ Join!Threads = 1..N /\ N \in Nat /\ IsFiniteSet(Join!Threads) /\ Cardinality(Join!Threads) = N
           /\ \A t \in Join!Threads : t \in Nat /\ t # Join!Main /\ t # Join!NoOne
  BY FS_Interval DEF Join!MultiJoinAssumption, Join!Threads, Join!Main, Join!NoOne

\* A set of threads is finite, with at most N members.
LEMMA SomeThreads ==
    ASSUME Join!MultiJoinAssumption, NEW S \in SUBSET Join!Threads
    PROVE  IsFiniteSet(S) /\ Cardinality(S) \in 0..N
  BY JoinNumbered, FS_Subset, FS_CardinalityType, SMTT(30)

\* Nobody has been created at the start.
LEMMA JoinInitIInv == Join!MultiJoinAssumption /\ Join!Init => JoinIInv
<1> SUFFICES ASSUME Join!MultiJoinAssumption, Join!Init PROVE JoinIInv
  BY Zenon
<1>1. Join!TypeOK
  BY JoinNumbered DEF Join!Init, Join!TypeOK, Join!MultiJoinAssumption
<1>2. JoinMutexHeld /\ StateFollows /\ Creating /\ ExitWithNone /\ Join!NoLostWakeup
  BY JoinNumbered DEF Join!Init, JoinMutexHeld, StateFollows, Creating, ExitWithNone, Join!NoLostWakeup, Join!Main, Join!NoOne
<1>3. JoinCounts
  <2>1. Terminated = {}
    BY Zenon DEF Join!Init, Terminated
  <2> QED
    BY <2>1, FS_EmptySet, Zenon DEF Join!Init, JoinCounts, Terminated
<1> QED
  BY <1>1, <1>2, <1>3, Zenon DEF JoinIInv

\* The counters stay right, and in range, when no thread changes state.
LEMMA SameCounts ==
    ASSUME Join!MultiJoinAssumption, JoinIInv, UNCHANGED <<state, numUnjoined, numLive>>,
           pc' # "create" => pc # "create"
    PROVE  JoinCounts'
  BY Zenon DEF JoinIInv, JoinCounts, Terminated, NotJoined

\* The steps of a thread keep the invariant.
LEMMA JoinThreadIInv ==
    ASSUME Join!MultiJoinAssumption, JoinIInv, NEW t \in Join!Threads, Join!threadFunc(t) PROVE JoinIInv'
<1> USE JoinNumbered DEF JoinIInv, Join!TypeOK, JoinMutexHeld, StateFollows, Creating, ExitWithNone, Join!NoLostWakeup,
                     Join!Main, Join!NoOne
<1>1. CASE Join!TLock(t)
  <2>1. JoinCounts'
    BY <1>1, SameCounts, Zenon DEF Join!TLock
  <2> QED
    BY <1>1, <2>1, SMTT(30) DEF Join!TLock
<1>2. CASE Join!TRecord(t)
  <2>1. t \notin Terminated /\ Terminated' = Terminated \cup {t} /\ NotJoined' = NotJoined
    BY <1>2, ZenonT(30) DEF Join!TRecord, Terminated, NotJoined
  <2>2. Cardinality(Terminated') = Cardinality(Terminated) + 1
    <3>1. IsFiniteSet(Terminated)
      BY SomeThreads, Zenon DEF Terminated
    <3> QED
      BY <2>1, <3>1, FS_AddElement, ZenonT(30)
  <2>3. JoinCounts'
    BY <1>2, <2>1, <2>2, ZenonT(30) DEF Join!TRecord, JoinCounts, Terminated, NotJoined
  <2>4. numUnjoined' \in 0..N
    BY <2>3, SomeThreads, Zenon DEF JoinCounts, Terminated
  <2> QED
    BY <1>2, <2>3, <2>4, SMTT(30) DEF Join!TRecord
<1>3. CASE Join!TSignal(t)
  <2>1. JoinCounts'
    BY <1>3, SameCounts, Zenon DEF Join!TSignal
  <2> QED
    BY <1>3, <2>1, SMTT(30) DEF Join!TSignal
<1> QED
  BY <1>1, <1>2, <1>3, Zenon DEF Join!threadFunc

\* The steps of the main thread keep the invariant.
LEMMA JoinMainIInv == ASSUME Join!MultiJoinAssumption, JoinIInv, Join!MainStep \/ Join!MSpurious PROVE JoinIInv'
<1> USE JoinNumbered DEF JoinIInv, Join!TypeOK, JoinMutexHeld, StateFollows, Creating, ExitWithNone, Join!NoLostWakeup,
                     Join!Main, Join!NoOne
<1>1. CASE Join!MCreate
  <2>1. idx \in Join!Threads /\ state[idx] = "none"
    BY <1>1 DEF Join!MCreate
  <2>2. Terminated' = Terminated
    BY <1>1, <2>1, Zenon DEF Join!MCreate, Terminated
  <2>3. JoinCounts'
    BY <1>1, <2>2, ZenonT(30) DEF Join!MCreate, JoinCounts, Terminated
  <2> QED
    BY <1>1, <2>1, <2>3, SMTT(30) DEF Join!MCreate
<1>2. CASE Join!MSetLive
  <2>1. NotJoined = Join!Threads /\ numLive' = N /\ N \in 0..N
    BY <1>2 DEF Join!MSetLive, NotJoined
  <2>2. JoinCounts'
    BY <1>2, <2>1, ZenonT(30) DEF Join!MSetLive, JoinCounts, Terminated, NotJoined
  <2> QED
    BY <1>2, <2>1, <2>2, Zenon DEF Join!MSetLive
<1>3. CASE Join!MLoop
  <2>1. JoinCounts'
    BY <1>3, SameCounts, Zenon DEF Join!MLoop
  <2> QED
    BY <1>3, <2>1 DEF Join!MLoop
<1>4. CASE Join!MLock
  <2>1. JoinCounts'
    BY <1>4, SameCounts, Zenon DEF Join!MLock
  <2> QED
    BY <1>4, <2>1, Zenon DEF Join!MLock
<1>5. CASE Join!MCheck
  <2>1. JoinCounts'
    BY <1>5, SameCounts, Zenon DEF Join!MCheck
  <2> QED
    BY <1>5, <2>1, SMTT(30) DEF Join!MCheck
<1>6. CASE Join!MJoin
  <2>1. /\ idx \in Join!Threads /\ idx \in Terminated /\ idx \in NotJoined
        /\ Terminated' = Terminated \ {idx} /\ NotJoined' = NotJoined \ {idx}
    BY <1>6, SMTT(30) DEF Join!MJoin, Terminated, NotJoined
  <2>2. /\ Cardinality(Terminated') = Cardinality(Terminated) - 1
        /\ Cardinality(NotJoined') = Cardinality(NotJoined) - 1
    <3>1. IsFiniteSet(Terminated) /\ IsFiniteSet(NotJoined)
      BY SomeThreads, Zenon DEF Terminated, NotJoined
    <3> QED
      BY <2>1, <3>1, FS_RemoveElement, ZenonT(30)
  <2>3. JoinCounts'
    BY <1>6, <2>2, Zenon DEF Join!MJoin, JoinCounts, Terminated, NotJoined
  <2>4. numUnjoined' \in 0..N /\ numLive' \in 0..N
    BY <1>6, <2>3, SomeThreads, SMTT(30) DEF Join!MJoin, JoinCounts, Terminated, NotJoined
  <2> QED
    BY <1>6, <2>1, <2>3, <2>4, SMTT(30) DEF Join!MJoin
<1>7. CASE Join!MSkip
  <2>1. JoinCounts'
    BY <1>7, SameCounts, Zenon DEF Join!MSkip
  <2> QED
    BY <1>7, <2>1, SMTT(30) DEF Join!MSkip
<1>8. CASE Join!MUnlock
  <2>1. JoinCounts'
    BY <1>8, SameCounts, Zenon DEF Join!MUnlock
  <2> QED
    BY <1>8, <2>1, SMTT(30) DEF Join!MUnlock
<1>9. CASE Join!MSpurious
  <2>1. JoinCounts'
    BY <1>9, SameCounts, Zenon DEF Join!MSpurious
  <2> QED
    BY <1>9, <2>1, SMTT(30) DEF Join!MSpurious
<1> QED
  BY <1>1, <1>2, <1>3, <1>4, <1>5, <1>6, <1>7, <1>8, <1>9, ZenonT(30) DEF Join!MainStep

\* No step loses the invariant.
LEMMA JoinNextIInv ==
    ASSUME Join!MultiJoinAssumption, JoinIInv, [Join!Next]_(Join!vars) PROVE JoinIInv'
<1>1. CASE UNCHANGED Join!vars
  <2>1. JoinCounts'
    BY <1>1, SameCounts, Zenon DEF Join!vars
  <2> QED
    BY <1>1, <2>1, Zenon DEF JoinIInv, Join!TypeOK, JoinMutexHeld, StateFollows, Creating, ExitWithNone,
       Join!NoLostWakeup, Join!vars
<1>2. CASE Join!MainStep \/ Join!MSpurious
  BY <1>2, JoinMainIInv, Zenon
<1>3. ASSUME NEW t \in Join!Threads, Join!threadFunc(t) PROVE JoinIInv'
  BY <1>3, JoinThreadIInv, Zenon
<1> QED
  BY <1>1, <1>2, <1>3, Zenon DEF Join!Next

\* The module's Cardinality is the one the theorems about finite sets are about.
LEMMA JoinCardinality == ASSUME NEW S PROVE Join!Cardinality(S) = Cardinality(S)
  BY Zenon DEF Join!Cardinality, Cardinality

\* The invariant gives the properties.
LEMMA JoinIInvImplies ==
    ASSUME JoinIInv PROVE Join!TypeOK /\ Join!NoLostWakeup /\ Join!CountsRight
  BY JoinCardinality, Zenon DEF JoinIInv, JoinCounts, Terminated, NotJoined, Join!CountsRight

\* The invariant holds throughout.
LEMMA JoinInvariant == ASSUME Join!MultiJoinAssumption PROVE Join!Spec => []JoinIInv
  BY JoinInitIInv, JoinNextIInv, PTL DEF Join!Spec

\* numUnjoined and numLive count what thread_multijoin.c says they count.
THEOREM CountersCount == ASSUME Join!MultiJoinAssumption PROVE Join!Spec => []Join!CountsRight
  BY JoinInvariant, JoinIInvImplies, PTL

\* The main thread never sleeps over a terminated thread that nobody signals.
THEOREM JoinWakeupNotLost ==
    ASSUME Join!MultiJoinAssumption PROVE Join!Spec => []Join!NoLostWakeup
  BY JoinInvariant, JoinIInvImplies, PTL

\* The main thread exits with every thread joined.
AllJoinedAtExit == pc = "exit" => \A t \in Join!Threads : state[t] = "JOINED"

\* The loop on numLive ends only when pthread_join() has returned for all.
THEOREM ExitJoinsAll == ASSUME Join!MultiJoinAssumption PROVE Join!Spec => []AllJoinedAtExit
<1>1. JoinIInv => AllJoinedAtExit
  <2> SUFFICES ASSUME JoinIInv, pc = "exit" PROVE \A t \in Join!Threads : state[t] = "JOINED"
    BY Zenon DEF AllJoinedAtExit
  <2>1. Cardinality(NotJoined) = 0
    BY Zenon DEF JoinIInv, ExitWithNone, JoinCounts, NotJoined
  <2>2. NotJoined = {}
    BY <2>1, SomeThreads, FS_EmptySet, Zenon DEF NotJoined
  <2> QED
    BY <2>2, Zenon DEF NotJoined
<1> QED
  BY <1>1, JoinInvariant, PTL

-----------------------------------------------------------------------------
(***************************************************************************)
(* thread_cleanup.c: the handler is pushed when the mutex is locked and the *)
(* buffer allocated, and every way out from there goes through it.         *)
(***************************************************************************)

\* Where the thread has the mutex and its handler, and what becomes of its
\* buffer.  If it gets to its wait in time, it is not cancelled before.
CleanIInv ==
    prog = "thread_cleanup" =>
        /\ tpc \in {"start", "print", "lock", "push", "test", "waiting", "woken", "cancelled",
                    "pop", "ended"}
        /\ mtx = "thread" <=> tpc \in {"push", "test", "cancelled", "pop"}
        /\ mtx = "main" <=> pc \in {"set", "unlock"}
        /\ tpc \in {"print", "lock", "push", "test", "waiting", "woken", "cancelled", "pop"}
             => buf = "allocated"
        /\ tpc = "ended" => \/ buf = "freed"
                            \/ ~inTime /\ res = "PTHREAD_CANCELED" /\ buf = "allocated"
        /\ inTime /\ cancel => tpc \notin {"start", "print"}
        /\ tpc = "cancelled" => cancel
        /\ tpc = "ended" /\ res = "PTHREAD_CANCELED" => cancel

\* The thread holds nothing at the start.
LEMMA CleanInitIInv == ASSUME Clean!Init PROVE CleanIInv
  BY Zenon DEF Clean!Init, CleanIInv

\* No step of the thread or of main loses the invariant.
LEMMA CleanNextIInv == ASSUME CleanIInv, [Clean!Next]_(Clean!vars) PROVE CleanIInv'
<1> USE DEF CleanIInv, Clean!run
<1>1. CASE Clean!threadFunc
  <2>1. CASE Clean!CLoop
    BY <2>1, Zenon DEF Clean!CLoop
  <2>2. CASE Clean!TMalloc
    BY <2>2, Zenon DEF Clean!TMalloc
  <2>3. CASE Clean!TPrint
    BY <2>3, Zenon DEF Clean!TPrint
  <2>4. CASE Clean!TLock
    BY <2>4, Zenon DEF Clean!TLock
  <2>5. CASE Clean!TPush
    BY <2>5, Zenon DEF Clean!TPush
  <2>6. CASE Clean!TTest
    BY <2>6, Zenon DEF Clean!TTest
  <2>7. CASE Clean!TRelock
    BY <2>7, Zenon DEF Clean!TRelock
  <2>8. CASE Clean!TEnd
    BY <2>8, Zenon DEF Clean!TEnd, Clean!cleanupHandler
  <2> QED
    BY <1>1, <2>1, <2>2, <2>3, <2>4, <2>5, <2>6, <2>7, <2>8, SMTT(30) DEF Clean!threadFunc
<1>2. CASE Clean!TWake
  BY <1>2, Zenon DEF Clean!TWake
<1>3. CASE Clean!main
  <2>1. CASE Clean!MCancel
    BY <2>1, Zenon DEF Clean!MCancel, Clean!Ready
  <2>2. CASE Clean!MLock
    BY <2>2, Zenon DEF Clean!MLock, Clean!Ready
  <2>3. CASE Clean!MSet
    BY <2>3, Zenon DEF Clean!MSet
  <2>4. CASE Clean!MUnlock
    BY <2>4, Zenon DEF Clean!MUnlock
  <2>5. CASE Clean!MSignal
    BY <2>5, Zenon DEF Clean!MSignal
  <2>6. CASE Clean!MJoin
    BY <2>6, Zenon DEF Clean!MJoin
  <2> QED
    BY <1>3, <2>1, <2>2, <2>3, <2>4, <2>5, <2>6, ZenonT(30) DEF Clean!main
<1>4. CASE UNCHANGED Clean!vars
  BY <1>4, Zenon DEF Clean!vars
<1> QED
  BY <1>1, <1>2, <1>3, <1>4, ZenonT(30) DEF Clean!Next

\* The invariant holds throughout.
LEMMA CleanInvariant == Clean!Spec => []CleanIInv
  BY CleanInitIInv, CleanNextIInv, PTL DEF Clean!Spec

\* The invariant gives the property.
LEMMA CleanIInvImplies == ASSUME CleanIInv PROVE Clean!CleanedUp
  BY Zenon DEF CleanIInv, Clean!CleanedUp

\* Whenever the request comes, the thread of thread_cleanup.c ends with the
\* mutex released and its buffer freed once.
THEOREM HandlerCleansUp == Clean!Spec => []Clean!CleanedUp
  BY CleanInvariant, CleanIInvImplies, PTL

-----------------------------------------------------------------------------
(***************************************************************************)
(* pthread_barrier_demo.c: count a crossing as done when the barrier opens, *)
(* not when the thread returns from it.  By that count all threads are always *)
(* at the same crossing, since the barrier opens for all of them at once.  *)
(***************************************************************************)

SERIAL == "PTHREAD_BARRIER_SERIAL_THREAD"

\* The crossings of a thread, the one it is about to return from included.
Crossings(t) == IF pc[t] = "released" THEN j[t] + 1 ELSE j[t]

Serial(t) == pc[t] = "released" /\ s[t] = SERIAL

\* Where the threads are: blocked ones wait, and there is a crossing to make.
BarrPlaced ==
    /\ \A t \in Barr!Threads : t \in blocked <=> pc[t] = "wait"
    /\ \A t \in Barr!Threads : pc[t] \in {"sleep", "wait", "released"} => j[t] < numBarriers

BarrUncreated == \A t \in Barr!Threads : t > created => pc[t] = "none"

SameCrossing == \A t, u \in Barr!Threads : Crossings(t) = Crossings(u)

\* A crossing that the barrier has opened for has one serial thread: it has
\* returned, or is the one that still has to.
SerialOfEach ==
    /\ \A k \in 0 .. numBarriers - 1 : \A t, u \in serial[k] : t = u
    /\ \A t \in Barr!Threads : Serial(t) => serial[j[t]] = {} /\ \A u \in Barr!Threads : Serial(u) => u = t
    /\ \A k \in 0 .. numBarriers - 1, t \in Barr!Threads :
         Crossings(t) > k => serial[k] # {} \/ \E u \in Barr!Threads : Serial(u) /\ j[u] = k
    /\ \A k \in 0 .. numBarriers - 1, t \in Barr!Threads : serial[k] # {} => Crossings(t) > k

BarrIInv == Barr!TypeOK /\ BarrPlaced /\ BarrUncreated /\ SameCrossing /\ SerialOfEach

\* The module's Cardinality is the one the theorems about finite sets are about.
LEMMA BarrCardinality == ASSUME NEW S PROVE Barr!Cardinality(S) = Cardinality(S)
  BY Zenon DEF Barr!Cardinality, Cardinality

\* There are numThreads threads, and the barrier opens when all are there.
LEMMA AllThreads ==
    ASSUME Barr!BarrierAssumption
    PROVE  /\ IsFiniteSet(Barr!Threads) /\ Cardinality(Barr!Threads) = numThreads
           /\ \A S \in SUBSET Barr!Threads : ~(Cardinality(S) < Barr!barrierCount) => S = Barr!Threads
<1>1. IsFiniteSet(Barr!Threads) /\ Cardinality(Barr!Threads) = numThreads
  BY FS_Interval, SMTT(30) DEF Barr!BarrierAssumption, Barr!Threads
<1>2. ASSUME NEW S \in SUBSET Barr!Threads, ~(Cardinality(S) < numThreads) PROVE S = Barr!Threads
  <2>1. Cardinality(S) \in Nat /\ Cardinality(S) <= Cardinality(Barr!Threads)
    BY <1>1, FS_Subset, FS_CardinalityType, Zenon
  <2>2. Cardinality(Barr!Threads) = Cardinality(S)
    BY <1>1, <1>2, <2>1, SMTT(30) DEF Barr!BarrierAssumption
  <2> QED
    BY <1>1, <2>2, FS_Subset, Zenon
<1> QED
  BY <1>1, <1>2, Zenon DEF Barr!barrierCount

\* No crossing has been made at the start.
LEMMA BarrInitIInv == ASSUME Barr!BarrierAssumption, Barr!Init PROVE BarrIInv
<1>1. Barr!TypeOK
  BY DEF Barr!BarrierAssumption, Barr!Init, Barr!TypeOK
<1>2. BarrPlaced /\ BarrUncreated /\ SameCrossing
  BY Zenon DEF Barr!Init, BarrPlaced, BarrUncreated, SameCrossing, Crossings
<1>3. SerialOfEach
  BY SMTT(30) DEF Barr!Init, SerialOfEach, Crossings, Serial, SERIAL
<1> QED
  BY <1>1, <1>2, <1>3, Zenon DEF BarrIInv

\* A step that keeps the crossings and who is released keeps the rest.
LEMMA SameSerial ==
    ASSUME BarrIInv, UNCHANGED <<serial, s, j>>,
           \A t \in Barr!Threads : pc'[t] = "released" <=> pc[t] = "released"
    PROVE  SameCrossing' /\ SerialOfEach'
  BY SMTT(30) DEF BarrIInv, SameCrossing, SerialOfEach, Crossings, Serial

\* The barrier opens for all threads at once, with one serial thread.
LEMMA BarrOpenIInv ==
    ASSUME Barr!BarrierAssumption, BarrIInv, NEW t \in Barr!Threads, pc[t] = "sleep",
           blocked \cup {t} = Barr!Threads, NEW one \in Barr!Threads,
           blocked' = {}, UNCHANGED <<serial, j, created, joined>>,
           pc' = [u \in Barr!Threads |-> "released"],
           s' = [u \in Barr!Threads |-> IF u = one THEN SERIAL ELSE "0"]
    PROVE  BarrIInv'
<1>1. \A u \in Barr!Threads : pc[u] \in {"sleep", "wait"} /\ ~Serial(u) /\ Crossings(u) = j[u]
  BY Zenon DEF BarrIInv, BarrPlaced, Crossings, Serial
<1>2. \A u, v \in Barr!Threads : j[u] = j[v] /\ j[u] \in Nat /\ j[u] < numBarriers
  BY <1>1, SMTT(30) DEF BarrIInv, Barr!TypeOK, BarrPlaced, SameCrossing
<1>3. \A u \in Barr!Threads : Crossings(u)' = j[u] + 1 /\ (Serial(u)' <=> u = one)
  BY Zenon DEF Crossings, Serial, SERIAL
<1>4. Barr!TypeOK'
  BY Zenon DEF BarrIInv, Barr!TypeOK, SERIAL
<1>5. BarrPlaced' /\ BarrUncreated'
  BY <1>1, <1>2, SMTT(30) DEF BarrIInv, BarrPlaced, BarrUncreated
<1>6. SameCrossing'
  BY <1>2, <1>3, Zenon DEF SameCrossing
<1>7. \A k \in 0 .. numBarriers - 1, u \in Barr!Threads : serial[k] # {} <=> j[u] > k
  BY <1>1, SMTT(30) DEF BarrIInv, SerialOfEach
<1>8. SerialOfEach'
  <2>1. serial[j[one]] = {}
    BY <1>2, <1>7, SMTT(30) DEF Barr!BarrierAssumption
  <2>2. ASSUME NEW k \in 0 .. numBarriers - 1, NEW u \in Barr!Threads, j[u] + 1 > k
        PROVE  serial[k] # {} \/ j[one] = k
    BY <1>2, <1>7, <2>2, SMTT(30)
  <2>3. ASSUME NEW k \in 0 .. numBarriers - 1, NEW u \in Barr!Threads, serial[k] # {}
        PROVE  j[u] + 1 > k
    BY <1>2, <1>7, <2>3, SMTT(30)
  <2>4. \A k \in 0 .. numBarriers - 1 : \A u, v \in serial[k] : u = v
    BY Zenon DEF BarrIInv, SerialOfEach
  <2> QED
    BY <1>3, <2>1, <2>2, <2>3, <2>4, SMTT(30) DEF SerialOfEach
<1> QED
  BY <1>4, <1>5, <1>6, <1>8, ZenonT(30) DEF BarrIInv

\* A thread that returns from the barrier keeps the invariant.
LEMMA BarrPassedIInv ==
    ASSUME Barr!BarrierAssumption, BarrIInv, NEW t \in Barr!Threads, Barr!Passed(t) PROVE BarrIInv'
<1>1. /\ pc[t] = "released" /\ j[t] \in 0 .. numBarriers - 1 /\ j[t] + 1 \in 0 .. numBarriers
      /\ j' = [j EXCEPT ![t] = j[t] + 1] /\ pc' = [pc EXCEPT ![t] = "loop"]
      /\ UNCHANGED <<blocked, s, created, joined>>
  BY SMTT(30) DEF BarrIInv, Barr!TypeOK, BarrPlaced, Barr!Passed, Barr!BarrierAssumption
<1>2. serial' = IF Serial(t) THEN [serial EXCEPT ![j[t]] = serial[j[t]] \cup {t}] ELSE serial
  BY Zenon DEF Barr!Passed, Serial, SERIAL
<1>3. Barr!TypeOK'
  BY <1>1, <1>2, Zenon DEF BarrIInv, Barr!TypeOK
<1>4. BarrPlaced' /\ BarrUncreated'
  BY <1>1, Zenon DEF BarrIInv, Barr!TypeOK, BarrPlaced, BarrUncreated
<1>5. /\ \A u \in Barr!Threads : Crossings(u)' = Crossings(u)
      /\ \A u \in Barr!Threads : Serial(u)' <=> Serial(u) /\ u # t
      /\ \A u \in Barr!Threads : u # t => j'[u] = j[u]
      /\ Crossings(t) = j[t] + 1
  BY <1>1, Zenon DEF BarrIInv, Barr!TypeOK, Crossings, Serial
<1>6. SameCrossing'
  BY <1>5, Zenon DEF BarrIInv, SameCrossing
<1>7. SerialOfEach'
  <2>1. CASE Serial(t)
    <3>1. /\ serial[j[t]] = {} /\ \A u \in Barr!Threads : ~Serial(u)'
          /\ serial'[j[t]] = {t}
          /\ \A k \in 0 .. numBarriers - 1 : k # j[t] => serial'[k] = serial[k]
      BY <1>1, <1>2, <1>5, <2>1, SMTT(30) DEF BarrIInv, Barr!TypeOK, SerialOfEach
    <3>2. \A u \in Barr!Threads : Crossings(u)' = j[t] + 1 /\ Crossings(u) = j[t] + 1
      BY <1>5, ZenonT(30) DEF BarrIInv, SameCrossing
    <3>3. \A k \in 0 .. numBarriers - 1 : \A u, v \in serial'[k] : u = v
      BY <3>1, SMTT(30) DEF BarrIInv, SerialOfEach
    <3>4. ASSUME NEW k \in 0 .. numBarriers - 1, NEW u \in Barr!Threads, Crossings(u)' > k
          PROVE  serial'[k] # {}
      <4>1. CASE k = j[t]
        BY <3>1, <4>1, Zenon
      <4>2. CASE k # j[t]
        <5>1. serial[k] # {} \/ \E v \in Barr!Threads : Serial(v) /\ j[v] = k
          BY <3>2, <3>4, SMTT(30) DEF BarrIInv, SerialOfEach
        <5>2. \A v \in Barr!Threads : Serial(v) => v = t
          BY <2>1, Zenon DEF BarrIInv, SerialOfEach
        <5> QED
          BY <3>1, <4>2, <5>1, <5>2, ZenonT(30)
      <4> QED
        BY <4>1, <4>2, Zenon
    <3>5. ASSUME NEW k \in 0 .. numBarriers - 1, NEW u \in Barr!Threads, serial'[k] # {}
          PROVE  Crossings(u)' > k
      <4>1. CASE k = j[t]
        BY <1>1, <3>2, <4>1, SMTT(30)
      <4>2. CASE k # j[t]
        BY <1>5, <3>1, <3>5, <4>2, SMTT(30) DEF BarrIInv, SerialOfEach
      <4> QED
        BY <4>1, <4>2, ZenonT(30)
    <3> QED
      BY <3>1, <3>3, <3>4, <3>5, ZenonT(30) DEF SerialOfEach
  <2>2. CASE ~Serial(t)
    <3>1. serial' = serial /\ \A u \in Barr!Threads : Serial(u)' <=> Serial(u)
      BY <1>2, <1>5, <2>2, ZenonT(30)
    <3>2. \A u \in Barr!Threads : Serial(u) => j'[u] = j[u]
      BY <1>5, <2>2, SMTT(30)
    <3> QED
      BY <1>5, <3>1, <3>2, SMTT(30) DEF BarrIInv, SerialOfEach
  <2> QED
    BY <2>1, <2>2, Zenon
<1> QED
  BY <1>3, <1>4, <1>6, <1>7, ZenonT(30) DEF BarrIInv

\* No step of main or of a thread loses the invariant.
LEMMA BarrNextIInv == ASSUME Barr!BarrierAssumption, BarrIInv, [Barr!Next]_(Barr!vars) PROVE BarrIInv'
<1>1. CASE Barr!Create
  <2>1. created + 1 \in Barr!Threads /\ created + 1 \in 0 .. numThreads /\ created + 1 > created
    BY <1>1, SMTT(30) DEF Barr!Create, BarrIInv, Barr!TypeOK, Barr!Threads, Barr!BarrierAssumption
  <2>2. pc[created + 1] = "none" /\ created + 1 \notin blocked
    BY <1>1, <2>1, Zenon DEF Barr!Create, BarrIInv, BarrPlaced, BarrUncreated
  <2>3. SameCrossing' /\ SerialOfEach'
    BY <1>1, <2>1, <2>2, SameSerial, ZenonT(30) DEF Barr!Create, BarrIInv, Barr!TypeOK
  <2>4. Barr!TypeOK' /\ BarrPlaced'
    BY <1>1, <2>1, <2>2, ZenonT(30) DEF Barr!Create, BarrIInv, Barr!TypeOK, BarrPlaced
  <2>5. BarrUncreated'
    BY <1>1, <2>1, SMTT(30) DEF Barr!Create, BarrIInv, Barr!TypeOK, BarrUncreated, Barr!Threads, Barr!BarrierAssumption
  <2> QED
    BY <2>3, <2>4, <2>5, ZenonT(30) DEF BarrIInv
<1>2. CASE Barr!Join
  BY <1>2, SameSerial, SMTT(30) DEF Barr!Join, BarrIInv, Barr!TypeOK, BarrPlaced, BarrUncreated, Barr!BarrierAssumption
<1>3. ASSUME NEW t \in Barr!Threads, Barr!Loop(t) PROVE BarrIInv'
  BY <1>3, SameSerial, Zenon DEF Barr!Loop, BarrIInv, Barr!TypeOK, BarrPlaced, BarrUncreated
<1>4. ASSUME NEW t \in Barr!Threads, Barr!Wait(t) PROVE BarrIInv'
  <2> DEFINE all == blocked \cup {t}
  <2>1. CASE Cardinality(all) < Barr!barrierCount
    BY <1>4, <2>1, SameSerial, BarrCardinality, ZenonT(30) DEF Barr!Wait, BarrIInv, Barr!TypeOK, BarrPlaced, BarrUncreated
  <2>2. CASE ~(Cardinality(all) < Barr!barrierCount)
    <3>1. all = Barr!Threads
      <4>1. all \in SUBSET Barr!Threads
        BY Zenon DEF BarrIInv, Barr!TypeOK
      <4> QED
        BY <2>2, <4>1, AllThreads, Zenon
    <3>2. PICK one \in all :
            /\ blocked' = {}
            /\ pc' = [u \in Barr!Threads |-> IF u \in all THEN "released" ELSE pc[u]]
            /\ s' = [u \in Barr!Threads |-> IF u = one THEN SERIAL ELSE IF u \in all THEN "0" ELSE s[u]]
            /\ UNCHANGED serial
      BY <1>4, <2>2, BarrCardinality, Zenon DEF Barr!Wait, SERIAL
    <3>3. /\ pc' = [u \in Barr!Threads |-> "released"]
          /\ s' = [u \in Barr!Threads |-> IF u = one THEN SERIAL ELSE "0"]
      BY <3>1, <3>2, ZenonT(30)
    <3> QED
      BY <1>4, <3>1, <3>2, <3>3, BarrOpenIInv DEF Barr!Wait
  <2> QED
    BY <2>1, <2>2, Zenon
<1>5. ASSUME NEW t \in Barr!Threads, Barr!Passed(t) PROVE BarrIInv'
  BY <1>5, BarrPassedIInv, Zenon
<1>6. ASSUME NEW t \in Barr!Threads, Barr!Terminating(t) PROVE BarrIInv'
  BY <1>6, SameSerial, SMTT(30) DEF Barr!Terminating, BarrIInv, Barr!TypeOK, BarrPlaced, BarrUncreated
<1>7. CASE UNCHANGED Barr!vars
  BY <1>7, SameSerial, Zenon DEF Barr!vars, BarrIInv, Barr!TypeOK, BarrPlaced, BarrUncreated
<1> QED
  BY <1>1, <1>2, <1>3, <1>4, <1>5, <1>6, <1>7, ZenonT(30) DEF Barr!Next, Barr!main, Barr!threadFunc

\* No thread is two crossings ahead, and each crossing has one serial thread.
LEMMA BarrIInvImplies ==
    ASSUME Barr!BarrierAssumption, BarrIInv PROVE Barr!TypeOK /\ Barr!InStep /\ Barr!OneSerial
<1>1. Barr!InStep
  <2> SUFFICES ASSUME NEW t \in Barr!Threads, NEW u \in Barr!Threads
               PROVE  j[t] - j[u] <= 1 /\ (j[t] > j[u] => pc[u] = "released")
    BY Zenon DEF Barr!InStep
  <2>1. Crossings(t) = Crossings(u) /\ j[t] \in Int /\ j[u] \in Int
    BY SMTT(30) DEF BarrIInv, Barr!TypeOK, SameCrossing, Barr!BarrierAssumption
  <2> QED
    BY <2>1, SMTT(30) DEF Crossings
<1>2. Barr!OneSerial
  <2> SUFFICES ASSUME NEW k \in 0 .. numBarriers - 1
               PROVE  /\ Cardinality(serial[k]) <= 1
                      /\ (\A t \in Barr!Threads : j[t] > k) => serial[k] # {}
    BY BarrCardinality, Zenon DEF Barr!OneSerial
  <2>1. Cardinality(serial[k]) <= 1
    <3>1. CASE serial[k] = {}
      BY <3>1, FS_EmptySet, SMTT(30)
    <3>2. CASE serial[k] # {}
      <4>1. PICK t \in serial[k] : TRUE
        BY <3>2, Zenon
      <4>2. serial[k] = {t}
        <5>1. \A u, v \in serial[k] : u = v
          BY Zenon, ZenonT(30) DEF BarrIInv, SerialOfEach
        <5> QED
          BY <4>1, <5>1, Zenon
      <4>3. Cardinality({t}) = 1
        BY FS_Singleton, ZenonT(30)
      <4> QED
        BY <4>2, <4>3, SMTT(30)
    <3> QED
      BY <3>1, <3>2, ZenonT(30)
  <2>2. ASSUME \A t \in Barr!Threads : j[t] > k PROVE serial[k] # {}
    <3>1. 1 \in Barr!Threads
      BY SMTT(30) DEF Barr!BarrierAssumption, Barr!Threads
    <3>2. Crossings(1) > k
      BY <2>2, <3>1, SMTT(30) DEF Crossings, BarrIInv, Barr!TypeOK, Barr!BarrierAssumption
    <3>3. k \in Int /\ \A u \in Barr!Threads : j[u] # k
      BY <2>2, SMTT(30) DEF BarrIInv, Barr!TypeOK, Barr!BarrierAssumption
    <3> QED
      BY <3>1, <3>2, <3>3, ZenonT(30) DEF BarrIInv, SerialOfEach
  <2> QED
    BY <2>1, <2>2, Zenon
<1> QED
  BY <1>1, <1>2, Zenon DEF BarrIInv

\* The invariant holds throughout.
LEMMA BarrInvariant == ASSUME Barr!BarrierAssumption PROVE Barr!Spec => []BarrIInv
  BY BarrInitIInv, BarrNextIInv, PTL DEF Barr!Spec

\* No thread is two crossings ahead of another, and the one behind is on its
\* way out of pthread_barrier_wait().
THEOREM ThreadsInStep == ASSUME Barr!BarrierAssumption PROVE Barr!Spec => []Barr!InStep
  BY BarrInvariant, BarrIInvImplies, PTL

\* Exactly one thread is told that it is the serial one each time the barrier
\* is passed, and prints the newline.
THEOREM NewlineOnce == ASSUME Barr!BarrierAssumption PROVE Barr!Spec => []Barr!OneSerial
  BY BarrInvariant, BarrIInvImplies, PTL
=============================================================================

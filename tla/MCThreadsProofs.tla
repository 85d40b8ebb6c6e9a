--------------------------- MODULE MCThreadsProofs ---------------------------
(***************************************************************************)
(* The programs of threads/ together: each takes its own steps while it is *)
(* the one that runs, leaves the others alone and so keeps its invariant.  *)
(* What MCThreads checks on a small instance holds for all values of its   *)
(* constants.                                                              *)
(***************************************************************************)
EXTENDS MCThreads, ThreadsProofs


\* The steps of the program that runs are those of its module.
LEMMA Steps ==
    ASSUME [Next]_vars
    PROVE  /\ UNCHANGED system
           /\ system = "prod" => [Prod!Next]_(Prod!vars)
           /\ system = "multijoin" => [Join!Next]_(Join!vars)
           /\ system = "incr" => [Incr!Next]_(Incr!vars)
           /\ system = "once" => [Once!Next]_(Once!vars)
           /\ system = "tsd" => [Tsd!Next]_(Tsd!vars)
           /\ system = "cleanup" => [Clean!Next]_(Clean!vars)
           /\ system = "barrier" => [Barr!Next]_(Barr!vars)
<1>1. CASE UNCHANGED vars
  BY <1>1, ZenonT(30) DEF vars, Prod!vars, Join!vars, Incr!vars, Once!vars, Tsd!vars, Clean!vars, Barr!vars,
     prodVars, joinVars, onceVars, tsdVars, cleanVars, barrVars
<1>2. CASE Main
  BY <1>2, ZenonT(30) DEF Main, In, InProd, InJoin, InIncr, InOnce, InTsd, InClean, InBarr,
     Prod!Next, Join!Next, Incr!Next, Clean!Next, Barr!Next
<1>3. CASE Spurious \/ Cancelled
  BY <1>3, ZenonT(30) DEF Spurious, Cancelled, In, InProd, InJoin, InClean,
     Prod!Next, Join!Next, Clean!Next
<1>4. CASE \E t \in ThreadIds : Thread(t)
  BY <1>4, ZenonT(30) DEF Thread, In, InProd, InJoin, InIncr, InOnce, InTsd, InClean, InBarr,
     Prod!Next, Join!Next, Incr!Next, Once!Next, Tsd!Next, Clean!Next, Barr!Next
<1> QED
  BY <1>1, <1>2, <1>3, <1>4, ZenonT(30) DEF Next

\* The program that runs starts as its module says.
LEMMA Starts ==
    ASSUME Init
    PROVE  /\ system = "prod" => Prod!Init
           /\ system = "multijoin" => Join!Init
           /\ system = "incr" => Incr!Init
           /\ system = "once" => Once!Init
           /\ system = "tsd" => Tsd!Init
           /\ system = "cleanup" => Clean!Init
           /\ system = "barrier" => Barr!Init
  BY ZenonT(30), ZenonT(30) DEF Init

\* The invariant of one_time_init.c holds while it runs.
LEMMA OnceHolds == Spec => [](system = "once" => OnceIInv)
<1>1. Init => (system = "once" => OnceIInv)
  BY Starts, OnceInitIInv, ThreadsAssumption, ZenonT(30)
<1>2. (system = "once" => OnceIInv) /\ [Next]_vars => (system = "once" => OnceIInv)'
  BY Steps, OnceNextIInv, ThreadsAssumption, ZenonT(30)
<1> QED
  BY <1>1, <1>2, PTL DEF Spec

\* In one_time_init.c and exr3101.c, init() is entered once and has returned
\* before any call returns, for any number of threads and calls.
THEOREM OnceInits == Spec => []OnceInit
<1>1. (system = "once" => OnceIInv) => OnceInit
  BY OnceIInvImplies, ThreadsAssumption, ZenonT(30) DEF OnceInit
<1> QED
  BY <1>1, OnceHolds, PTL

\* The invariant of thread_multijoin.c holds while it runs.
LEMMA JoinHolds == Spec => [](system = "multijoin" => JoinIInv)
<1>1. Init => (system = "multijoin" => JoinIInv)
  BY Starts, JoinInitIInv, ThreadsAssumption, ZenonT(30)
<1>2. (system = "multijoin" => JoinIInv) /\ [Next]_vars => (system = "multijoin" => JoinIInv)'
  BY Steps, JoinNextIInv, ThreadsAssumption, ZenonT(30)
<1> QED
  BY <1>1, <1>2, PTL DEF Spec

\* In thread_multijoin.c the counters agree with the threads' states, for any
\* number of threads.
THEOREM JoinCountsAgree == Spec => []MultiJoinCountsRight
<1>1. (system = "multijoin" => JoinIInv) => MultiJoinCountsRight
  BY JoinIInvImplies, ThreadsAssumption, ZenonT(30) DEF MultiJoinCountsRight
<1> QED
  BY <1>1, JoinHolds, PTL

\* The invariant of thread_cleanup.c holds while it runs.
LEMMA CleanHolds == Spec => [](system = "cleanup" => CleanIInv)
<1>1. Init => (system = "cleanup" => CleanIInv)
  BY Starts, CleanInitIInv, ZenonT(30)
<1>2. (system = "cleanup" => CleanIInv) /\ [Next]_vars => (system = "cleanup" => CleanIInv)'
  BY Steps, CleanNextIInv, ZenonT(30)
<1> QED
  BY <1>1, <1>2, PTL DEF Spec

\* In thread_cleanup.c the mutex is released and the buffer freed once, however
\* the thread ends.
THEOREM CleansUp == Spec => []CleanedUp
<1>1. (system = "cleanup" => CleanIInv) => CleanedUp
  BY CleanIInvImplies, ZenonT(30) DEF CleanedUp
<1> QED
  BY <1>1, CleanHolds, PTL

\* The invariant of pthread_barrier_demo.c holds while it runs.
LEMMA BarrHolds == Spec => [](system = "barrier" => BarrIInv)
<1>1. Init => (system = "barrier" => BarrIInv)
  BY Starts, BarrInitIInv, ThreadsAssumption, ZenonT(30)
<1>2. (system = "barrier" => BarrIInv) /\ [Next]_vars => (system = "barrier" => BarrIInv)'
  BY Steps, BarrNextIInv, ThreadsAssumption, ZenonT(30)
<1> QED
  BY <1>1, <1>2, PTL DEF Spec

\* In pthread_barrier_demo.c the threads keep in step and one of them is the
\* serial one at each crossing, for any number of threads and crossings.
THEOREM BarrierKept == Spec => []BarrierPassed
<1>1. (system = "barrier" => BarrIInv) => BarrierPassed
  BY BarrIInvImplies, ThreadsAssumption, ZenonT(30) DEF BarrierPassed
<1> QED
  BY <1>1, BarrHolds, PTL

DataP == INSTANCE ThreadDataProofs

-----------------------------------------------------------------------------
(* prod_condvar.c and prod_no_condvar.c *)

\* DataP!Prod is Prod, with its theorems.
LEMMA ProdSame ==
    /\ DataP!Prod!ProdAssumption
    /\ Prod!Init <=> DataP!Prod!Init
    /\ [Prod!Next]_(Prod!vars) <=> [DataP!Prod!Next]_(DataP!Prod!vars)
    /\ Prod!TypeOK <=> DataP!Prod!TypeOK
    /\ Prod!NoLostWakeup <=> DataP!Prod!NoLostWakeup
    /\ Prod!AllConsumed <=> DataP!Prod!AllConsumed
  BY ThreadsAssumption, ZenonT(30) DEF
     Prod!ProdAssumption, DataP!Prod!ProdAssumption, Prod!Init, DataP!Prod!Init, Prod!NoOne,
     DataP!Prod!NoOne, Prod!Producers, DataP!Prod!Producers, Prod!producer,
     DataP!Prod!producer, Prod!PLoop, DataP!Prod!PLoop, Prod!PLock, DataP!Prod!PLock,
     Prod!PProduce, DataP!Prod!PProduce, Prod!PUnlock, DataP!Prod!PUnlock, Prod!PSignal,
     DataP!Prod!PSignal, Prod!Goto, DataP!Prod!Goto, Prod!MainStep, DataP!Prod!MainStep,
     Prod!MCreate, DataP!Prod!MCreate, Prod!MLock, DataP!Prod!MLock, Prod!MWait,
     DataP!Prod!MWait, Prod!MPoll, DataP!Prod!MPoll, Prod!MGo, DataP!Prod!MGo, Prod!MSpurious,
     DataP!Prod!MSpurious, Prod!MConsume, DataP!Prod!MConsume, Prod!MUnlock,
     DataP!Prod!MUnlock, Prod!mainVars, DataP!Prod!mainVars, Prod!Polling, DataP!Prod!Polling,
     Prod!Main, DataP!Prod!Main, Prod!Next, DataP!Prod!Next, Prod!vars, DataP!Prod!vars,
     Prod!TypeOK, DataP!Prod!TypeOK, Prod!PPcs, DataP!Prod!PPcs, Prod!MPcs, DataP!Prod!MPcs,
     Prod!NoLostWakeup, DataP!Prod!NoLostWakeup, Prod!AllConsumed, DataP!Prod!AllConsumed,
     Prod!MadeUnits, DataP!Prod!MadeUnits, Prod!AskedUnits, DataP!Prod!AskedUnits, Prod!Made,
     DataP!Prod!Made, Prod!Cardinality, DataP!Prod!Cardinality

\* The invariant of prod_condvar.c and prod_no_condvar.c holds while it runs.
LEMMA ProdHolds == Spec => [](system = "prod" => DataP!ProdIInv /\ DataP!ProdCInv)
<1> DEFINE I == system = "prod" => DataP!ProdIInv /\ DataP!ProdCInv
<1>1. Init => I
  BY Starts, ProdSame, DataP!ProdInitIInv, DataP!ProdInitCInv, ZenonT(30)
<1>2. I /\ [Next]_vars => I'
  BY Steps, ProdSame, DataP!ProdNextIInv, ZenonT(30)
<1> QED
  BY <1>1, <1>2, PTL DEF Spec

-----------------------------------------------------------------------------
(* thread_incr.c and its kin *)

\* DataP is Incr, with its theorems.
LEMMA IncrSame ==
    /\ DataP!IncrAssumption
    /\ Incr!Init <=> DataP!Init
    /\ [Incr!Next]_(Incr!vars) <=> [DataP!Next]_(DataP!vars)
    /\ Incr!TypeOK <=> DataP!TypeOK
    /\ Incr!NoUpdateLost <=> DataP!NoUpdateLost
    /\ Incr!LossBounded <=> DataP!LossBounded
  BY ThreadsAssumption, ZenonT(30) DEF
     Incr!IncrAssumption, DataP!IncrAssumption, Incr!Init, DataP!Init, Incr!NoOne, DataP!NoOne,
     Incr!Programs, DataP!Programs, Incr!Program, DataP!Program, Incr!thread_incr,
     DataP!thread_incr, Incr!ythread_incr, DataP!ythread_incr, Incr!exr3001, DataP!exr3001,
     Incr!thread_incr_mutex, DataP!thread_incr_mutex, Incr!ythread_incr_mutex,
     DataP!ythread_incr_mutex, Incr!thread_incr_rwlock, DataP!thread_incr_rwlock,
     Incr!thread_incr_spinlock, DataP!thread_incr_spinlock, Incr!thread_incr_psem,
     DataP!thread_incr_psem, Incr!thread_lock_speed, DataP!thread_lock_speed, Incr!threadFunc,
     DataP!threadFunc, Incr!Lock, DataP!Lock, Incr!Load, DataP!Load, Incr!Store, DataP!Store,
     Incr!Unlock, DataP!Unlock, Incr!Ended, DataP!Ended, Incr!Report, DataP!Report,
     Incr!Threads, DataP!Threads, Incr!Wrap, DataP!Wrap, Incr!INT_MIN, DataP!INT_MIN,
     Incr!Next, DataP!Next, Incr!vars, DataP!vars, Incr!TypeOK, DataP!TypeOK,
     Incr!NoUpdateLost, DataP!NoUpdateLost, Incr!Asked, DataP!Asked, Incr!LossBounded,
     DataP!LossBounded

\* The invariant of thread_incr.c and its kin holds while it runs.
LEMMA IncrHolds == Spec => [](system = "incr" => DataP!IInv)
<1> DEFINE I == system = "incr" => DataP!IInv
<1>1. Init => I
  BY Starts, IncrSame, DataP!InitIInv, ZenonT(30)
<1>2. I /\ [Next]_vars => I'
  BY Steps, IncrSame, DataP!NextIInv, ZenonT(30)
<1> QED
  BY <1>1, <1>2, PTL DEF Spec

-----------------------------------------------------------------------------
(* What holds of the programs together, but for name_tsd.c *)

\* No program leaves the types of its variables: no count of units or threads
\* drops below zero and no int outgrows its width, whatever the command line.
THEOREM TypeCorrect == Spec => []TypeOK
<1> DEFINE I == /\ system = "prod" => DataP!ProdIInv /\ DataP!ProdCInv
                /\ system = "incr" => DataP!IInv
                /\ system = "multijoin" => JoinIInv
                /\ system = "once" => OnceIInv
                /\ system = "barrier" => BarrIInv
<1>1. I => TypeOK
  BY ProdSame, DataP!ProdIInvImplies, IncrSame, DataP!IInvImplies, JoinIInvImplies,
     OnceIInvImplies, BarrIInvImplies, ThreadsAssumption, ZenonT(30) DEF TypeOK
<1> QED
  BY <1>1, ProdHolds, IncrHolds, JoinHolds, OnceHolds, BarrHolds, PTL

\* Neither the consumer of prod_condvar.c nor the main thread of
\* thread_multijoin.c sleeps over something that no one is still going to signal.
THEOREM WakeupsNotLost == Spec => []NoLostWakeup
<1> DEFINE I == /\ system = "prod" => DataP!ProdIInv /\ DataP!ProdCInv
                /\ system = "multijoin" => JoinIInv
<1>1. I => NoLostWakeup
  BY ProdSame, DataP!ProdIInvImplies, JoinIInvImplies, ThreadsAssumption, ZenonT(30) DEF NoLostWakeup
<1> QED
  BY <1>1, ProdHolds, JoinHolds, PTL

\* Units are neither lost nor counted twice, and the program ends only when as
\* many as were asked for are consumed, by waiting or by polling.
THEOREM UnitsAccounted == Spec => []ProdAllConsumed
<1>1. (system = "prod" => DataP!ProdIInv /\ DataP!ProdCInv) => ProdAllConsumed
  BY ProdSame, DataP!ProdIInvImplies, ZenonT(30) DEF ProdAllConsumed
<1> QED
  BY <1>1, ProdHolds, PTL

\* With a lock the result is the number of increments; without, none is
\* invented and two at least survive.
THEOREM IncrementsCount == Spec => []IncrRight
<1>1. (system = "incr" => DataP!IInv) => IncrRight
  BY IncrSame, DataP!IInvImplies, ZenonT(30) DEF IncrRight
<1> QED
  BY <1>1, IncrHolds, PTL

-----------------------------------------------------------------------------
(* name_tsd.c *)

\* DataP!Tsd is Tsd, with its theorems.
LEMMA TsdSame ==
    /\ DataP!Tsd!TsdAssumption
    /\ Tsd!Init <=> DataP!Tsd!Init
    /\ [Tsd!Next]_(Tsd!vars) <=> [DataP!Tsd!Next]_(DataP!Tsd!vars)
    /\ Tsd!ThreadSafe <=> DataP!Tsd!ThreadSafe
    /\ Tsd!KeyBeforeUse <=> DataP!Tsd!KeyBeforeUse
    /\ Tsd!NoLeak <=> DataP!Tsd!NoLeak
  BY ThreadsAssumption, ZenonT(30) DEF
     Tsd!TsdAssumption, DataP!Tsd!TsdAssumption, Tsd!IsFiniteSet, DataP!Tsd!IsFiniteSet, Tsd!Init, DataP!Tsd!Init,
     Tsd!Funcs, DataP!Tsd!Funcs, Tsd!NULL, DataP!Tsd!NULL, Tsd!Free, DataP!Tsd!Free, Tsd!Nothing, DataP!Tsd!Nothing,
     Tsd!Blocks, DataP!Tsd!Blocks, Tsd!Cardinality, DataP!Tsd!Cardinality, Tsd!threadRoutine,
     DataP!Tsd!threadRoutine, Tsd!Call, DataP!Tsd!Call, Tsd!Once, DataP!Tsd!Once, Tsd!createKey, DataP!Tsd!createKey,
     Tsd!Get, DataP!Tsd!Get, Tsd!CopyPath, DataP!Tsd!CopyPath, Tsd!CutAndReturn, DataP!Tsd!CutAndReturn,
     Tsd!Report, DataP!Tsd!Report, Tsd!destructor, DataP!Tsd!destructor, Tsd!Goto, DataP!Tsd!Goto, Tsd!Result,
     DataP!Tsd!Result, Tsd!Next, DataP!Tsd!Next, Tsd!vars, DataP!Tsd!vars, Tsd!ThreadSafe, DataP!Tsd!ThreadSafe,
     Tsd!KeyBeforeUse, DataP!Tsd!KeyBeforeUse, Tsd!NoLeak, DataP!Tsd!NoLeak

\* The invariant of name_tsd.c holds while it runs.
LEMMA TsdHolds == Spec => [](system = "tsd" => DataP!TsdIInv)
<1> DEFINE I == system = "tsd" => DataP!TsdIInv
<1>1. Init => I
  BY Starts, TsdSame, DataP!TsdInitIInv, ZenonT(30)
<1>2. I /\ [Next]_vars => I'
  BY Steps, TsdSame, DataP!TsdNextIInv, ZenonT(30)
<1> QED
  BY <1>1, <1>2, PTL DEF Spec

\* Threads print the results for their own pathnames, from keys created once
\* and before their use.
THEOREM OwnResults == Spec => []TsdThreadSafe
<1>1. (system = "tsd" => DataP!TsdIInv) => TsdThreadSafe
  BY TsdSame, DataP!TsdIInvImplies, ZenonT(30) DEF TsdThreadSafe
<1> QED
  BY <1>1, TsdHolds, PTL

\* A buffer in use is one thread's, under one key: the destructor frees it.
THEOREM BuffersFreed == Spec => []TsdNoLeak
<1>1. (system = "tsd" => DataP!TsdIInv) => TsdNoLeak
  BY TsdSame, DataP!TsdIInvImplies, ZenonT(30) DEF TsdNoLeak
<1> QED
  BY <1>1, TsdHolds, PTL
=============================================================================

-------------------------- MODULE ThreadDataProofs --------------------------
(***************************************************************************)
(* Proofs about the components whose threads share data, or keep it apart: *)
(* ThreadIncr, for any number of threads and loops and any width of int,   *)
(* ProdCondvar, for any number of producers and of units, and NameTsd, for *)
(* any finite number of threads.                                           *)
(*                                                                         *)
(* ThreadIncr: the increments made so far are a set of triples: thread,    *)
(* outer loop and inner loop.  With a lock glob is their number, as an     *)
(* int; without one it is never more than their number, and the last store *)
(* of all is made by a thread that loaded what a store of its own had      *)
(* raised to 1 or more.                                                    *)
(*                                                                         *)
(* ProdCondvar: a unit is added under the mutex, and the main thread       *)
(* sleeps only if it saw none under the mutex: whoever added the unit has  *)
(* not signalled yet.  Units are counted as the pairs <<producer, number>>:*)
(* those made are available or consumed, and are among those the producers *)
(* created so far were asked for, so that consuming as many leaves none.   *)
(*                                                                         *)
(* NameTsd: a block that is not free is the buffer of one thread for one   *)
(* function: what a thread finds in its buffer is what it wrote there      *)
(* itself.                                                                 *)
(***************************************************************************)
EXTENDS ThreadIncr, Sequences, FiniteSetTheorems, TLAPS

CONSTANT Counts
VARIABLES mtx, avail, prod, pc, created, totRequired, numConsumed, done

Prod == INSTANCE ProdCondvar

-----------------------------------------------------------------------------
(* prod_condvar.c and prod_no_condvar.c *)

\* The mutex is held by the thread between its lock and its unlock, and only
\* prod_condvar.c has anything to sleep on.
ProdMutexHeld ==
    /\ \A p \in Prod!Producers : prod[p].pc \in {"locked", "unlock"} <=> mtx = p
    /\ pc \in {"check", "consume"} <=> mtx = Prod!Main
    /\ pc = "asleep" => ~Prod!Polling

\* The producers from created + 1 on do not exist yet.
Unborn == \A p \in Prod!Producers : p > created => prod[p].pc = "unborn"

ProdIInv == Prod!TypeOK /\ ProdMutexHeld /\ Unborn /\ Prod!NoLostWakeup

\* Producers are numbered from 1: they are neither the main thread nor no one.
LEMMA ProdNumbered ==
    ASSUME Prod!ProdAssumption
    PROVE  /\ Prod!Producers = 1..Len(Counts) /\ Len(Counts) \in Nat
           /\ \A p \in Prod!Producers : p \in Nat /\ p # Prod!Main /\ p # Prod!NoOne /\ Counts[p] \in Nat
  BY DEF Prod!ProdAssumption, Prod!Producers, Prod!Main, Prod!NoOne

\* Nobody has been created at the start.
LEMMA ProdInitIInv == Prod!ProdAssumption /\ Prod!Init => ProdIInv
<1> SUFFICES ASSUME Prod!ProdAssumption, Prod!Init PROVE ProdIInv
  BY Zenon
<1>1. Prod!TypeOK
  <2>1. prod \in [Prod!Producers -> [pc : Prod!PPcs, j : Nat]]
    BY Zenon DEF Prod!Init, Prod!PPcs
  <2>2. created \in 0..Len(Counts)
    BY ProdNumbered DEF Prod!Init
  <2> QED
    BY <2>1, <2>2, ZenonT(30) DEF Prod!Init, Prod!TypeOK, Prod!MPcs
<1>2. ProdMutexHeld /\ Unborn /\ Prod!NoLostWakeup
  BY ProdNumbered DEF Prod!Init, ProdMutexHeld, Unborn, Prod!NoLostWakeup, Prod!Main, Prod!NoOne
<1> QED
  BY <1>1, <1>2, Zenon DEF ProdIInv

\* The steps of a producer keep the invariant.
LEMMA ProducerIInv ==
    ASSUME Prod!ProdAssumption, ProdIInv, NEW p \in Prod!Producers, Prod!producer(p) PROVE ProdIInv'
<1> USE ProdNumbered DEF ProdIInv, Prod!TypeOK, Prod!PPcs, Prod!MPcs, ProdMutexHeld, Unborn, Prod!NoLostWakeup, Prod!Goto, Prod!mainVars,
                     Prod!Main, Prod!NoOne, Prod!Polling
<1>1. CASE Prod!PLoop(p)
  BY <1>1, ZenonT(30) DEF Prod!PLoop
<1>2. CASE Prod!PLock(p)
  BY <1>2, SMTT(30) DEF Prod!PLock
<1>3. CASE Prod!PProduce(p)
  <2>1. /\ \A q \in Prod!Producers : q # p => prod'[q] = prod[q]
        /\ prod[p].pc = "locked" /\ prod'[p].pc = "unlock" /\ avail' = avail + 1
        /\ UNCHANGED <<prog, mtx, pc, created, totRequired, numConsumed, done>>
    BY <1>3, Zenon DEF Prod!PProduce
  <2>2. prod' \in [Prod!Producers -> [pc : Prod!PPcs, j : Nat]]
    BY <1>3, SMTT(30) DEF Prod!PProduce
  <2>3. Prod!TypeOK'
    BY <2>1, <2>2
  <2>4. ProdMutexHeld' /\ Unborn'
    BY <2>1, ZenonT(30)
  <2>5. Prod!NoLostWakeup'
    BY <2>1, Zenon
  <2> QED
    BY <2>3, <2>4, <2>5, Zenon
<1>4. CASE Prod!PUnlock(p)
  <2>1. \E r \in [pc : Prod!PPcs, j : Nat] :
          prod' = [prod EXCEPT ![p] = r] /\ (r.pc = "signal" \/ (r.pc = "loop" /\ Prod!Polling))
    <3>1. CASE Prod!Polling
      <4>1. [pc |-> "loop", j |-> prod[p].j + 1] \in [pc : Prod!PPcs, j : Nat]
        OBVIOUS
      <4> QED
        BY <1>4, <3>1, <4>1, ZenonT(30) DEF Prod!PUnlock
    <3>2. CASE ~Prod!Polling
      <4>1. [prod[p] EXCEPT !.pc = "signal"] \in [pc : Prod!PPcs, j : Nat]
        BY Zenon
      <4>2. prod' = [prod EXCEPT ![p] = [prod[p] EXCEPT !.pc = "signal"]]
        BY <1>4, <3>2, Zenon DEF Prod!PUnlock
      <4> QED
        BY <4>1, <4>2, ZenonT(30)
    <3> QED
      BY <3>1, <3>2, Zenon
  <2>2. /\ \A q \in Prod!Producers : q # p => prod'[q] = prod[q]
        /\ prod'[p].pc = "signal" \/ (prod'[p].pc = "loop" /\ Prod!Polling)
        /\ prod' \in [Prod!Producers -> [pc : Prod!PPcs, j : Nat]]
    BY <2>1
  <2>3. mtx' = Prod!NoOne /\ mtx = p /\ UNCHANGED <<prog, avail, pc, created, totRequired, numConsumed, done>>
    BY <1>4, Zenon DEF Prod!PUnlock
  <2>4. Prod!TypeOK'
    BY <2>2, <2>3, Zenon
  <2>5. ProdMutexHeld' /\ Unborn'
    BY <1>4, <2>2, <2>3, SMTT(30) DEF Prod!PUnlock
  <2>6. Prod!NoLostWakeup'
    BY <2>2, <2>3, Zenon
  <2> QED
    BY <2>4, <2>5, <2>6, Zenon
<1>5. CASE Prod!PSignal(p)
  <2>1. /\ \A q \in Prod!Producers : q # p => prod'[q] = prod[q]
        /\ prod[p].pc = "signal" /\ prod'[p].pc = "loop"
        /\ pc' = (IF pc = "asleep" THEN "relock" ELSE pc)
        /\ UNCHANGED <<prog, mtx, avail, created, totRequired, numConsumed, done>>
    BY <1>5, Zenon DEF Prod!PSignal
  <2>2. Prod!TypeOK'
    BY <1>5 DEF Prod!PSignal
  <2>3. ProdMutexHeld' /\ Unborn'
    BY <2>1, ZenonT(30)
  <2>4. Prod!NoLostWakeup'
    BY <2>1, Zenon
  <2> QED
    BY <2>2, <2>3, <2>4, Zenon
<1> QED
  BY <1>1, <1>2, <1>3, <1>4, <1>5, ZenonT(30) DEF Prod!producer

\* The steps of the main thread keep the invariant.
LEMMA ProdMainIInv == ASSUME Prod!ProdAssumption, ProdIInv, Prod!MainStep \/ Prod!MSpurious PROVE ProdIInv'
<1> USE ProdNumbered DEF ProdIInv, Prod!TypeOK, Prod!PPcs, Prod!MPcs, ProdMutexHeld, Unborn, Prod!NoLostWakeup, Prod!Main, Prod!NoOne, Prod!Polling
<1>1. CASE Prod!MCreate
  <2>1. CASE created < Len(Counts)
    <3> DEFINE q == created + 1
    <3>1. q \in Prod!Producers /\ q \in 1..Len(Counts) /\ Counts[q] \in Nat /\ prod[q].pc = "unborn"
      BY <2>1, SMTT(30)
    <3>2. /\ created' = q /\ totRequired' = totRequired + Counts[q]
          /\ prod' = [prod EXCEPT ![q].pc = "loop"]
          /\ UNCHANGED <<prog, mtx, avail, pc, numConsumed, done>> /\ pc = "create"
      BY <1>1, <2>1, Zenon DEF Prod!MCreate
    <3> HIDE DEF q
    <3>3. Prod!TypeOK'
      <4>1. created' \in 0..Len(Counts) /\ totRequired' \in Nat
        BY <3>1, <3>2
      <4>2. prod' \in [Prod!Producers -> [pc : Prod!PPcs, j : Nat]]
        BY <3>1, <3>2, SMTT(30)
      <4> QED
        BY <3>2, <4>1, <4>2, Zenon
    <3>4. ProdMutexHeld' /\ Prod!NoLostWakeup'
      BY <3>1, <3>2, Zenon
    <3>5. Unborn'
      BY <3>1, <3>2, SMTT(30) DEF q
    <3> QED
      BY <3>3, <3>4, <3>5, Zenon
  <2>2. CASE ~(created < Len(Counts))
    BY <1>1, <2>2, Zenon DEF Prod!MCreate
  <2> QED
    BY <2>1, <2>2, Zenon
<1>2. CASE Prod!MLock
  BY <1>2, Zenon DEF Prod!MLock
<1>3. CASE Prod!MWait
  BY <1>3 DEF Prod!MWait
<1>4. CASE Prod!MPoll
  BY <1>4, Zenon DEF Prod!MPoll
<1>5. CASE Prod!MGo
  BY <1>5, Zenon DEF Prod!MGo
<1>6. CASE Prod!MConsume
  BY <1>6 DEF Prod!MConsume
<1>7. CASE Prod!MUnlock
  BY <1>7 DEF Prod!MUnlock
<1>8. CASE Prod!MSpurious
  BY <1>8, Zenon DEF Prod!MSpurious
<1> QED
  BY <1>1, <1>2, <1>3, <1>4, <1>5, <1>6, <1>7, <1>8, Zenon DEF Prod!MainStep

\* Nothing happens.
LEMMA ProdStutterIInv == ASSUME ProdIInv, UNCHANGED Prod!vars PROVE ProdIInv'
  BY Zenon DEF ProdIInv, Prod!TypeOK, ProdMutexHeld, Unborn, Prod!NoLostWakeup, Prod!vars, Prod!Polling

-----------------------------------------------------------------------------
(* Counting the units *)

\* The units that the producers created so far were asked for
Required == UNION {{p} \X (1..Counts[p]) : p \in 1..created}

\* A producer makes no more units than it was asked for.
InRange ==
    \A p \in Prod!Producers :
        /\ prod[p].j <= Counts[p]
        /\ prod[p].pc \in {"lock", "locked", "unlock", "signal"} => prod[p].j < Counts[p]
        /\ prod[p].pc = "unborn" => prod[p].j = 0

\* The counters count units made and units required.
Counted ==
    /\ IsFiniteSet(Prod!MadeUnits) /\ avail + numConsumed = Cardinality(Prod!MadeUnits)
    /\ IsFiniteSet(Required) /\ totRequired = Cardinality(Required)

\* done is set when all producers exist and as many units are consumed.
Ending ==
    /\ pc # "create" => created = Len(Counts)
    /\ done => pc # "create" /\ numConsumed >= totRequired
    /\ pc = "exit" => done

ProdCInv == InRange /\ Counted /\ Ending

\* The units made, one by one
LEMMA Units ==
    /\ \A u : u \in Prod!MadeUnits <=> \E p \in Prod!Producers : \E n \in 1..Prod!Made(p) : u = <<p, n>>
    /\ \A u : u \in Required <=> \E p \in 1..created : \E n \in 1..Counts[p] : u = <<p, n>>
  BY DEF Prod!MadeUnits, Required

\* Steps that make no unit leave the units made as they are.
LEMMA SameMade ==
    ASSUME \A p \in Prod!Producers : Prod!Made(p)' = Prod!Made(p)
    PROVE  Prod!MadeUnits' = Prod!MadeUnits
  BY Zenon DEF Prod!MadeUnits

\* Nothing is made or required at the start.
LEMMA ProdInitCInv == ASSUME Prod!ProdAssumption, Prod!Init PROVE ProdCInv
<1>1. \A p \in Prod!Producers : Prod!Made(p) = 0
  BY DEF Prod!Init, Prod!Made
<1>2. Prod!MadeUnits = {}
  BY <1>1 DEF Prod!MadeUnits
<1>3. Required = {}
  BY DEF Prod!Init, Required
<1>4. Counted
  BY <1>2, <1>3, FS_EmptySet DEF Prod!Init, Counted
<1>5. InRange /\ Ending
  BY ProdNumbered DEF Prod!Init, InRange, Ending
<1> QED
  BY <1>4, <1>5, Zenon DEF ProdCInv

\* The steps of a producer keep the count.
LEMMA ProducerCInv ==
    ASSUME Prod!ProdAssumption, ProdIInv, ProdCInv, NEW p \in Prod!Producers, Prod!producer(p) PROVE ProdCInv'
<1>1. /\ prod \in [Prod!Producers -> [pc : Prod!PPcs, j : Nat]] /\ Counts[p] \in Nat
      /\ avail \in Nat /\ numConsumed \in Nat /\ totRequired \in Nat
  BY ProdNumbered, Zenon DEF ProdIInv, Prod!TypeOK
<1>2. UNCHANGED <<created, totRequired, numConsumed, done>> /\ Required' = Required
  BY Zenon DEF Prod!producer, Prod!PLoop, Prod!PLock, Prod!PProduce, Prod!PUnlock, Prod!PSignal, Prod!mainVars, Required
<1>3. Ending'
  BY <1>2, Zenon DEF ProdCInv, Ending, Prod!producer, Prod!PLoop, Prod!PLock, Prod!PProduce, Prod!PUnlock, Prod!PSignal, Prod!mainVars
<1>4. \A q \in Prod!Producers : q # p => prod'[q] = prod[q] /\ Prod!Made(q)' = Prod!Made(q)
  BY <1>1, Zenon DEF Prod!producer, Prod!PLoop, Prod!PLock, Prod!PProduce, Prod!PUnlock, Prod!PSignal, Prod!Goto, Prod!Made
<1>5. /\ prod'[p].j <= Counts[p]
      /\ prod'[p].pc \in {"lock", "locked", "unlock", "signal"} => prod'[p].j < Counts[p]
      /\ prod'[p].pc = "unborn" => prod'[p].j = 0
  BY <1>1 DEF ProdCInv, InRange, Prod!producer, Prod!PLoop, Prod!PLock, Prod!PProduce, Prod!PUnlock, Prod!PSignal, Prod!Goto
<1>6. InRange'
  BY <1>4, <1>5, Zenon DEF ProdCInv, InRange
<1>7. CASE Prod!PProduce(p)
  <2> DEFINE u == <<p, Prod!Made(p) + 1>>
  <2>1. Prod!Made(p)' = Prod!Made(p) + 1 /\ Prod!Made(p) \in Nat /\ avail' = avail + 1
    BY <1>1, <1>7 DEF Prod!PProduce, Prod!Goto, Prod!Made
  <2>2. u \notin Prod!MadeUnits
    BY <2>1, Units
  <2>3. Prod!MadeUnits' = Prod!MadeUnits \cup {u}
    <3>1. ASSUME NEW x PROVE x \in Prod!MadeUnits' <=> x \in Prod!MadeUnits \/ x = u
      <4>1. x \in Prod!MadeUnits' <=> \E q \in Prod!Producers : \E n \in 1..Prod!Made(q)' : x = <<q, n>>
        BY DEF Prod!MadeUnits
      <4>2. \A n : n \in 1..Prod!Made(p)' <=> n \in 1..Prod!Made(p) \/ n = Prod!Made(p) + 1
        BY <2>1
      <4> QED
        BY <1>4, <4>1, <4>2, Units
    <3> QED
      BY <3>1, Zenon
  <2>4. IsFiniteSet(Prod!MadeUnits') /\ Cardinality(Prod!MadeUnits') = Cardinality(Prod!MadeUnits) + 1
    BY <2>2, <2>3, FS_AddElement, Zenon DEF ProdCInv, Counted
  <2>5. Counted'
    BY <1>1, <1>2, <2>1, <2>4 DEF ProdCInv, Counted
  <2> QED
    BY <1>3, <1>6, <2>5, Zenon DEF ProdCInv
<1>8. CASE ~Prod!PProduce(p)
  <2>1. Prod!Made(p)' = Prod!Made(p) /\ UNCHANGED avail
    BY <1>1, <1>8 DEF Prod!producer, Prod!PLoop, Prod!PLock, Prod!PUnlock, Prod!PSignal, Prod!Goto, Prod!Made, Prod!PPcs
  <2>2. Prod!MadeUnits' = Prod!MadeUnits
    BY <1>4, <2>1, SameMade, Zenon
  <2>3. Counted'
    BY <1>2, <2>1, <2>2, Zenon DEF ProdCInv, Counted
  <2> QED
    BY <1>3, <1>6, <2>3, Zenon DEF ProdCInv
<1> QED
  BY <1>7, <1>8, Zenon

\* A producer that is asked for c units is asked for c pairs.
LEMMA UnitsOf ==
    ASSUME NEW p, NEW c \in Nat
    PROVE  IsFiniteSet({p} \X (1..c)) /\ Cardinality({p} \X (1..c)) = c
<1>1. 1 \in Int /\ c \in Int
  OBVIOUS
<1>2. IsFiniteSet(1..c) /\ Cardinality(1..c) = IF 1 > c THEN 0 ELSE c - 1 + 1
  BY <1>1, FS_Interval, Zenon
<1>3. Cardinality(1..c) = c
  BY <1>2
<1>4. IsFiniteSet({p}) /\ Cardinality({p}) = 1
  BY FS_Singleton, Zenon
<1>5. IsFiniteSet({p} \X (1..c)) /\ Cardinality({p} \X (1..c)) = Cardinality({p}) * Cardinality(1..c)
  BY <1>2, <1>4, FS_Product, Zenon
<1>6. Cardinality({p} \X (1..c)) = 1 * c
  BY <1>3, <1>4, <1>5, Zenon
<1> QED
  BY <1>5, <1>6

\* A new producer is required to make what it was asked for.
LEMMA CreateCInv ==
    ASSUME Prod!ProdAssumption, ProdIInv, ProdCInv, Prod!MCreate, created < Len(Counts) PROVE ProdCInv'
<1> DEFINE q == created + 1
           new == {q} \X (1..Counts[q])
<1>1. /\ q \in Prod!Producers /\ q \notin 1..created /\ 1..(created + 1) = (1..created) \cup {q}
      /\ Counts[q] \in Nat /\ prod[q].pc = "unborn" /\ created \in Nat
  BY ProdNumbered DEF ProdIInv, Prod!TypeOK, Unborn
<1>2. /\ created' = q /\ totRequired' = totRequired + Counts[q]
      /\ prod' = [prod EXCEPT ![q].pc = "loop"] /\ pc = "create"
      /\ UNCHANGED <<prog, mtx, avail, pc, numConsumed, done>>
  BY Zenon DEF Prod!MCreate
<1> HIDE DEF q
<1>3. /\ \A p \in Prod!Producers : p # q => prod'[p] = prod[p]
      /\ prod'[q].j = prod[q].j /\ prod'[q].pc = "loop"
  BY <1>1, <1>2, Zenon DEF ProdIInv, Prod!TypeOK
<1>4. Prod!MadeUnits' = Prod!MadeUnits
  <2>1. \A p \in Prod!Producers : Prod!Made(p)' = Prod!Made(p)
    BY <1>1, <1>3, Zenon DEF Prod!Made
  <2> QED
    BY <2>1, SameMade, Zenon
<1>5. IsFiniteSet(new) /\ Cardinality(new) = Counts[q]
  BY <1>1, UnitsOf, ZenonT(30)
<1>6. Required' = Required \cup new /\ Required \cap new = {}
  BY <1>1, <1>2 DEF Required, q
<1>7. IsFiniteSet(Required') /\ Cardinality(Required') = Cardinality(Required) + Counts[q]
  <2>1. Cardinality(Required \cap new) = 0
    BY <1>6, FS_EmptySet, Zenon
  <2>2. Cardinality(Required) \in Nat
    BY FS_CardinalityType, Zenon DEF ProdCInv, Counted
  <2>3. IsFiniteSet(Required \cup new)
        /\ Cardinality(Required \cup new) = Cardinality(Required) + Counts[q] - Cardinality(Required \cap new)
    BY <1>5, FS_Union DEF ProdCInv, Counted
  <2> HIDE DEF new
  <2> QED
    BY <1>1, <1>6, <2>1, <2>2, <2>3
<1>8. Counted'
  BY <1>2, <1>4, <1>7, Zenon DEF ProdCInv, Counted
<1>9. InRange'
  BY <1>1, <1>3, Zenon DEF ProdCInv, InRange
<1>10. Ending'
  BY <1>2, Zenon DEF ProdCInv, Ending
<1> QED
  BY <1>8, <1>9, <1>10, Zenon DEF ProdCInv

\* The steps of the main thread keep the count.
LEMMA ProdMainCInv == ASSUME Prod!ProdAssumption, ProdIInv, ProdCInv, Prod!MainStep \/ Prod!MSpurious PROVE ProdCInv'
<1>1. CASE Prod!MCreate /\ created < Len(Counts)
  BY <1>1, CreateCInv, Zenon
<1>2. CASE ~(Prod!MCreate /\ created < Len(Counts))
  <2>1. UNCHANGED <<prod, created, totRequired>>
    BY <1>2, Zenon DEF Prod!MainStep, Prod!MCreate, Prod!MLock, Prod!MWait, Prod!MPoll, Prod!MGo, Prod!MConsume, Prod!MUnlock, Prod!MSpurious
  <2>2. Prod!MadeUnits' = Prod!MadeUnits /\ Required' = Required /\ InRange'
    BY <2>1, Zenon DEF Prod!MadeUnits, Prod!Made, Required, ProdCInv, InRange
  <2>3. avail' + numConsumed' = avail + numConsumed
    BY DEF Prod!MainStep, Prod!MCreate, Prod!MLock, Prod!MWait, Prod!MPoll, Prod!MGo, Prod!MConsume, Prod!MUnlock, Prod!MSpurious, ProdIInv, Prod!TypeOK
  <2>4. Counted'
    BY <2>1, <2>2, <2>3, Zenon DEF ProdCInv, Counted
  <2>5. Ending'
    BY <1>2, ProdNumbered DEF Prod!MainStep, Prod!MCreate, Prod!MLock, Prod!MWait, Prod!MPoll, Prod!MGo, Prod!MConsume, Prod!MUnlock, Prod!MSpurious,
       ProdIInv, Prod!TypeOK, ProdCInv, Ending
  <2> QED
    BY <2>2, <2>4, <2>5, Zenon DEF ProdCInv
<1> QED
  BY <1>1, <1>2, Zenon

\* Nothing happens.
LEMMA ProdStutterCInv == ASSUME ProdCInv, UNCHANGED Prod!vars PROVE ProdCInv'
<1>1. Prod!MadeUnits' = Prod!MadeUnits /\ Required' = Required
  BY Zenon DEF Prod!vars, Prod!MadeUnits, Prod!Made, Required
<1> QED
  BY <1>1, Zenon DEF Prod!vars, ProdCInv, InRange, Counted, Ending

\* The module's Cardinality is the one the theorems about finite sets are about.
LEMMA ProdCardinality == ASSUME NEW S PROVE Prod!Cardinality(S) = Cardinality(S)
  BY Zenon DEF Prod!Cardinality, Cardinality

\* The units made are among those asked for; if main exits, it has consumed as many.
LEMMA ProdIInvImplies ==
    ASSUME Prod!ProdAssumption, ProdIInv, ProdCInv PROVE Prod!TypeOK /\ Prod!NoLostWakeup /\ Prod!AllConsumed
<1>1. avail + numConsumed = Cardinality(Prod!MadeUnits)
  BY Zenon DEF ProdCInv, Counted
<1>2. ASSUME pc = "exit" PROVE numConsumed = Cardinality(Prod!AskedUnits)
  <2>1. Required = Prod!AskedUnits
    BY <1>2, ProdNumbered, Zenon DEF ProdCInv, Ending, Required, Prod!AskedUnits
  <2>2. Prod!MadeUnits \subseteq Prod!AskedUnits
    <3>1. ASSUME NEW p \in Prod!Producers PROVE Prod!Made(p) <= Counts[p] /\ Prod!Made(p) \in Nat /\ Counts[p] \in Nat
      BY ProdNumbered DEF ProdIInv, Prod!TypeOK, ProdCInv, InRange, Prod!Made
    <3>2. ASSUME NEW p \in Prod!Producers PROVE 1..Prod!Made(p) \subseteq 1..Counts[p]
      BY <3>1
    <3> QED
      BY <3>2 DEF Prod!MadeUnits, Prod!AskedUnits
  <2>3. /\ Cardinality(Prod!MadeUnits) <= Cardinality(Prod!AskedUnits)
        /\ Cardinality(Prod!MadeUnits) \in Nat /\ Cardinality(Prod!AskedUnits) \in Nat
    BY <2>1, <2>2, FS_Subset, FS_CardinalityType, Zenon DEF ProdCInv, Counted
  <2>4. numConsumed >= Cardinality(Prod!AskedUnits)
    BY <1>2, <2>1, Zenon DEF ProdCInv, Ending, Counted
  <2> QED
    BY <1>1, <2>3, <2>4 DEF ProdIInv, Prod!TypeOK
<1> QED
  BY <1>1, <1>2, ProdCardinality, Zenon DEF ProdIInv, Prod!AllConsumed

-----------------------------------------------------------------------------

\* No step loses the invariant.
LEMMA ProdNextIInv == ASSUME Prod!ProdAssumption, ProdIInv, ProdCInv, [Prod!Next]_(Prod!vars) PROVE ProdIInv' /\ ProdCInv'
<1>1. CASE Prod!MainStep \/ Prod!MSpurious
  BY <1>1, ProdMainIInv, ProdMainCInv, Zenon
<1>2. ASSUME NEW p \in Prod!Producers, Prod!producer(p) PROVE ProdIInv' /\ ProdCInv'
  BY <1>2, ProducerIInv, ProducerCInv, Zenon
<1>3. CASE UNCHANGED Prod!vars
  BY <1>3, ProdStutterIInv, ProdStutterCInv, Zenon
<1> QED
  BY <1>1, <1>2, <1>3, Zenon DEF Prod!Next

\* The invariant holds throughout.
LEMMA ProdInvariant == ASSUME Prod!ProdAssumption PROVE Prod!Spec => [](ProdIInv /\ ProdCInv)
  BY ProdInitIInv, ProdInitCInv, ProdNextIInv, PTL DEF Prod!Spec

\* The main thread never sleeps over a unit that nobody will signal, although
\* producers signal after they have released the mutex.
THEOREM ProdWakeupNotLost == ASSUME Prod!ProdAssumption PROVE Prod!Spec => []Prod!NoLostWakeup
  BY ProdInvariant, ProdIInvImplies, PTL

\* Units are neither lost nor counted twice, and main exits only when all the
\* units of the command line are consumed, with a condition variable or without.
THEOREM UnitsConsumed == ASSUME Prod!ProdAssumption PROVE Prod!Spec => []Prod!AllConsumed
  BY ProdInvariant, ProdIInvImplies, PTL

-----------------------------------------------------------------------------
(* thread_incr.c and its kin *)

Increments == (Threads \X (0 .. prog.outer - 1)) \X (0 .. prog.inner - 1)

Made ==
    {i \in Increments :
        LET t == i[1][1] IN
            i[1][2] < thr[t].j \/ (i[1][2] = thr[t].j /\ i[2] < thr[t].k)}

\* Where the threads are in their loops
Placed ==
    /\ prog \in Programs
    /\ glob \in INT_MIN .. INT_MAX /\ lock \in Threads \cup {NoOne} /\ printed \in BOOLEAN
    /\ thr \in [Threads -> [pc : {"loop", "load", "store"}, j : Nat, k : Nat, loc : Int]]
    /\ \A t \in Threads :
         /\ thr[t].j <= prog.outer /\ thr[t].k <= prog.inner
         /\ thr[t].pc = "loop" => thr[t].k = 0
         /\ thr[t].pc \in {"load", "store"} => thr[t].j < prog.outer
         /\ thr[t].pc = "store" => thr[t].k < prog.inner
    /\ printed => \A t \in Threads : Ended(t)

\* The lock is held around the increments, and glob is their number.
LockedInv ==
    prog.locked =>
        /\ \A t \in Threads : thr[t].pc \in {"load", "store"} <=> lock = t
        /\ \A t \in Threads : thr[t].pc = "store" => thr[t].loc = glob
        /\ glob = Wrap(Cardinality(Made))

\* No thread has seen more increments than were made.
AtMost ==
    ~prog.locked /\ Asked <= INT_MAX =>
        /\ 0 <= glob /\ glob <= Cardinality(Made)
        /\ \A t \in Threads : 0 <= thr[t].loc /\ thr[t].loc <= Cardinality(Made)

\* A thread that has made an increment sees one.
AtLeast ==
    ~prog.locked /\ Asked <= INT_MAX =>
        /\ \A t \in Threads : thr[t].j > 0 \/ thr[t].k > 0 => glob >= 1
        /\ \A t \in Threads : thr[t].pc = "store" /\ thr[t].j > 0 => thr[t].loc >= 1
        /\ prog.outer >= 2 /\ (\A t \in Threads : thr[t].j + thr[t].k >= prog.outer) => glob >= 2

IInv == Placed /\ LockedInv /\ AtMost /\ AtLeast

-----------------------------------------------------------------------------
(* Arithmetic of int *)

\* The remainder of what is small enough, and of the divisor itself
LEMMA RemainderOfSmall ==
    ASSUME NEW m \in Nat \ {0}
    PROVE  m % m = 0 /\ \A r \in 0 .. m - 1 : r % m = r
  OBVIOUS

\* There is one remainder.
LEMMA Remainder ==
    ASSUME NEW m \in Nat \ {0}, NEW q \in Int, NEW r \in 0 .. m - 1, NEW z \in Int, z = m * q + r
    PROVE  z % m = r
<1>1. z % m \in 0 .. m - 1 /\ z = m * (z \div m) + (z % m) /\ z \div m \in Int
  OBVIOUS
<1> DEFINE d == q - (z \div m)
<1>2. m * d = (z % m) - r
  BY <1>1
<1>3. d \in Int
  BY <1>1
<1> HIDE DEF d
<1>4. d < 1
  <2> SUFFICES ASSUME d >= 1 PROVE FALSE
    BY <1>3
  <2>1. m * d >= m
    BY <1>3
  <2> QED
    BY <1>1, <1>2, <2>1
<1>5. d > -1
  <2> SUFFICES ASSUME d <= -1 PROVE FALSE
    BY <1>3
  <2>1. m * d <= -m
    BY <1>3
  <2> QED
    BY <1>1, <1>2, <2>1
<1>6. d = 0
  BY <1>3, <1>4, <1>5
<1> QED
    BY <1>1, <1>2, <1>6

\* Wrapping before or after the increment is the same.
LEMMA RemainderOfNext ==
    ASSUME NEW m \in Nat \ {0}, NEW y \in Int PROVE ((y % m) + 1) % m = (y + 1) % m
<1> DEFINE r == y % m
           q == y \div m
<1>1. r \in 0 .. m - 1 /\ y = m * q + r /\ q \in Int
  OBVIOUS
<1> HIDE DEF r, q
<1>2. CASE r + 1 < m
  <2>1. y + 1 = m * q + (r + 1) /\ r + 1 \in 0 .. m - 1 /\ r + 1 = m * 0 + (r + 1) /\ 0 \in Int /\ r + 1 \in Int /\ y + 1 \in Int
    BY <1>1, <1>2
  <2>2. (y + 1) % m = r + 1
    BY <1>1, <2>1, Remainder
  <2>3. (r + 1) % m = r + 1
    BY <2>1, Remainder
  <2> QED
    BY <2>2, <2>3, Zenon DEF r
<1>3. CASE r + 1 = m
  <2>1. q + 1 \in Int /\ m * (q + 1) = m * q + m
    BY <1>1
  <2>2. y + 1 = m * (q + 1) + 0 /\ 0 \in 0 .. m - 1 /\ y + 1 \in Int
    BY <1>1, <1>3, <2>1
  <2>3. (y + 1) % m = 0
    <3> DEFINE z == y + 1
               p == q + 1
    <3> HIDE DEF z, p
    <3>1. p \in Int /\ 0 \in 0 .. m - 1 /\ z \in Int /\ z = m * p + 0
      BY <2>1, <2>2, Zenon DEF z, p
    <3>2. z % m = 0
      BY <3>1, Remainder
    <3> QED
      BY <3>2, Zenon DEF z
  <2>4. (r + 1) % m = 0
    BY <1>3, RemainderOfSmall, Zenon
  <2> QED
    BY <2>3, <2>4, Zenon DEF r
<1> QED
    BY <1>1, <1>2, <1>3

\* Wrap() gives an int, keeps an int, and may be applied at every increment.
LEMMA Wrapping ==
    ASSUME IncrAssumption, NEW i \in Int
    PROVE  /\ Wrap(i) \in INT_MIN .. INT_MAX
           /\ i \in INT_MIN .. INT_MAX => Wrap(i) = i
           /\ Wrap(Wrap(i) + 1) = Wrap(i + 1)
<1> DEFINE m == 2 * (INT_MAX + 1)
           y == i - INT_MIN
<1>1. /\ m \in Nat \ {0} /\ INT_MIN \in Int /\ INT_MAX \in Nat /\ y \in Int
      /\ INT_MIN + m = INT_MAX + 1
  BY DEF IncrAssumption, INT_MIN
<1>2. Wrap(i) = INT_MIN + (y % m) /\ Wrap(i + 1) = INT_MIN + (((i + 1) - INT_MIN) % m)
  BY Zenon DEF Wrap
<1>3. Wrap(Wrap(i) + 1) = INT_MIN + (((Wrap(i) + 1) - INT_MIN) % m)
  BY Zenon DEF Wrap
<1> HIDE DEF m, y
<1>4. y % m \in 0 .. m - 1
  BY <1>1
<1>5. Wrap(i) \in INT_MIN .. INT_MAX
  BY <1>1, <1>2, <1>4
<1>6. ASSUME i \in INT_MIN .. INT_MAX PROVE Wrap(i) = i
  <2>1. y \in 0 .. m - 1
    BY <1>1, <1>6 DEF y
  <2>2. y % m = y
    BY <1>1, <2>1, RemainderOfSmall, Zenon
  <2> QED
    BY <1>1, <1>2, <2>2 DEF y
<1>7. Wrap(Wrap(i) + 1) = Wrap(i + 1)
  <2>1. (Wrap(i) + 1) - INT_MIN = (y % m) + 1 /\ (i + 1) - INT_MIN = y + 1
    BY <1>1, <1>2, <1>4 DEF y
  <2>2. ((y % m) + 1) % m = (y + 1) % m
    BY <1>1, RemainderOfNext, Zenon
  <2> QED
    BY <1>2, <1>3, <2>1, <2>2, Zenon
<1> QED
  BY <1>5, <1>6, <1>7, Zenon

-----------------------------------------------------------------------------
(* Counting the increments *)

\* The sizes of a program; those without a lock make one increment at a time.
LEMMA Sizes ==
    ASSUME IncrAssumption, prog \in Programs
    PROVE  /\ prog.threads \in Nat /\ prog.outer \in Nat /\ prog.inner \in Nat
           /\ prog.locked \in BOOLEAN
           /\ ~prog.locked => prog.inner = 1 /\ prog.threads >= 1
           /\ Threads = 1 .. prog.threads /\ NoOne \notin Threads
<1>1. prog \in {Program(2, FALSE, Loops, 1), Program(PEER_NUM, FALSE, Loops, 1),
               Program(2, TRUE, Loops, 1), Program(NumThreads, TRUE, numOuterLoops, numInnerLoops)}
  BY Zenon DEF Programs, thread_incr, ythread_incr, exr3001, thread_incr_mutex, ythread_incr_mutex,
         thread_incr_rwlock, thread_incr_spinlock, thread_incr_psem, thread_lock_speed
<1>2. /\ prog.threads \in Nat /\ prog.outer \in Nat /\ prog.inner \in Nat
      /\ prog.locked \in BOOLEAN
      /\ ~prog.locked => prog.inner = 1 /\ prog.threads >= 1
  <2>1. CASE prog = Program(2, FALSE, Loops, 1)
    BY <2>1 DEF IncrAssumption, Program
  <2>2. CASE prog = Program(PEER_NUM, FALSE, Loops, 1)
    BY <2>2 DEF IncrAssumption, Program
  <2>3. CASE prog = Program(2, TRUE, Loops, 1)
    BY <2>3, Zenon DEF IncrAssumption, Program
  <2>4. CASE prog = Program(NumThreads, TRUE, numOuterLoops, numInnerLoops)
    BY <2>4, Zenon DEF IncrAssumption, Program
  <2> QED
    BY <1>1, <2>1, <2>2, <2>3, <2>4, Zenon
<1> QED
  BY <1>2 DEF Threads, NoOne

\* There are n numbers from 0 on.
LEMMA FromZero ==
    ASSUME NEW n \in Nat
    PROVE  IsFiniteSet(0 .. n - 1) /\ Cardinality(0 .. n - 1) = n
<1>1. 0 \in Int /\ n - 1 \in Int
  OBVIOUS
<1>2. /\ IsFiniteSet(0 .. n - 1)
      /\ Cardinality(0 .. n - 1) = IF 0 > n - 1 THEN 0 ELSE (n - 1) - 0 + 1
  BY <1>1, FS_Interval, Zenon
<1> QED
  BY <1>2

\* The threads are asked for threads * outer * inner increments.
LEMMA AskedFor ==
    ASSUME IncrAssumption, prog \in Programs
    PROVE  IsFiniteSet(Increments) /\ Cardinality(Increments) = Asked /\ Asked \in Nat
<1> DEFINE a == prog.threads
           b == prog.outer
           c == prog.inner
<1>1. a \in Nat /\ b \in Nat /\ c \in Nat /\ Threads = 1 .. a
  BY Sizes, Zenon
<1> HIDE DEF a, b, c
<1>2. IsFiniteSet(1 .. a) /\ Cardinality(1 .. a) = a
  <2>1. /\ IsFiniteSet(1 .. a)
        /\ Cardinality(1 .. a) = IF 1 > a THEN 0 ELSE a - 1 + 1
    BY <1>1, FS_Interval
  <2> QED
    BY <1>1, <2>1
<1>3. /\ IsFiniteSet(0 .. b - 1) /\ Cardinality(0 .. b - 1) = b
      /\ IsFiniteSet(0 .. c - 1) /\ Cardinality(0 .. c - 1) = c
  BY <1>1, FromZero, Zenon
<1> DEFINE P == (1 .. a) \X (0 .. b - 1)
<1>4. IsFiniteSet(P) /\ Cardinality(P) = a * b
  <2>1. IsFiniteSet(P) /\ Cardinality(P) = Cardinality(1 .. a) * Cardinality(0 .. b - 1)
    BY <1>2, <1>3, FS_Product, Zenon
  <2> QED
    BY <1>2, <1>3, <2>1, Zenon
<1> HIDE DEF P
<1>5. IsFiniteSet(P \X (0 .. c - 1)) /\ Cardinality(P \X (0 .. c - 1)) = (a * b) * c
  <2>1. /\ IsFiniteSet(P \X (0 .. c - 1))
        /\ Cardinality(P \X (0 .. c - 1)) = Cardinality(P) * Cardinality(0 .. c - 1)
    BY <1>3, <1>4, FS_Product, Zenon
  <2> QED
    BY <1>3, <1>4, <2>1, Zenon
<1>6. Increments = P \X (0 .. c - 1)
  BY <1>1, Zenon DEF Increments, P, b, c
<1>7. Asked = (a * b) * c
  BY Zenon DEF Asked, a, b, c
<1> QED
  BY <1>1, <1>5, <1>6, <1>7

\* Those made are some of them.
LEMMA MadeSome ==
    ASSUME IncrAssumption, prog \in Programs
    PROVE  /\ IsFiniteSet(Made) /\ Cardinality(Made) \in Nat /\ Cardinality(Made) <= Asked
           /\ \A i \in Increments : i \notin Made => Cardinality(Made) < Asked
<1>1. Made \in SUBSET Increments
  BY Zenon DEF Made
<1>2. /\ IsFiniteSet(Made) /\ Cardinality(Made) <= Asked
      /\ Cardinality(Made) = Asked => Made = Increments
  BY <1>1, AskedFor, FS_Subset, Zenon
<1>3. Cardinality(Made) \in Nat /\ Asked \in Nat
  BY <1>2, AskedFor, FS_CardinalityType, Zenon
<1> QED
  BY <1>2, <1>3

\* Increments made on all loops are all the increments.
LEMMA AllMade ==
    ASSUME IncrAssumption, Placed, \A t \in Threads : Ended(t)
    PROVE  Cardinality(Made) = Asked
<1>1. prog.outer \in Nat /\ prog \in Programs
  BY Sizes, Zenon DEF Placed
<1>2. Made = Increments
  BY <1>1 DEF Made, Increments, Ended, Placed
<1> QED
  BY <1>1, <1>2, AskedFor, Zenon

-----------------------------------------------------------------------------
(* The steps *)

\* No increment is made at the start.
LEMMA InitIInv == ASSUME IncrAssumption, Init PROVE IInv
<1>1. prog \in Programs /\ Threads = 1 .. prog.threads
  BY Zenon DEF Init, Threads
<1>2. INT_MIN \in Int /\ 0 \in INT_MIN .. INT_MAX /\ INT_MAX \in Nat
  BY DEF IncrAssumption, INT_MIN
<1>3. Placed
  <2>1. \A t \in Threads : thr[t] = [pc |-> "loop", j |-> 0, k |-> 0, loc |-> 0]
    BY <1>1, Zenon DEF Init
  <2>2. thr \in [Threads -> [pc : {"loop", "load", "store"}, j : Nat, k : Nat, loc : Int]]
    BY <1>1 DEF Init
  <2>3. prog.outer \in Nat /\ prog.inner \in Nat
    BY <1>1, Sizes, Zenon
  <2>4. glob \in INT_MIN .. INT_MAX /\ lock \in Threads \cup {NoOne} /\ printed = FALSE
    BY <1>2, Zenon DEF Init
  <2>5. \A t \in Threads :
          /\ thr[t].j <= prog.outer /\ thr[t].k <= prog.inner
          /\ thr[t].pc = "loop" => thr[t].k = 0
          /\ thr[t].pc \notin {"load", "store"}
    BY <2>1, <2>3
  <2> QED
    BY <1>1, <2>2, <2>4, <2>5, ZenonT(30) DEF Placed
<1>4. Made = {}
  BY <1>1, Sizes, SMTT(30) DEF Init, Made, Increments
<1>5. Cardinality(Made) = 0 /\ Wrap(0) = 0
  BY <1>2, <1>4, FS_EmptySet, Wrapping
<1>6. LockedInv
  BY <1>1, <1>5, Sizes, Zenon DEF Init, LockedInv
<1>7. AtMost /\ AtLeast
  <2>1. ~prog.locked => 1 \in Threads /\ thr[1].j + thr[1].k = 0
    BY <1>1, Sizes DEF Init
  <2> QED
    BY <1>1, <1>5, <2>1, Sizes DEF Init, AtMost, AtLeast
<1> QED
  BY <1>3, <1>6, <1>7, Zenon DEF IInv

\* What the steps of a thread have in common
LEMMA OneThread ==
    ASSUME IncrAssumption, Placed, NEW t \in Threads, threadFunc(t)
    PROVE  /\ UNCHANGED <<prog, printed>> /\ Threads' = Threads /\ Asked' = Asked
           /\ thr' \in [Threads -> [pc : {"loop", "load", "store"}, j : Nat, k : Nat, loc : Int]]
           /\ \A u \in Threads : u # t => thr'[u] = thr[u]
           /\ ~Ended(t) /\ ~printed
<1>1. /\ thr \in [Threads -> [pc : {"loop", "load", "store"}, j : Nat, k : Nat, loc : Int]]
      /\ glob \in Int /\ prog.inner \in Nat
  BY Sizes DEF Placed, IncrAssumption, INT_MIN
<1>2. UNCHANGED <<prog, printed>>
  BY Zenon DEF threadFunc, Lock, Load, Store, Unlock
<1>3. Threads' = Threads /\ Asked' = Asked
  BY <1>2, Zenon DEF Threads, Asked
<1>4. /\ thr' \in [Threads -> [pc : {"loop", "load", "store"}, j : Nat, k : Nat, loc : Int]]
      /\ \A u \in Threads : u # t => thr'[u] = thr[u]
  BY <1>1, SMTT(30) DEF threadFunc, Lock, Load, Store, Unlock
<1>5. ~Ended(t)
  BY <1>1, Sizes, SMTT(30) DEF threadFunc, Lock, Load, Store, Unlock, Ended, Placed
<1> QED
  BY <1>2, <1>3, <1>4, <1>5, Zenon DEF Placed

\* The steps other than a store make no increment.
LEMMA NoIncrement ==
    ASSUME IncrAssumption, Placed, NEW t \in Threads, Lock(t) \/ Load(t) \/ Unlock(t)
    PROVE  Made' = Made
<1>1. threadFunc(t)
  BY Zenon DEF threadFunc
<1>2. /\ UNCHANGED prog /\ Threads' = Threads /\ Increments' = Increments
      /\ \A u \in Threads : u # t => thr'[u] = thr[u]
  BY <1>1, OneThread, Zenon DEF Increments
<1>3. /\ thr[t] \in [pc : {"loop", "load", "store"}, j : Nat, k : Nat, loc : Int]
      /\ prog.inner \in Nat /\ thr[t].pc = "loop" => thr[t].k = 0
  BY Sizes, Zenon DEF Placed
<1>4. \/ thr'[t].j = thr[t].j /\ thr'[t].k = thr[t].k
      \/ thr'[t].j = thr[t].j + 1 /\ thr'[t].k = 0 /\ thr[t].k = prog.inner
  BY <1>3, SMTT(30) DEF Lock, Load, Unlock, Placed
<1>5. ASSUME NEW a \in Int, NEW b \in 0 .. prog.inner - 1
      PROVE  a < thr'[t].j \/ (a = thr'[t].j /\ b < thr'[t].k)
               <=> a < thr[t].j \/ (a = thr[t].j /\ b < thr[t].k)
  BY <1>3, <1>4, SMTT(30)
<1>6. ASSUME NEW i \in Increments PROVE i \in Made' <=> i \in Made
  <2>1. i[1][1] \in Threads /\ i[1][2] \in 0 .. prog.outer - 1 /\ i[2] \in 0 .. prog.inner - 1
    BY Zenon DEF Increments
  <2> QED
    BY <1>2, <1>5, <2>1, SMTT(30) DEF Made
<1> QED
  BY <1>2, <1>6, Zenon DEF Made

\* A store makes one.
LEMMA OneIncrement ==
    ASSUME IncrAssumption, Placed, NEW t \in Threads, Store(t)
    PROVE  Cardinality(Made') = Cardinality(Made) + 1 /\ Cardinality(Made) < Asked
<1> DEFINE n == <<<<t, thr[t].j>>, thr[t].k>>
<1>1. threadFunc(t)
  BY Zenon DEF threadFunc
<1>2. /\ UNCHANGED prog /\ Threads' = Threads /\ Increments' = Increments
      /\ \A u \in Threads : u # t => thr'[u] = thr[u]
  BY <1>1, OneThread, Zenon DEF Increments
<1>3. /\ thr[t] \in [pc : {"loop", "load", "store"}, j : Nat, k : Nat, loc : Int]
      /\ prog.inner \in Nat /\ prog.outer \in Nat
      /\ thr[t].j < prog.outer /\ thr[t].k < prog.inner
  BY Sizes, Zenon DEF Placed, Store
<1>4. thr'[t].j = thr[t].j /\ thr'[t].k = thr[t].k + 1
  BY <1>3, Zenon DEF Store, Placed
<1>5. n \in Increments /\ n \notin Made
  BY <1>3 DEF Increments, Made
<1>6. ASSUME NEW i \in Increments PROVE i \in Made' <=> i \in Made \/ i = n
  <2>1. /\ i[1][1] \in Threads /\ i[1][2] \in 0 .. prog.outer - 1 /\ i[2] \in 0 .. prog.inner - 1
        /\ i = n <=> i[1][1] = t /\ i[1][2] = thr[t].j /\ i[2] = thr[t].k
    BY SMTT(30) DEF Increments
  <2>2. CASE i[1][1] = t
    BY <1>2, <1>3, <1>4, <2>1, <2>2, SMTT(30) DEF Made
  <2>3. CASE i[1][1] # t
    BY <1>2, <2>1, <2>3, Zenon DEF Made
  <2> QED
    BY <2>2, <2>3, Zenon
<1>7. Made' = Made \cup {n}
  <2>1. Made \in SUBSET Increments /\ Made' \in SUBSET Increments
    BY <1>2, Zenon DEF Made
  <2> QED
    BY <1>5, <1>6, <2>1, ZenonT(30)
<1>8. IsFiniteSet(Made) /\ Cardinality(Made) < Asked
  BY <1>5, MadeSome, Zenon DEF Placed
<1> HIDE DEF n
<1>9. Cardinality(Made \cup {n}) = Cardinality(Made) + 1
  BY <1>5, <1>8, FS_AddElement, Zenon
<1> QED
  BY <1>7, <1>8, <1>9, Zenon

\* The steps of a thread keep the places.
LEMMA ThreadPlaced ==
    ASSUME IncrAssumption, Placed, NEW t \in Threads, threadFunc(t) PROVE Placed'
<1>1. /\ UNCHANGED <<prog, printed>> /\ Threads' = Threads /\ ~printed
      /\ thr' \in [Threads -> [pc : {"loop", "load", "store"}, j : Nat, k : Nat, loc : Int]]
      /\ \A u \in Threads : u # t => thr'[u] = thr[u]
  BY OneThread, Zenon
<1>2. /\ thr[t] \in [pc : {"loop", "load", "store"}, j : Nat, k : Nat, loc : Int]
      /\ prog.inner \in Nat /\ prog.outer \in Nat
      /\ thr[t].j <= prog.outer /\ thr[t].k <= prog.inner
      /\ thr[t].pc = "loop" => thr[t].k = 0
      /\ thr[t].pc \in {"load", "store"} => thr[t].j < prog.outer
      /\ thr[t].pc = "store" => thr[t].k < prog.inner
  BY Sizes, Zenon DEF Placed
<1>3. /\ thr'[t].j <= prog.outer /\ thr'[t].k <= prog.inner
      /\ thr'[t].pc = "loop" => thr'[t].k = 0
      /\ thr'[t].pc \in {"load", "store"} => thr'[t].j < prog.outer
      /\ thr'[t].pc = "store" => thr'[t].k < prog.inner
  <2>1. CASE Lock(t)
    BY <1>2, <2>1, Zenon DEF Lock, Placed
  <2>2. CASE Load(t)
    BY <1>2, <2>2, Zenon DEF Load, Placed
  <2>3. CASE Store(t)
    BY <1>2, <2>3 DEF Store, Placed
  <2>4. CASE Unlock(t)
    BY <1>2, <2>4 DEF Unlock, Placed
  <2> QED
    BY <2>1, <2>2, <2>3, <2>4, Zenon DEF threadFunc
<1>4. glob' \in INT_MIN .. INT_MAX
  <2>1. CASE Store(t)
    <3>1. glob' = Wrap(thr[t].loc + 1) /\ thr[t].loc + 1 \in Int
      BY <1>2, <2>1, SMTT(30) DEF Store
    <3> QED
      BY <3>1, Wrapping, Zenon
  <2>2. CASE ~Store(t)
    BY <2>2, Zenon DEF threadFunc, Lock, Load, Unlock, Placed
  <2> QED
    BY <2>1, <2>2, Zenon
<1>5. lock' \in Threads \cup {NoOne}
  BY Zenon DEF threadFunc, Lock, Load, Store, Unlock, Placed
<1> QED
  BY <1>1, <1>3, <1>4, <1>5, Zenon DEF Placed

\* Under the lock glob is one more after a store.
LEMMA ThreadLocked ==
    ASSUME IncrAssumption, IInv, NEW t \in Threads, threadFunc(t) PROVE LockedInv'
<1> SUFFICES ASSUME prog.locked
             PROVE  /\ \A u \in Threads : thr'[u].pc \in {"load", "store"} <=> lock' = u
                    /\ \A u \in Threads : thr'[u].pc = "store" => thr'[u].loc = glob'
                    /\ glob' = Wrap(Cardinality(Made'))
  BY OneThread, Zenon DEF IInv, LockedInv
<1>1. /\ \A u \in Threads : u # t => thr'[u] = thr[u]
      /\ thr[t] \in [pc : {"loop", "load", "store"}, j : Nat, k : Nat, loc : Int]
      /\ thr \in [Threads -> [pc : {"loop", "load", "store"}, j : Nat, k : Nat, loc : Int]]
      /\ NoOne \notin Threads
  BY OneThread, Sizes, ZenonT(30) DEF IInv, Placed
<1>2. /\ \A u \in Threads : thr[u].pc \in {"load", "store"} <=> lock = u
      /\ \A u \in Threads : thr[u].pc = "store" => thr[u].loc = glob
      /\ glob = Wrap(Cardinality(Made))
  BY Zenon DEF IInv, LockedInv
<1>3. CASE Lock(t)
  <2>1. Made' = Made
    BY <1>3, NoIncrement, Zenon DEF IInv
  <2> QED
    BY <1>1, <1>2, <1>3, <2>1 DEF Lock
<1>4. CASE Load(t)
  <2>1. Made' = Made
    BY <1>4, NoIncrement, Zenon DEF IInv
  <2> QED
    BY <1>1, <1>2, <1>4, <2>1, Zenon DEF Load
<1>5. CASE Store(t)
  <2>1. Cardinality(Made') = Cardinality(Made) + 1 /\ Cardinality(Made) \in Int
    BY <1>5, OneIncrement, MadeSome DEF IInv, Placed
  <2>2. glob' = Wrap(Wrap(Cardinality(Made)) + 1)
    BY <1>2, <1>5, Zenon DEF Store
  <2>3. glob' = Wrap(Cardinality(Made'))
    BY <2>1, <2>2, Wrapping, Zenon
  <2>4. thr'[t].pc = "load" /\ thr[t].pc = "store" /\ lock' = lock
    BY <1>1, <1>5, Zenon DEF Store
  <2> QED
    BY <1>1, <1>2, <2>3, <2>4, SMTT(30)
<1>6. CASE Unlock(t)
  <2>1. Made' = Made
    BY <1>6, NoIncrement, Zenon DEF IInv
  <2> QED
    BY <1>1, <1>2, <1>6, <2>1, SMTT(30) DEF Unlock
<1> QED
  BY <1>3, <1>4, <1>5, <1>6, Zenon DEF threadFunc

\* Without a lock glob and loc stay between what is known of them.
LEMMA ThreadUnlocked ==
    ASSUME IncrAssumption, IInv, NEW t \in Threads, threadFunc(t) PROVE AtMost' /\ AtLeast'
<1> SUFFICES ASSUME ~prog.locked, Asked <= INT_MAX
             PROVE  /\ 0 <= glob' /\ glob' <= Cardinality(Made')
                    /\ \A u \in Threads : 0 <= thr'[u].loc /\ thr'[u].loc <= Cardinality(Made')
                    /\ \A u \in Threads : thr'[u].j > 0 \/ thr'[u].k > 0 => glob' >= 1
                    /\ \A u \in Threads : thr'[u].pc = "store" /\ thr'[u].j > 0 => thr'[u].loc >= 1
                    /\ prog.outer >= 2 /\ (\A u \in Threads : thr'[u].j + thr'[u].k >= prog.outer)
                         => glob' >= 2
  BY OneThread, Zenon DEF IInv, AtMost, AtLeast
<1>1. /\ \A u \in Threads : u # t => thr'[u] = thr[u]
      /\ thr[t] \in [pc : {"loop", "load", "store"}, j : Nat, k : Nat, loc : Int]
      /\ thr \in [Threads -> [pc : {"loop", "load", "store"}, j : Nat, k : Nat, loc : Int]]
  BY OneThread, Zenon DEF IInv, Placed
<1>2. /\ 0 <= glob /\ glob <= Cardinality(Made) /\ glob \in Int
      /\ \A u \in Threads : 0 <= thr[u].loc /\ thr[u].loc <= Cardinality(Made)
      /\ Cardinality(Made) \in Nat /\ Asked \in Nat /\ INT_MAX \in Nat
  BY MadeSome, AskedFor DEF IInv, Placed, AtMost, INT_MIN, IncrAssumption
<1>3. /\ \A u \in Threads : thr[u].j > 0 \/ thr[u].k > 0 => glob >= 1
      /\ \A u \in Threads : thr[u].pc = "store" /\ thr[u].j > 0 => thr[u].loc >= 1
      /\ prog.outer >= 2 /\ (\A u \in Threads : thr[u].j + thr[u].k >= prog.outer) => glob >= 2
  BY Zenon DEF IInv, AtLeast
<1>4. prog.inner = 1 /\ prog.outer \in Nat /\ (thr[t].pc = "loop" => thr[t].k = 0)
      /\ thr[t].j <= prog.outer /\ (thr[t].pc = "store" => thr[t].k < 1)
  BY Sizes, Zenon DEF IInv, Placed
<1>5. CASE Store(t)
  <2>1. Cardinality(Made') = Cardinality(Made) + 1 /\ Cardinality(Made) < Asked
    BY <1>5, OneIncrement, Zenon DEF IInv
  <2>2. glob' = thr[t].loc + 1
    <3>1. thr[t].loc + 1 \in INT_MIN .. INT_MAX
      BY <1>1, <1>2, <2>1, SMTT(30) DEF INT_MIN
    <3>2. thr[t].loc + 1 \in Int
      BY <1>1
    <3>3. glob' = Wrap(thr[t].loc + 1)
      BY <1>5, Zenon DEF Store
    <3> QED
      BY <3>1, <3>2, <3>3, Wrapping, Zenon
  <2>3. /\ thr[t].pc = "store" /\ thr[t].k = 0 /\ thr'[t].pc = "load" /\ thr'[t].j = thr[t].j
        /\ thr'[t].k = 1 /\ thr'[t].loc = thr[t].loc
    BY <1>1, <1>4, <1>5, SMTT(30) DEF Store
  <2>4. /\ 0 <= glob' /\ glob' <= Cardinality(Made') /\ glob' >= 1
        /\ \A u \in Threads : 0 <= thr'[u].loc /\ thr'[u].loc <= Cardinality(Made')
    BY <1>1, <1>2, <2>1, <2>2, <2>3, SMTT(30)
  <2>5. \A u \in Threads : thr'[u].pc = "store" /\ thr'[u].j > 0 => thr'[u].loc >= 1
    BY <1>1, <1>3, <2>3, Zenon
  <2>6. prog.outer >= 2 /\ thr'[t].j + thr'[t].k >= prog.outer => glob' >= 2
    BY <1>1, <1>3, <1>4, <2>2, <2>3, SMTT(30)
  <2> QED
    BY <2>4, <2>5, <2>6, Zenon
<1>6. CASE ~Store(t)
  <2>1. Made' = Made
    BY <1>6, NoIncrement, Zenon DEF threadFunc, IInv
  <2>2. glob' = glob
    BY <1>6, Zenon DEF threadFunc, Lock, Load, Unlock
  <2>3. /\ thr'[t].loc = thr[t].loc \/ thr'[t].loc = glob
        /\ thr'[t].pc = "store" => thr'[t].loc = glob
        /\ \/ thr'[t].j = thr[t].j /\ thr'[t].k = thr[t].k
           \/ thr'[t].j = thr[t].j + 1 /\ thr'[t].k = 0 /\ thr[t].k = 1
    BY <1>1, <1>4, <1>6, SMTT(30) DEF threadFunc, Lock, Load, Unlock
  <2>4. /\ thr'[t].j + thr'[t].k = thr[t].j + thr[t].k
        /\ thr'[t].j > 0 \/ thr'[t].k > 0 => thr[t].j > 0 \/ thr[t].k > 0
    BY <1>1, <2>3, SMTT(30)
  <2>5. \A u \in Threads : 0 <= thr'[u].loc /\ thr'[u].loc <= Cardinality(Made')
    BY <1>1, <1>2, <2>1, <2>3, Zenon
  <2>6. \A u \in Threads : thr'[u].j > 0 \/ thr'[u].k > 0 => glob' >= 1
    BY <1>1, <1>3, <2>2, <2>4, Zenon
  <2>7. \A u \in Threads : thr'[u].pc = "store" /\ thr'[u].j > 0 => thr'[u].loc >= 1
    BY <1>1, <1>3, <2>2, <2>3, <2>6, Zenon
  <2>8. \A u \in Threads : thr'[u].j + thr'[u].k = thr[u].j + thr[u].k
    BY <1>1, <2>4, Zenon
  <2> QED
    BY <1>2, <1>3, <2>1, <2>2, <2>5, <2>6, <2>7, <2>8, ZenonT(30)
<1> QED
  BY <1>5, <1>6, Zenon

\* No step loses the invariant.
LEMMA NextIInv == ASSUME IncrAssumption, IInv, [Next]_vars PROVE IInv'
<1>1. ASSUME NEW t \in Threads, threadFunc(t) PROVE IInv'
  BY <1>1, ThreadPlaced, ThreadLocked, ThreadUnlocked, Zenon DEF IInv
<1>2. CASE Report \/ UNCHANGED vars
  <2>1. /\ UNCHANGED <<prog, glob, lock, thr>>
        /\ printed' = printed \/ (printed' = TRUE /\ \A t \in Threads : Ended(t))
    BY <1>2, Zenon DEF Report, vars
  <2>2. Threads' = Threads /\ Made' = Made /\ Asked' = Asked
    BY <2>1, Zenon DEF Threads, Made, Increments, Asked
  <2>3. printed' \in BOOLEAN /\ (printed' => \A t \in Threads : Ended(t)')
    <3>1. \A t \in Threads : Ended(t)' <=> Ended(t)
      BY <2>1, Zenon DEF Ended
    <3>2. printed \in BOOLEAN /\ (printed => \A t \in Threads : Ended(t))
      BY Zenon DEF IInv, Placed
    <3>3. CASE printed' = printed
      BY <3>1, <3>2, <3>3, Zenon
    <3>4. CASE printed' = TRUE /\ \A t \in Threads : Ended(t)
      BY <3>1, <3>4, Zenon
    <3> QED
      BY <2>1, <3>3, <3>4, ZenonT(30)
  <2>4. Placed'
    BY <2>1, <2>2, <2>3, Zenon DEF IInv, Placed
  <2>5. LockedInv' /\ AtMost' /\ AtLeast'
    BY <2>1, <2>2, Zenon DEF IInv, LockedInv, AtMost, AtLeast
  <2> QED
    BY <2>4, <2>5, Zenon DEF IInv
<1> QED
  BY <1>1, <1>2, Zenon DEF Next

\* When main prints, all increments are made.
LEMMA IInvImplies == ASSUME IncrAssumption, IInv PROVE TypeOK /\ NoUpdateLost /\ LossBounded
<1>1. TypeOK
  BY Sizes, SMTT(30) DEF IInv, Placed, TypeOK
<1>2. ASSUME printed PROVE Cardinality(Made) = Asked
  BY <1>2, AllMade, Zenon DEF IInv, Placed
<1>3. NoUpdateLost
  BY <1>2, Zenon DEF IInv, LockedInv, NoUpdateLost
<1>4. LossBounded
  <2> SUFFICES ASSUME printed, ~prog.locked, Asked <= INT_MAX
               PROVE  glob <= Asked /\ (prog.outer >= 2 => glob >= 2)
    BY Zenon DEF LossBounded
  <2>1. \A t \in Threads : thr[t].j + thr[t].k >= prog.outer
    BY Sizes DEF IInv, Placed, Ended
  <2> QED
    BY <1>2, <2>1, Zenon DEF IInv, AtMost, AtLeast
<1> QED
  BY <1>1, <1>3, <1>4, Zenon

\* The invariant holds throughout.
LEMMA Invariant == ASSUME IncrAssumption PROVE Spec => []IInv
  BY InitIInv, NextIInv, PTL DEF Spec

\* With a lock of any kind main prints the number of increments asked for, as
\* an int: however often it overflows, no update is lost.
THEOREM UpdatesNotLost == ASSUME IncrAssumption PROVE Spec => []NoUpdateLost
  BY Invariant, IInvImplies, PTL

\* Without a lock main prints at most that number, and 2 or more if each thread
\* makes two increments or more, however few or many threads there are.
THEOREM LossIsBounded == ASSUME IncrAssumption PROVE Spec => []LossBounded
  BY Invariant, IInvImplies, PTL

-----------------------------------------------------------------------------
(* name_tsd.c *)

CONSTANT TsdThreads
VARIABLES once, keys, specific, heap, fn, ret

Tsd == INSTANCE NameTsd WITH Threads <- TsdThreads

TsdPlaces == {"idle", "once", "createKey", "get", "copy", "cut", "exit", "gone"}
InCall == {"once", "createKey", "get", "copy", "cut"}
Path(t) == <<"pathname of", t>>

TsdTyped ==
    /\ once \in [Tsd!Funcs -> {"no", "running", "done"}] /\ keys \in [Tsd!Funcs -> Nat]
    /\ specific \in [TsdThreads -> [Tsd!Funcs -> {Tsd!NULL} \cup Tsd!Blocks]]
    /\ ret \in [TsdThreads -> [Tsd!Funcs -> {Tsd!NULL} \cup Tsd!Blocks]]
    /\ pc \in [TsdThreads -> TsdPlaces] /\ fn \in [TsdThreads -> Tsd!Funcs]
    /\ DOMAIN heap = Tsd!Blocks /\ DOMAIN printed = TsdThreads

\* createKey runs once, and pthread_once() returns when it has.
OneKey ==
    /\ \A f \in Tsd!Funcs : keys[f] = IF once[f] = "done" THEN 1 ELSE 0
    /\ \A t \in TsdThreads : pc[t] = "createKey" => once[fn[t]] = "running"
    /\ \A t \in TsdThreads : pc[t] \in {"get", "copy", "cut"} => once[fn[t]] = "done"
    /\ \A t, u \in TsdThreads :
         pc[t] = "createKey" /\ pc[u] = "createKey" /\ fn[t] = fn[u] => t = u

\* A buffer in use has one owner.
InUse    == \A t \in TsdThreads, f \in Tsd!Funcs : specific[t][f] # Tsd!NULL => heap[specific[t][f]] # Tsd!Free
OneOwner == \A t, u \in TsdThreads, f, g \in Tsd!Funcs :
                specific[t][f] # Tsd!NULL /\ specific[t][f] = specific[u][g] => t = u /\ f = g
HasOwner == \A b \in Tsd!Blocks : heap[b] # Tsd!Free => \E t \in TsdThreads, f \in Tsd!Funcs : specific[t][f] = b
Owned    == InUse /\ OneOwner /\ HasOwner

\* What the owner has put into it.
ContentsOf(t) ==
    /\ pc[t] \in {"copy", "cut"} => specific[t][fn[t]] # Tsd!NULL
    /\ pc[t] = "cut" => heap[specific[t][fn[t]]] = Path(t)
    /\ pc[t] \in InCall => ret[t][fn[t]] = Tsd!NULL
    /\ \A f \in Tsd!Funcs : ret[t][f] # Tsd!NULL /\ pc[t] # "gone" =>
         specific[t][f] = ret[t][f] /\ heap[ret[t][f]] = Tsd!Result(f, t)

TsdContents == \A t \in TsdThreads : ContentsOf(t)

TsdIInv == TsdTyped /\ OneKey /\ Owned /\ TsdContents /\ Tsd!ThreadSafe

\* The module's finite sets are those the theorems about finite sets are about.
LEMMA TsdCardinality == ASSUME NEW S PROVE Tsd!Cardinality(S) = Cardinality(S) /\ (Tsd!IsFiniteSet(S) <=> IsFiniteSet(S))
  BY Zenon DEF Tsd!Cardinality, Cardinality, Tsd!IsFiniteSet, IsFiniteSet

\* NULL is no block, and a buffer with a string in it is not free.
LEMMA TsdValues ==
    ASSUME Tsd!TsdAssumption
    PROVE  /\ Tsd!NULL \notin Tsd!Blocks
           /\ Tsd!Free # <<"zeroes">>
           /\ \A t \in TsdThreads : Tsd!Free # Path(t)
           /\ \A t \in TsdThreads, f \in Tsd!Funcs : Tsd!Free # Tsd!Result(f, t)
<1>1. Cardinality(TsdThreads) \in Nat
  BY TsdCardinality, FS_CardinalityType, Zenon DEF Tsd!TsdAssumption
<1>2. Tsd!NULL \notin Tsd!Blocks
  BY <1>1, TsdCardinality DEF Tsd!NULL, Tsd!Blocks
<1>3. Tsd!Free # <<"zeroes">>
  BY Zenon DEF Tsd!Free
<1>4. \A t \in TsdThreads : Tsd!Free # Path(t)
  BY Zenon DEF Tsd!Free, Path
<1>5. \A t \in TsdThreads, f \in Tsd!Funcs : Tsd!Free # Tsd!Result(f, t)
  BY Zenon DEF Tsd!Free, Tsd!Result
<1> QED
  BY <1>2, <1>3, <1>4, <1>5, Zenon

\* No buffer and no key exists at the start.
LEMMA TsdInitIInv == ASSUME Tsd!TsdAssumption, Tsd!Init PROVE TsdIInv
<1>1. TsdTyped
  BY Zenon DEF Tsd!Init, TsdTyped, TsdPlaces, Tsd!Funcs
<1>2. OneKey /\ Owned /\ TsdContents
  BY Zenon DEF Tsd!Init, OneKey, Owned, InUse, OneOwner, HasOwner, TsdContents, ContentsOf, InCall
<1>3. Tsd!ThreadSafe
  BY Zenon DEF Tsd!Init, Tsd!ThreadSafe
<1> QED
  BY <1>1, <1>2, <1>3, Zenon DEF TsdIInv

\* Who owns what is not changed by a step that frees and allocates nothing.
LEMMA SameOwners ==
    ASSUME Owned, TsdTyped, UNCHANGED specific, \A c \in Tsd!Blocks : heap'[c] # Tsd!Free <=> heap[c] # Tsd!Free
    PROVE  Owned'
<1>1. \A u \in TsdThreads, f \in Tsd!Funcs : specific[u][f] \in {Tsd!NULL} \cup Tsd!Blocks
  BY DEF TsdTyped
<1>2. InUse'
  BY <1>1, Zenon DEF Owned, InUse
<1>3. OneOwner'
  BY DEF Owned, OneOwner
<1>4. HasOwner'
  BY Zenon DEF Owned, HasOwner
<1> QED
  BY <1>2, <1>3, <1>4, Zenon DEF Owned

\* A step of another thread that keeps this one's buffers keeps what is known of them.
LEMMA SameContents ==
    ASSUME NEW u \in TsdThreads, ContentsOf(u), fn[u] \in Tsd!Funcs, pc'[u] = pc[u], fn'[u] = fn[u],
           \A f \in Tsd!Funcs : ret'[u][f] = ret[u][f] /\ specific'[u][f] = specific[u][f],
           \A f \in Tsd!Funcs : specific[u][f] # Tsd!NULL => heap'[specific[u][f]] = heap[specific[u][f]]
    PROVE  ContentsOf(u)'
BY DEF ContentsOf, InCall

\* Entering a call and creating the key leave all buffers alone.
LEMMA TsdKeyIInv ==
    ASSUME Tsd!TsdAssumption, TsdIInv, NEW t \in TsdThreads, Tsd!Call(t) \/ Tsd!Once(t) \/ Tsd!createKey(t)
    PROVE  TsdIInv'
<1>1. TsdTyped /\ OneKey /\ Owned /\ Tsd!ThreadSafe /\ fn[t] \in Tsd!Funcs
  BY Zenon DEF TsdIInv, TsdTyped
<1>2. \A u \in TsdThreads : ContentsOf(u) /\ fn[u] \in Tsd!Funcs
  BY Zenon DEF TsdIInv, TsdTyped, TsdContents
<1>3. UNCHANGED <<specific, heap, ret, printed>>
  BY Zenon DEF Tsd!Call, Tsd!Once, Tsd!createKey
<1>4. Owned'
  BY <1>1, <1>3, SameOwners, Zenon
<1>5. Tsd!ThreadSafe'
  BY <1>1, <1>3, Zenon DEF Tsd!ThreadSafe
<1>6. ASSUME NEW u \in TsdThreads, u # t, pc'[u] = pc[u], fn'[u] = fn[u] PROVE ContentsOf(u)'
  BY <1>2, <1>3, <1>6, SameContents, Zenon
<1>7. CASE Tsd!Call(t)
  <2>1. PICK f \in Tsd!Funcs : ret[t][f] = Tsd!NULL /\ fn' = [fn EXCEPT ![t] = f]
    BY <1>7, ZenonT(60) DEF Tsd!Call
  <2>2. pc' = [pc EXCEPT ![t] = "once"] /\ pc[t] = "idle" /\ UNCHANGED <<once, keys>>
    BY <1>7, Zenon DEF Tsd!Call, Tsd!Goto
  <2>3. TsdTyped'
    BY <1>1, <1>3, <2>1, <2>2, Zenon DEF TsdTyped, TsdPlaces
  <2>4. /\ \A u \in TsdThreads : pc'[u] = IF u = t THEN "once" ELSE pc[u]
        /\ \A u \in TsdThreads : fn'[u] = IF u = t THEN f ELSE fn[u]
    BY <1>1, <2>1, <2>2, Zenon DEF TsdTyped
  <2>5. OneKey'
    BY <1>1, <2>2, <2>4 DEF OneKey
  <2>6. ContentsOf(t)'
    BY <1>2, <1>3, <2>1, <2>2, <2>4 DEF ContentsOf, InCall
  <2>7. TsdContents'
    BY <1>6, <2>4, <2>6, Zenon DEF TsdContents
  <2> QED
    BY <1>4, <1>5, <2>3, <2>5, <2>7, Zenon DEF TsdIInv
<1>8. CASE Tsd!Once(t)
  <2>1. pc[t] = "once" /\ UNCHANGED <<keys, fn>>
    BY <1>8, Zenon DEF Tsd!Once
  <2>2. PICK p \in {"get", "createKey"} : pc' = [pc EXCEPT ![t] = p]
    BY <1>8, Zenon DEF Tsd!Once, Tsd!Goto
  <2>3. \A u \in TsdThreads : pc'[u] = IF u = t THEN p ELSE pc[u]
    BY <1>1, <2>2, Zenon DEF TsdTyped
  <2>4. TsdTyped'
    <3>1. once' \in [Tsd!Funcs -> {"no", "running", "done"}]
      BY <1>1, <1>8, SMTT(60), ZenonT(60) DEF Tsd!Once, TsdTyped
    <3> QED
      BY <1>1, <1>3, <2>1, <2>2, <3>1, Zenon DEF TsdTyped, TsdPlaces
  <2>5. OneKey'
    <3>1. CASE once[fn[t]] = "done"
      <4>1. p = "get" /\ UNCHANGED once
        BY <1>1, <1>8, <2>2, <3>1, Zenon DEF Tsd!Once, Tsd!Goto, TsdTyped
      <4> QED
        BY <1>1, <2>1, <2>3, <3>1, <4>1 DEF OneKey
    <3>2. CASE once[fn[t]] # "done"
      <4>1. /\ \A f \in Tsd!Funcs : once'[f] = IF f = fn[t] THEN "running" ELSE once[f]
            /\ once[fn[t]] = "no" /\ p = "createKey"
        BY <1>1, <1>8, <2>2, <3>2, Zenon DEF Tsd!Once, Tsd!Goto, TsdTyped
      <4> QED
        BY <1>1, <1>2, <2>1, <2>3, <4>1 DEF OneKey
    <3> QED
      BY <3>1, <3>2, Zenon
  <2>6. ContentsOf(t)'
    BY <1>2, <1>3, <2>1, <2>3, Zenon DEF ContentsOf, InCall
  <2>7. TsdContents'
    BY <1>6, <2>1, <2>3, <2>6, Zenon DEF TsdContents
  <2> QED
    BY <1>4, <1>5, <2>4, <2>5, <2>7, Zenon DEF TsdIInv
<1>9. CASE Tsd!createKey(t)
  <2>1. /\ pc[t] = "createKey" /\ pc' = [pc EXCEPT ![t] = "get"] /\ UNCHANGED fn
        /\ keys' = [keys EXCEPT ![fn[t]] = @ + 1] /\ once' = [once EXCEPT ![fn[t]] = "done"]
    BY <1>9, Zenon DEF Tsd!createKey, Tsd!Goto
  <2>2. /\ \A u \in TsdThreads : pc'[u] = IF u = t THEN "get" ELSE pc[u]
        /\ \A f \in Tsd!Funcs : once'[f] = IF f = fn[t] THEN "done" ELSE once[f]
        /\ \A f \in Tsd!Funcs : keys'[f] = IF f = fn[t] THEN keys[f] + 1 ELSE keys[f]
    BY <1>1, <2>1, Zenon DEF TsdTyped
  <2>3. TsdTyped'
    BY <1>1, <1>3, <2>1 DEF TsdTyped, TsdPlaces
  <2>4. OneKey'
    BY <1>1, <1>2, <2>1, <2>2, SMTT(60), ZenonT(60) DEF OneKey
  <2>5. ContentsOf(t)'
    <3>1. ContentsOf(t) /\ pc'[t] = "get" /\ fn'[t] = fn[t]
      BY <1>2, <2>1, <2>2, Zenon
    <3> QED
      BY <1>3, <2>1, <3>1, Zenon DEF ContentsOf, InCall
  <2>6. TsdContents'
    BY <1>6, <2>1, <2>2, <2>5, Zenon DEF TsdContents
  <2> QED
    BY <1>4, <1>5, <2>3, <2>4, <2>6, Zenon DEF TsdIInv
<1> QED
  BY <1>7, <1>8, <1>9, Zenon

\* malloc() returns a block that is nobody's.
LEMMA TsdGetIInv == ASSUME Tsd!TsdAssumption, TsdIInv, NEW t \in TsdThreads, Tsd!Get(t) PROVE TsdIInv'
<1>1. /\ TsdTyped /\ OneKey /\ Owned /\ InUse /\ OneOwner /\ HasOwner /\ Tsd!ThreadSafe
      /\ fn[t] \in Tsd!Funcs
  BY Zenon DEF TsdIInv, Owned, TsdTyped
<1>2. \A u \in TsdThreads : ContentsOf(u) /\ fn[u] \in Tsd!Funcs
  BY Zenon DEF TsdIInv, TsdTyped, TsdContents
<1>3. /\ pc[t] = "get" /\ pc' = [pc EXCEPT ![t] = "copy"]
      /\ UNCHANGED <<once, keys, fn, ret, printed>>
  BY Zenon DEF Tsd!Get, Tsd!Goto
<1>4. \A u \in TsdThreads : pc'[u] = IF u = t THEN "copy" ELSE pc[u]
  BY <1>1, <1>3, Zenon DEF TsdTyped
<1>5. OneKey'
  BY <1>1, <1>3, <1>4, SMTT(60) DEF OneKey
<1>6. Tsd!ThreadSafe'
  BY <1>1, <1>3, Zenon DEF Tsd!ThreadSafe
<1>7. CASE specific[t][fn[t]] # Tsd!NULL
  <2>1. UNCHANGED <<heap, specific>>
    BY <1>7, Zenon DEF Tsd!Get
  <2>2. TsdTyped'
    BY <1>1, <1>3, <2>1, Zenon DEF TsdTyped, TsdPlaces
  <2>3. Owned'
    BY <1>1, <2>1, SameOwners, Zenon
  <2>4. ContentsOf(t)'
    BY <1>2, <1>3, <1>4, <1>7, <2>1 DEF ContentsOf, InCall
  <2>5. ASSUME NEW u \in TsdThreads, u # t PROVE ContentsOf(u)'
    BY <1>2, <1>3, <1>4, <2>1, <2>5, SameContents, Zenon
  <2>6. TsdContents'
    BY <2>4, <2>5, Zenon DEF TsdContents
  <2> QED
    BY <1>5, <1>6, <2>2, <2>3, <2>6, Zenon DEF TsdIInv
<1>8. CASE specific[t][fn[t]] = Tsd!NULL
  <2>1. PICK b \in Tsd!Blocks : /\ heap[b] = Tsd!Free
                            /\ heap' = [heap EXCEPT ![b] = <<"zeroes">>]
                            /\ specific' = [specific EXCEPT ![t][fn[t]] = b]
    BY <1>8, Zenon DEF Tsd!Get
  <2>2. \A u \in TsdThreads, f \in Tsd!Funcs : specific[u][f] # b
    BY <1>1, <2>1, TsdValues, Zenon DEF InUse
  <2>3. /\ \A u \in TsdThreads, f \in Tsd!Funcs :
             specific'[u][f] = IF u = t /\ f = fn[t] THEN b ELSE specific[u][f]
        /\ \A c \in Tsd!Blocks : heap'[c] = IF c = b THEN <<"zeroes">> ELSE heap[c]
        /\ \A u \in TsdThreads, f \in Tsd!Funcs : specific[u][f] \in {Tsd!NULL} \cup Tsd!Blocks
    BY <1>1, <2>1 DEF TsdTyped
  <2>4. Owned'
    <3>1. InUse'
      BY <1>1, <2>2, <2>3, TsdValues DEF InUse
    <3>2. OneOwner'
      BY <1>1, <2>2, <2>3 DEF OneOwner
    <3>3. HasOwner'
      <4> SUFFICES ASSUME NEW c \in Tsd!Blocks, heap'[c] # Tsd!Free
                   PROVE  \E u \in TsdThreads, f \in Tsd!Funcs : specific'[u][f] = c
        BY Zenon DEF HasOwner
      <4>1. CASE c = b
        BY <1>1, <2>3, <4>1, Zenon
      <4>2. CASE c # b
        <5>1. PICK u \in TsdThreads, f \in Tsd!Funcs : specific[u][f] = c
          BY <1>1, <2>3, <4>2, Zenon DEF HasOwner
        <5>2. specific'[u][f] = c
          BY <1>8, <2>3, <5>1, TsdValues
        <5> QED
          BY <5>2, Zenon
      <4> QED
        BY <4>1, <4>2, Zenon
    <3> QED
      BY <3>1, <3>2, <3>3, Zenon DEF Owned
  <2>5. TsdTyped'
    <3>1. DOMAIN heap' = Tsd!Blocks
      BY <1>1, <2>1, Zenon DEF TsdTyped
    <3>2. specific' \in [TsdThreads -> [Tsd!Funcs -> {Tsd!NULL} \cup Tsd!Blocks]]
      BY <1>1, <2>1, Zenon DEF TsdTyped
    <3> QED
      BY <1>1, <1>3, <3>1, <3>2, ZenonT(60) DEF TsdTyped, TsdPlaces
  <2>6. ASSUME NEW u \in TsdThreads, NEW f \in Tsd!Funcs, specific[u][f] # Tsd!NULL
        PROVE  heap'[specific[u][f]] = heap[specific[u][f]]
    BY <2>2, <2>3, <2>6, Zenon
  <2>7. ContentsOf(t)'
    <3>1. \A f \in Tsd!Funcs : ret[t][f] # Tsd!NULL =>
            f # fn[t] /\ specific[t][f] = ret[t][f] /\ heap[ret[t][f]] = Tsd!Result(f, t)
      BY <1>2, <1>3, Zenon DEF ContentsOf, InCall
    <3>2. \A f \in Tsd!Funcs : ret[t][f] # Tsd!NULL =>
            specific'[t][f] = ret[t][f] /\ heap'[ret[t][f]] = Tsd!Result(f, t)
      BY <2>3, <2>6, <3>1
    <3>3. specific'[t][fn[t]] # Tsd!NULL /\ ret[t][fn[t]] = Tsd!NULL
      <4>1. ContentsOf(t) /\ specific'[t][fn[t]] = b
        BY <1>1, <1>2, <2>3, Zenon
      <4> QED
        BY <1>3, <4>1, TsdValues, Zenon DEF ContentsOf, InCall
    <3> QED
      BY <1>3, <1>4, <3>2, <3>3 DEF ContentsOf
  <2>8. ASSUME NEW u \in TsdThreads, u # t PROVE ContentsOf(u)'
    <3>1. \A f \in Tsd!Funcs : ret'[u][f] = ret[u][f] /\ specific'[u][f] = specific[u][f]
      BY <1>3, <2>3, <2>8, Zenon
    <3> QED
      BY <1>2, <1>3, <1>4, <2>6, <2>8, <3>1, SameContents, SMTT(60), ZenonT(60)
  <2>9. TsdContents'
    BY <2>7, <2>8, Zenon DEF TsdContents
  <2> QED
    BY <1>5, <1>6, <2>4, <2>5, <2>9, Zenon DEF TsdIInv
<1> QED
  BY <1>7, <1>8, Zenon

\* Writing into one's own buffer changes no one else's.
LEMMA TsdWriteIInv ==
    ASSUME Tsd!TsdAssumption, TsdIInv, NEW t \in TsdThreads, Tsd!CopyPath(t) \/ Tsd!CutAndReturn(t) PROVE TsdIInv'
<1> DEFINE b == specific[t][fn[t]]
<1>1. TsdTyped /\ OneKey /\ Owned /\ InUse /\ OneOwner /\ Tsd!ThreadSafe /\ fn[t] \in Tsd!Funcs
  BY Zenon DEF TsdIInv, Owned, TsdTyped
<1>2. \A u \in TsdThreads : ContentsOf(u) /\ fn[u] \in Tsd!Funcs
  BY Zenon DEF TsdIInv, TsdTyped, TsdContents
<1>3. pc[t] \in {"copy", "cut"} /\ UNCHANGED <<once, keys, specific, fn, printed>>
  BY Zenon DEF Tsd!CopyPath, Tsd!CutAndReturn
<1>4. b # Tsd!NULL /\ ret[t][fn[t]] = Tsd!NULL
  BY <1>2, <1>3, Zenon DEF ContentsOf, InCall
<1>5. b \in Tsd!Blocks
  BY <1>1, <1>4 DEF TsdTyped
<1>6. \A u \in TsdThreads, f \in Tsd!Funcs : specific[u][f] = b => u = t /\ f = fn[t]
  BY <1>1, <1>4 DEF OneOwner
<1>7. heap[b] # Tsd!Free
  BY <1>1, <1>4, Zenon DEF InUse
<1>8. Tsd!ThreadSafe'
  BY <1>1, <1>3, Zenon DEF Tsd!ThreadSafe
<1>9. PICK p \in {"cut", "idle"} : pc' = [pc EXCEPT ![t] = p]
  BY Zenon DEF Tsd!CopyPath, Tsd!CutAndReturn, Tsd!Goto
<1>10. \A u \in TsdThreads : pc'[u] = IF u = t THEN p ELSE pc[u]
  BY <1>1, <1>9, Zenon DEF TsdTyped
<1>11. OneKey'
  BY <1>1, <1>3, <1>10, SMTT(60) DEF OneKey
<1>12. \A u \in TsdThreads, f \in Tsd!Funcs : specific[u][f] \in {Tsd!NULL} \cup Tsd!Blocks
  BY <1>1 DEF TsdTyped
<1> HIDE DEF b
\* The rest, for the string that is written.
<1>13. ASSUME NEW str, str # Tsd!Free, heap' = [heap EXCEPT ![b] = str],
              ret' \in [TsdThreads -> [Tsd!Funcs -> {Tsd!NULL} \cup Tsd!Blocks]],
              \A u \in TsdThreads \ {t}, f \in Tsd!Funcs : ret'[u][f] = ret[u][f],
              ContentsOf(t)'
       PROVE  TsdIInv'
  <2>1. \A c \in Tsd!Blocks : heap'[c] = IF c = b THEN str ELSE heap[c]
    BY <1>1, <1>13, Zenon DEF TsdTyped
  <2>2. \A c \in Tsd!Blocks : heap'[c] # Tsd!Free <=> heap[c] # Tsd!Free
    BY <1>7, <1>13, <2>1, Zenon
  <2>3. Owned'
    BY <1>1, <1>3, <2>2, SameOwners, Zenon
  <2>4. TsdTyped'
    <3>1. DOMAIN heap' = Tsd!Blocks
      BY <1>1, <1>13, Zenon DEF TsdTyped
    <3> QED
      BY <1>1, <1>3, <1>9, <1>13, <3>1, ZenonT(60) DEF TsdTyped, TsdPlaces
  <2>5. ASSUME NEW u \in TsdThreads, u # t PROVE ContentsOf(u)'
    <3>1. \A f \in Tsd!Funcs : specific[u][f] # Tsd!NULL => heap'[specific[u][f]] = heap[specific[u][f]]
      BY <1>6, <1>12, <2>1, <2>5, Zenon
    <3>2. \A f \in Tsd!Funcs : ret'[u][f] = ret[u][f] /\ specific'[u][f] = specific[u][f]
      BY <1>3, <1>13, <2>5, Zenon
    <3> QED
      BY <1>2, <1>3, <1>10, <2>5, <3>1, <3>2, SameContents
  <2>6. TsdContents'
    BY <1>13, <2>5, Zenon DEF TsdContents
  <2> QED
    BY <1>8, <1>11, <2>3, <2>4, <2>6, Zenon DEF TsdIInv
<1>14. \A f \in Tsd!Funcs : ret[t][f] # Tsd!NULL =>
         f # fn[t] /\ specific[t][f] = ret[t][f] /\ ret[t][f] # b /\ heap[ret[t][f]] = Tsd!Result(f, t)
  <2>1. \A f \in Tsd!Funcs : ret[t][f] # Tsd!NULL =>
          f # fn[t] /\ specific[t][f] = ret[t][f] /\ heap[ret[t][f]] = Tsd!Result(f, t)
    BY <1>2, <1>3, <1>4, Zenon DEF ContentsOf
  <2> QED
    BY <1>6, <2>1
<1>15. CASE Tsd!CopyPath(t)
  <2>1. /\ heap' = [heap EXCEPT ![b] = Path(t)] /\ ret' = ret /\ pc'[t] = "cut"
    BY <1>1, <1>15, ZenonT(60) DEF Tsd!CopyPath, Tsd!Goto, Path, b, TsdTyped
  <2>2. /\ heap'[b] = Path(t)
        /\ \A c \in Tsd!Blocks : c # b => heap'[c] = heap[c]
    BY <1>1, <1>5, <2>1, Zenon DEF TsdTyped
  <2>3. \A f \in Tsd!Funcs : ret[t][f] # Tsd!NULL => heap'[ret[t][f]] = Tsd!Result(f, t)
    BY <1>12, <1>14, <2>2, Zenon
  <2>4. ContentsOf(t)'
    BY <1>3, <1>4, <1>14, <2>1, <2>2, <2>3, Zenon DEF ContentsOf, b
  <2>5. ret' \in [TsdThreads -> [Tsd!Funcs -> {Tsd!NULL} \cup Tsd!Blocks]]
    BY <1>1, <2>1, Zenon DEF TsdTyped
  <2>6. Path(t) # Tsd!Free
    BY TsdValues, Zenon
  <2> QED
    BY <1>13, <2>1, <2>4, <2>5, <2>6, ZenonT(60)
<1>16. CASE Tsd!CutAndReturn(t)
  <2>1. heap[b] = Path(t)
    BY <1>2, <1>16, ZenonT(60) DEF Tsd!CutAndReturn, ContentsOf, b
  <2>2. pc' = [pc EXCEPT ![t] = "idle"] /\ ret' = [ret EXCEPT ![t][fn[t]] = b]
    BY <1>16, ZenonT(60) DEF Tsd!CutAndReturn, Tsd!Goto, b
  <2>3. heap' = [heap EXCEPT ![b] = Tsd!Result(fn[t], t)]
    BY <1>16, <2>1, Zenon DEF Tsd!CutAndReturn, Path, b
  <2>4. /\ heap'[b] = Tsd!Result(fn[t], t)
        /\ \A c \in Tsd!Blocks : c # b => heap'[c] = heap[c]
    BY <1>1, <1>5, <2>3, Zenon DEF TsdTyped
  <2>5. ret' \in [TsdThreads -> [Tsd!Funcs -> {Tsd!NULL} \cup Tsd!Blocks]]
    BY <1>1, <1>5, <2>2, Zenon DEF TsdTyped
  <2>6. /\ \A f \in Tsd!Funcs : ret'[t][f] = IF f = fn[t] THEN b ELSE ret[t][f]
        /\ \A u \in TsdThreads \ {t}, f \in Tsd!Funcs : ret'[u][f] = ret[u][f]
        /\ pc'[t] = "idle"
    BY <1>1, <2>2, Zenon DEF TsdTyped
  <2>7. \A f \in Tsd!Funcs : ret'[t][f] # Tsd!NULL =>
          specific[t][f] = ret'[t][f] /\ heap'[ret'[t][f]] = Tsd!Result(f, t)
    <3>1. ASSUME NEW f \in Tsd!Funcs, f # fn[t], ret[t][f] # Tsd!NULL
          PROVE  specific[t][f] = ret[t][f] /\ heap'[ret[t][f]] = Tsd!Result(f, t)
      BY <1>12, <1>14, <2>4, <3>1, Zenon
    <3>2. specific[t][fn[t]] = b
      BY Zenon DEF b
    <3> QED
      BY <2>4, <2>6, <3>1, <3>2
  <2>8. ContentsOf(t)'
    BY <1>3, <2>6, <2>7, Zenon DEF ContentsOf, InCall
  <2>9. Tsd!Result(fn[t], t) # Tsd!Free
    BY <1>1, TsdValues, Zenon
  <2> QED
    BY <1>13, <2>3, <2>5, <2>6, <2>8, <2>9, ZenonT(60)
<1> QED
  BY <1>15, <1>16, Zenon

\* What is printed is what the buffers hold.
LEMMA TsdReportIInv == ASSUME TsdIInv, NEW t \in TsdThreads, Tsd!Report(t) PROVE TsdIInv'
<1>1. TsdTyped /\ OneKey /\ Owned /\ Tsd!ThreadSafe
  BY Zenon DEF TsdIInv
<1>2. \A u \in TsdThreads : ContentsOf(u) /\ fn[u] \in Tsd!Funcs
  BY Zenon DEF TsdIInv, TsdTyped, TsdContents
<1>3. /\ pc[t] = "idle" /\ pc' = [pc EXCEPT ![t] = "exit"]
      /\ \A f \in Tsd!Funcs : ret[t][f] # Tsd!NULL
      /\ UNCHANGED <<once, keys, specific, heap, fn, ret>>
  BY Zenon DEF Tsd!Report, Tsd!Goto
<1>4. \A u \in TsdThreads : pc'[u] = IF u = t THEN "exit" ELSE pc[u]
  BY <1>1, <1>3, Zenon DEF TsdTyped
<1>5. \A f \in Tsd!Funcs : heap[ret[t][f]] = Tsd!Result(f, t)
  BY <1>2, <1>3, Zenon DEF ContentsOf
<1>6. printed' = [printed EXCEPT ![t] = [f \in Tsd!Funcs |-> Tsd!Result(f, t)]]
  BY <1>5, Zenon DEF Tsd!Report
<1>7. TsdTyped'
  BY <1>1, <1>3, <1>6, Zenon DEF TsdTyped, TsdPlaces
<1>8. OneKey'
  BY <1>1, <1>3, <1>4, SMTT(60) DEF OneKey
<1>9. Owned'
  BY <1>1, <1>3, SameOwners, Zenon
<1>10. Tsd!ThreadSafe'
  BY <1>1, <1>6, Zenon DEF TsdTyped, Tsd!ThreadSafe
<1>11. ContentsOf(t)'
  <2>1. ContentsOf(t) /\ pc'[t] = "exit"
    BY <1>2, <1>4, Zenon
  <2> QED
    BY <1>3, <2>1, Zenon DEF ContentsOf, InCall
<1>12. ASSUME NEW u \in TsdThreads, u # t PROVE ContentsOf(u)'
  BY <1>2, <1>3, <1>4, <1>12, SameContents, Zenon
<1>13. TsdContents'
  BY <1>11, <1>12, Zenon DEF TsdContents
<1> QED
  BY <1>7, <1>8, <1>9, <1>10, <1>13, Zenon DEF TsdIInv

\* A thread's destructors free its own buffers and no other's.
LEMMA TsdDestructorIInv ==
    ASSUME Tsd!TsdAssumption, TsdIInv, NEW t \in TsdThreads, Tsd!destructor(t) PROVE TsdIInv'
<1>1. TsdTyped /\ OneKey /\ InUse /\ OneOwner /\ HasOwner /\ Tsd!ThreadSafe
  BY Zenon DEF TsdIInv, Owned
<1>2. \A u \in TsdThreads : ContentsOf(u) /\ fn[u] \in Tsd!Funcs
  BY Zenon DEF TsdIInv, TsdTyped, TsdContents
<1>3. /\ pc[t] = "exit" /\ pc' = [pc EXCEPT ![t] = "gone"]
      /\ specific' = [specific EXCEPT ![t] = [f \in Tsd!Funcs |-> Tsd!NULL]]
      /\ heap' = [c \in Tsd!Blocks |-> IF \E f \in Tsd!Funcs : specific[t][f] = c THEN Tsd!Free ELSE heap[c]]
      /\ UNCHANGED <<once, keys, fn, ret, printed>>
  BY Zenon DEF Tsd!destructor, Tsd!Goto
<1>4. \A u \in TsdThreads : pc'[u] = IF u = t THEN "gone" ELSE pc[u]
  BY <1>1, <1>3, Zenon DEF TsdTyped
<1>5. \A u \in TsdThreads, f \in Tsd!Funcs : specific'[u][f] = IF u = t THEN Tsd!NULL ELSE specific[u][f]
  BY <1>1, <1>3, Zenon DEF TsdTyped
<1>6. \A c \in Tsd!Blocks :
        heap'[c] = IF \E f \in Tsd!Funcs : specific[t][f] = c THEN Tsd!Free ELSE heap[c]
  BY <1>3, Zenon
<1>7. \A u \in TsdThreads, f \in Tsd!Funcs : specific[u][f] \in {Tsd!NULL} \cup Tsd!Blocks
  BY <1>1 DEF TsdTyped
<1>8. TsdTyped'
  <2>1. DOMAIN heap' = Tsd!Blocks
    BY <1>3, Zenon
  <2>2. specific' \in [TsdThreads -> [Tsd!Funcs -> {Tsd!NULL} \cup Tsd!Blocks]]
    BY <1>1, <1>3, Zenon DEF TsdTyped
  <2> QED
    BY <1>1, <1>3, <2>1, <2>2, Zenon DEF TsdTyped, TsdPlaces
<1>9. OneKey'
  BY <1>1, <1>3, <1>4, SMTT(60) DEF OneKey
<1>10. Tsd!ThreadSafe'
  BY <1>1, <1>3, Zenon DEF Tsd!ThreadSafe
<1>11. ASSUME NEW u \in TsdThreads, NEW f \in Tsd!Funcs, u # t, specific[u][f] # Tsd!NULL
       PROVE  heap'[specific[u][f]] = heap[specific[u][f]]
  <2>1. \A g \in Tsd!Funcs : specific[t][g] # specific[u][f]
    BY <1>1, <1>11 DEF OneOwner
  <2>2. specific[u][f] \in Tsd!Blocks
    BY <1>7, <1>11, Zenon
  <2> QED
    BY <1>6, <2>1, <2>2, Zenon
<1>12. InUse'
  <2> SUFFICES ASSUME NEW u \in TsdThreads, NEW f \in Tsd!Funcs, specific'[u][f] # Tsd!NULL
               PROVE  heap'[specific'[u][f]] # Tsd!Free
    BY Zenon DEF InUse
  <2>1. u # t /\ specific'[u][f] = specific[u][f]
    BY <1>5, Zenon
  <2> QED
    BY <1>1, <1>11, <2>1 DEF InUse
<1>13. OneOwner'
  BY <1>1, <1>5 DEF OneOwner
<1>14. HasOwner'
  <2> SUFFICES ASSUME NEW c \in Tsd!Blocks, heap'[c] # Tsd!Free
               PROVE  \E u \in TsdThreads, f \in Tsd!Funcs : specific'[u][f] = c
    BY Zenon DEF HasOwner
  <2>1. heap[c] # Tsd!Free /\ \A f \in Tsd!Funcs : specific[t][f] # c
    BY <1>6, Zenon
  <2>2. PICK u \in TsdThreads, f \in Tsd!Funcs : specific[u][f] = c
    BY <1>1, <2>1, Zenon DEF HasOwner
  <2>3. specific'[u][f] = c
    BY <1>5, <2>1, <2>2, Zenon
  <2> QED
    BY <2>3, Zenon
<1>15. ContentsOf(t)'
  BY <1>4, SMTT(60), ZenonT(60) DEF ContentsOf, InCall
<1>16. ASSUME NEW u \in TsdThreads, u # t PROVE ContentsOf(u)'
  <2>1. \A f \in Tsd!Funcs : ret'[u][f] = ret[u][f] /\ specific'[u][f] = specific[u][f]
    BY <1>3, <1>5, <1>16
  <2>2. \A f \in Tsd!Funcs : specific[u][f] # Tsd!NULL => heap'[specific[u][f]] = heap[specific[u][f]]
    BY <1>11, <1>16, Zenon
  <2>3. ContentsOf(u) /\ fn[u] \in Tsd!Funcs /\ pc'[u] = pc[u] /\ fn'[u] = fn[u]
    BY <1>2, <1>3, <1>4, <1>16, Zenon
  <2> QED
    BY <2>1, <2>2, <2>3, SameContents, Zenon
<1>17. TsdContents'
  BY <1>15, <1>16, Zenon DEF TsdContents
<1> QED
  BY <1>8, <1>9, <1>10, <1>12, <1>13, <1>14, <1>17, Zenon DEF TsdIInv, Owned

\* No step of a thread loses the invariant.
LEMMA TsdNextIInv == ASSUME Tsd!TsdAssumption, TsdIInv, [Tsd!Next]_(Tsd!vars) PROVE TsdIInv'
<1>1. CASE UNCHANGED Tsd!vars
  <2>1. TsdTyped' /\ OneKey'
    BY <1>1, Zenon DEF TsdIInv, TsdTyped, OneKey, Tsd!vars
  <2>2. Owned'
    BY <1>1, SameOwners, SMTT(60), ZenonT(60) DEF TsdIInv, Tsd!vars
  <2>3. TsdContents' /\ Tsd!ThreadSafe'
    BY <1>1, Zenon DEF TsdIInv, TsdContents, ContentsOf, Tsd!ThreadSafe, Tsd!vars
  <2> QED
    BY <2>1, <2>2, <2>3, Zenon DEF TsdIInv
<1>2. ASSUME NEW t \in TsdThreads, Tsd!threadRoutine(t) PROVE TsdIInv'
  BY <1>2, TsdKeyIInv, TsdGetIInv, TsdWriteIInv, TsdReportIInv, TsdDestructorIInv, Zenon DEF Tsd!threadRoutine
<1> QED
  BY <1>1, <1>2, Zenon DEF Tsd!Next

\* The invariant gives the three properties.
LEMMA TsdIInvImplies == ASSUME Tsd!TsdAssumption, TsdIInv PROVE Tsd!ThreadSafe /\ Tsd!KeyBeforeUse /\ Tsd!NoLeak
<1>1. Tsd!ThreadSafe
  BY Zenon DEF TsdIInv
<1>2. Tsd!KeyBeforeUse
  BY SMTT(60), ZenonT(60) DEF TsdIInv, TsdTyped, OneKey, Tsd!KeyBeforeUse
<1>3. Tsd!NoLeak
  <2> SUFFICES ASSUME NEW b \in Tsd!Blocks, heap[b] # Tsd!Free
               PROVE  Cardinality({o \in TsdThreads \X Tsd!Funcs : specific[o[1]][o[2]] = b}) = 1
    BY TsdCardinality, Zenon DEF Tsd!NoLeak
  <2>1. PICK t \in TsdThreads, f \in Tsd!Funcs : specific[t][f] = b
    BY Zenon DEF TsdIInv, Owned, HasOwner
  <2>2. \A u \in TsdThreads, g \in Tsd!Funcs : specific[u][g] = b => u = t /\ g = f
    BY <2>1, TsdValues DEF TsdIInv, Owned, OneOwner
  <2>3. {o \in TsdThreads \X Tsd!Funcs : specific[o[1]][o[2]] = b} = {<<t, f>>}
    BY <2>1, <2>2
  <2>4. Cardinality({<<t, f>>}) = 1
    BY FS_Singleton, Zenon
  <2> QED
    BY <2>3, <2>4, Zenon
<1> QED
  BY <1>1, <1>2, <1>3, Zenon

\* The invariant holds throughout.
LEMMA TsdInvariant == ASSUME Tsd!TsdAssumption PROVE Tsd!Spec => []TsdIInv
  BY TsdInitIInv, TsdNextIInv, PTL DEF Tsd!Spec

\* Each thread prints the results for its own pathname, however many threads
\* call dirname_tsd() and basename_tsd() at the same time.
THEOREM ResultsAreOwn == ASSUME Tsd!TsdAssumption PROVE Tsd!Spec => []Tsd!ThreadSafe
  BY TsdInvariant, TsdIInvImplies, PTL

\* Each function creates one key, before any thread reads it.
THEOREM KeyIsThere == ASSUME Tsd!TsdAssumption PROVE Tsd!Spec => []Tsd!KeyBeforeUse
  BY TsdInvariant, TsdIInvImplies, PTL

\* Every buffer has one thread and one key, whose destructor frees it.
THEOREM BuffersAreOwned == ASSUME Tsd!TsdAssumption PROVE Tsd!Spec => []Tsd!NoLeak
  BY TsdInvariant, TsdIInvImplies, PTL
=============================================================================

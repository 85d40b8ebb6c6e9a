---------------------------- MODULE ProdCondvar ----------------------------
(***************************************************************************)
(* threads/prod_condvar.c: producer threads make units available under a   *)
(* mutex and signal a condition variable; the main thread consumes them.   *)
(* threads/prod_no_condvar.c is the same with a polling loop.              *)
(* The mutex and the condition variable are pthreads' (external): a wait   *)
(* releases the mutex and sleeps in one step, and may end without a signal.*)
(***************************************************************************)
EXTENDS Integers, Sequences, FiniteSets

CONSTANT Counts     \* the command line: how many units each producer makes

ProdAssumption == Counts \in Seq(Nat)

Producers == DOMAIN Counts
Main  == 0
NoOne == -1

VARIABLES
    prog,                   \* "prod_condvar" or "prod_no_condvar"
    mtx,                    \* the thread that holds the mutex
    avail,
    prod,                   \* per producer: pc and loop counter j
    pc, created, totRequired, numConsumed, done     \* main

vars == <<prog, mtx, avail, prod, pc, created, totRequired, numConsumed, done>>
mainVars == <<prog, pc, created, totRequired, numConsumed, done>>

Polling == prog = "prod_no_condvar"

Init ==
    /\ prog \in {"prod_condvar", "prod_no_condvar"}
    /\ mtx = NoOne /\ avail = 0
    /\ prod = [p \in Producers |-> [pc |-> "unborn", j |-> 0]]
    /\ pc = "create" /\ created = 0 /\ totRequired = 0 /\ numConsumed = 0 /\ done = FALSE

Goto(p, from, to) ==
    /\ prod[p].pc = from
    /\ prod' = [prod EXCEPT ![p].pc = to]

-----------------------------------------------------------------------------
(* producer *)

\* The loop test, and the work done before the mutex is taken
PLoop(p) ==
    /\ Goto(p, "loop", IF prod[p].j < Counts[p] THEN "lock" ELSE "end")
    /\ UNCHANGED <<mtx, avail, mainVars>>

PLock(p) ==
    /\ mtx = NoOne /\ mtx' = p
    /\ Goto(p, "lock", "locked")
    /\ UNCHANGED <<avail, mainVars>>

\* Mutant: the unit is lost.
PProduce_NoUnit(p) ==
    /\ Goto(p, "locked", "unlock")
    /\ UNCHANGED <<mtx, avail, mainVars>>

PProduce(p) ==
    /\ Goto(p, "locked", "unlock")
    /\ avail' = avail + 1
    /\ UNCHANGED <<mtx, mainVars>>

\* Mutant: the signal is left out.
PUnlock_NoSignal(p) ==
    /\ prod[p].pc = "unlock" /\ mtx' = NoOne
    /\ prod' = [prod EXCEPT ![p] = [pc |-> "loop", j |-> @.j + 1]]
    /\ UNCHANGED <<avail, mainVars>>

PUnlock(p) ==
    /\ prod[p].pc = "unlock" /\ mtx' = NoOne
    /\ prod' = IF Polling THEN [prod EXCEPT ![p] = [pc |-> "loop", j |-> @.j + 1]]
               ELSE [prod EXCEPT ![p].pc = "signal"]
    /\ UNCHANGED <<avail, mainVars>>

\* Only the main thread ever waits.  A signal that nobody waits for is lost.
PSignal(p) ==
    /\ prod[p].pc = "signal"
    /\ prod' = [prod EXCEPT ![p] = [pc |-> "loop", j |-> @.j + 1]]
    /\ pc' = IF pc = "asleep" THEN "relock" ELSE pc
    /\ UNCHANGED <<prog, mtx, avail, created, totRequired, numConsumed, done>>

\* exit() of main ends the producers too.
producer(p) ==
    pc # "exit" /\ (PLoop(p) \/ PLock(p) \/ PProduce(p) \/ PUnlock(p) \/ PSignal(p))

-----------------------------------------------------------------------------
(* main *)

MCreate ==
    /\ pc = "create"
    /\ IF created < Len(Counts)
       THEN /\ created' = created + 1
            /\ totRequired' = totRequired + Counts[created + 1]
            /\ prod' = [prod EXCEPT ![created + 1].pc = "loop"]
            /\ UNCHANGED pc
       ELSE pc' = "lock" /\ UNCHANGED <<created, totRequired, prod>>
    /\ UNCHANGED <<prog, mtx, avail, numConsumed, done>>

\* At the top of the loop, or on the way out of pthread_cond_wait
MLock ==
    /\ pc \in {"lock", "relock"} /\ mtx = NoOne
    /\ mtx' = Main /\ pc' = "check"
    /\ UNCHANGED <<prog, avail, prod, created, totRequired, numConsumed, done>>

MWait ==
    /\ pc = "check" /\ avail = 0 /\ ~Polling
    /\ mtx' = NoOne /\ pc' = "asleep"
    /\ UNCHANGED <<prog, avail, prod, created, totRequired, numConsumed, done>>

\* The polling loop goes on to the consuming loop whatever avail is.
MPoll ==
    /\ pc = "check" /\ Polling
    /\ pc' = "consume"
    /\ UNCHANGED <<prog, mtx, avail, prod, created, totRequired, numConsumed, done>>

MGo ==
    /\ pc = "check" /\ avail > 0 /\ ~Polling
    /\ pc' = "consume"
    /\ UNCHANGED <<prog, mtx, avail, prod, created, totRequired, numConsumed, done>>

MSpurious ==
    /\ pc = "asleep"
    /\ pc' = "relock"
    /\ UNCHANGED <<prog, mtx, avail, prod, created, totRequired, numConsumed, done>>

MConsume ==
    /\ pc = "consume" /\ avail > 0
    /\ avail' = avail - 1
    /\ numConsumed' = numConsumed + 1
    /\ done' = (numConsumed + 1 >= totRequired)
    /\ UNCHANGED <<prog, mtx, prod, pc, created, totRequired>>

MUnlock ==
    /\ pc = "consume" /\ avail = 0
    /\ mtx' = NoOne
    /\ pc' = IF done THEN "exit" ELSE "lock"
    /\ UNCHANGED <<prog, avail, prod, created, totRequired, numConsumed, done>>

MainStep == MCreate \/ MLock \/ MWait \/ MPoll \/ MGo \/ MConsume \/ MUnlock

Next == MainStep \/ MSpurious \/ \E p \in Producers : producer(p)

Spec == Init /\ [][Next]_vars

-----------------------------------------------------------------------------
(* Properties *)

PPcs == {"unborn", "loop", "lock", "locked", "unlock", "signal", "end"}
MPcs == {"create", "lock", "relock", "check", "asleep", "consume", "exit"}

\* Counters never go below zero, and threads are at one of their steps.
TypeOK ==
    /\ prog \in {"prod_condvar", "prod_no_condvar"}
    /\ mtx \in {NoOne, Main} \cup Producers
    /\ avail \in Nat /\ totRequired \in Nat /\ numConsumed \in Nat /\ created \in 0..Len(Counts)
    /\ prod \in [Producers -> [pc : PPcs, j : Nat]]
    /\ pc \in MPcs /\ done \in BOOLEAN

\* avail is signalled after the mutex is released (prod_condvar.c:35): the
\* main thread never sleeps over an available unit that no producer is still
\* going to signal.
NoLostWakeup ==
    pc = "asleep" /\ avail > 0 => \E p \in Producers : prod[p].pc \in {"unlock", "signal"}

Made(p) == prod[p].j + (IF prod[p].pc \in {"unlock", "signal"} THEN 1 ELSE 0)

\* The n-th unit of producer p is <<p, n>>.
MadeUnits  == UNION {{p} \X (1..Made(p)) : p \in Producers}
AskedUnits == UNION {{p} \X (1..Counts[p]) : p \in Producers}

\* Every unit made is available or consumed, once; and the program ends only
\* when all the units it was asked for are consumed.
AllConsumed ==
    /\ avail + numConsumed = Cardinality(MadeUnits)
    /\ pc = "exit" => numConsumed = Cardinality(AskedUnits)

Finished == pc = "exit"
=============================================================================

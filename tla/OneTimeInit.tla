---------------------------- MODULE OneTimeInit ----------------------------
(***************************************************************************)
(* one_time_init() of threads/one_time_init.c and threads/exr3101.c: a     *)
(* mutex and a flag that make threads run init() once.  Every thread calls *)
(* it a number of times, as threadFunc does twice.  init() takes time:     *)
(* other threads run between its start and its end.                        *)
(***************************************************************************)
EXTENDS Integers

CONSTANTS
    Threads,
    Calls       \* calls each thread makes

NoOne == 0

OnceAssumption == Calls \in Nat /\ NoOne \notin Threads

VARIABLES
    mtx, called,    \* struct once_struct
    begun, ended,   \* how often init() was entered and has returned
    pc, left        \* per thread: its place, and the calls it has left

vars == <<mtx, called, begun, ended, pc, left>>

Init ==
    /\ mtx = NoOne /\ called = FALSE
    /\ begun = 0 /\ ended = 0
    /\ pc = [t \in Threads |-> "idle"]
    /\ left = [t \in Threads |-> Calls]

Go(t, from, to) == pc[t] = from /\ pc' = [pc EXCEPT ![t] = to]

\* Mutant: a call made after init() was entered returns at once.
Lock_Unlocked(t) ==
    /\ left[t] > 0
    /\ IF begun > 0
       THEN /\ pc[t] = "idle" /\ left' = [left EXCEPT ![t] = @ - 1] /\ UNCHANGED <<mtx, pc>>
       ELSE mtx = NoOne /\ mtx' = t /\ Go(t, "idle", "test") /\ UNCHANGED left
    /\ UNCHANGED <<called, begun, ended>>

Lock(t) ==
    /\ left[t] > 0 /\ mtx = NoOne
    /\ Go(t, "idle", "test")
    /\ mtx' = t
    /\ UNCHANGED <<called, begun, ended, left>>

Test(t) ==
    /\ pc[t] = "test"
    /\ pc' = [pc EXCEPT ![t] = IF called THEN "unlock" ELSE "init"]
    /\ UNCHANGED <<mtx, called, begun, ended, left>>

\* (*init)() is entered ...
InitBegins(t) ==
    /\ Go(t, "init", "inInit")
    /\ begun' = begun + 1
    /\ UNCHANGED <<mtx, called, ended, left>>

\* ... and returns; the flag is set after it.
InitEnds(t) ==
    /\ Go(t, "inInit", "unlock")
    /\ ended' = ended + 1 /\ called' = TRUE
    /\ UNCHANGED <<mtx, begun, left>>

Unlock(t) ==
    /\ Go(t, "unlock", "idle")
    /\ mtx' = NoOne
    /\ left' = [left EXCEPT ![t] = @ - 1]
    /\ UNCHANGED <<called, begun, ended>>

one_time_init(t) == Lock(t) \/ Test(t) \/ InitBegins(t) \/ InitEnds(t) \/ Unlock(t)

Next == \E t \in Threads : one_time_init(t)

Spec == Init /\ [][Next]_vars

-----------------------------------------------------------------------------
(* Properties *)

Inside == {"test", "init", "inInit", "unlock"}

\* A thread in the function holds the mutex.
TypeOK ==
    /\ mtx \in Threads \cup {NoOne} /\ called \in BOOLEAN
    /\ begun \in Nat /\ ended \in Nat
    /\ pc \in [Threads -> Inside \cup {"idle"}]
    /\ left \in [Threads -> Nat]
    /\ \A t \in Threads : pc[t] \in Inside <=> mtx = t

\* "We should see this message only once, no matter how many times
\* one_time_init() is called" (one_time_init.c:56-57).
InitOnce == begun <= 1

\* pthread_once()'s other promise (one_time_init.c:15-16): when a call has
\* returned, init() has returned, whichever thread ran it.
InitDoneOnReturn == \A t \in Threads : left[t] < Calls => ended = 1

Finished == \A t \in Threads : left[t] = 0
=============================================================================

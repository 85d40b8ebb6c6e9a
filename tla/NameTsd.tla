------------------------------ MODULE NameTsd ------------------------------
(***************************************************************************)
(* Threads that call dirname_tsd() and basename_tsd() (threads/name_tsd.c) *)
(* and print both results, as threads/exr3102_test.c does; the functions   *)
(* of threads/exr3101_test.c and strerror() of threads/strerror_tsd.c keep *)
(* their result the same way.  Each function has a once control, a key and *)
(* a buffer per thread that outlives the call and that the key's           *)
(* destructor frees.  pthread_once() and the keys are pthreads' (external);*)
(* what the functions compute is PathSplit's.                              *)
(***************************************************************************)
EXTENDS Integers, FiniteSets

CONSTANT Threads        \* every thread has a pathname of its own

TsdAssumption == IsFiniteSet(Threads)

Funcs == {"dirname", "basename"}
NULL  == 0
Blocks == 1..(2 * Cardinality(Threads))

Free    == <<"free">>
Nothing == [f \in Funcs |-> <<"nothing">>]

VARIABLES
    once,       \* per function: "no", "running" or "done"
    keys,       \* per function: keys created so far
    specific,   \* per thread and function: what pthread_getspecific returns
    heap,       \* per block: Free, or what the buffer holds
    pc, fn,     \* per thread: its place, and the function it is in
    ret,        \* per thread and function: the pointer returned
    printed     \* per thread: the two strings it printed

vars == <<once, keys, specific, heap, pc, fn, ret, printed>>

Init ==
    /\ once = [f \in Funcs |-> "no"] /\ keys = [f \in Funcs |-> 0]
    /\ specific = [t \in Threads |-> [f \in Funcs |-> NULL]]
    /\ heap = [b \in Blocks |-> Free]
    /\ pc = [t \in Threads |-> "idle"] /\ fn = [t \in Threads |-> "dirname"]
    /\ ret = [t \in Threads |-> [f \in Funcs |-> NULL]]
    /\ printed = [t \in Threads |-> Nothing]

Result(f, t) == <<f, "of the pathname of", t>>

Goto(t, p) == pc' = [pc EXCEPT ![t] = p]

\* printf()'s arguments are evaluated in any order.
Call(t) ==
    /\ pc[t] = "idle"
    /\ \E f \in Funcs : ret[t][f] = NULL /\ fn' = [fn EXCEPT ![t] = f]
    /\ Goto(t, "once")
    /\ UNCHANGED <<once, keys, specific, heap, ret, printed>>

\* pthread_once(): the first caller runs createKey, others wait for it.
Once(t) ==
    /\ pc[t] = "once" /\ once[fn[t]] # "running"
    /\ IF once[fn[t]] = "done"
       THEN Goto(t, "get") /\ UNCHANGED once
       ELSE Goto(t, "createKey") /\ once' = [once EXCEPT ![fn[t]] = "running"]
    /\ UNCHANGED <<keys, specific, heap, fn, ret, printed>>

createKey(t) ==
    /\ pc[t] = "createKey"
    /\ keys' = [keys EXCEPT ![fn[t]] = @ + 1]
    /\ once' = [once EXCEPT ![fn[t]] = "done"]
    /\ Goto(t, "get")
    /\ UNCHANGED <<specific, heap, fn, ret, printed>>

\* Mutant: one buffer for all threads, as in strerror.c.
Get_Static(t) ==
    /\ pc[t] = "get"
    /\ LET b == IF fn[t] = "dirname" THEN 1 ELSE 2 IN
       /\ specific' = [specific EXCEPT ![t][fn[t]] = b]
       /\ heap' = [heap EXCEPT ![b] = IF @ = Free THEN <<"zeroes">> ELSE @]
    /\ Goto(t, "copy")
    /\ UNCHANGED <<once, keys, fn, ret, printed>>

\* The thread's buffer, allocated at its first call
Get(t) ==
    /\ pc[t] = "get"
    /\ IF specific[t][fn[t]] = NULL
       THEN \E b \in Blocks :
              /\ heap[b] = Free /\ \A c \in Blocks : heap[c] = Free => b <= c
              /\ heap' = [heap EXCEPT ![b] = <<"zeroes">>]
              /\ specific' = [specific EXCEPT ![t][fn[t]] = b]
       ELSE UNCHANGED <<heap, specific>>
    /\ Goto(t, "copy")
    /\ UNCHANGED <<once, keys, fn, ret, printed>>

\* strncpy() of the whole pathname ...
CopyPath(t) ==
    /\ pc[t] = "copy"
    /\ heap' = [heap EXCEPT ![specific[t][fn[t]]] = <<"pathname of", t>>]
    /\ Goto(t, "cut")
    /\ UNCHANGED <<once, keys, specific, fn, ret, printed>>

\* ... which is then cut in place, wherever other threads are.
CutAndReturn(t) ==
    /\ pc[t] = "cut"
    /\ heap' = [heap EXCEPT ![specific[t][fn[t]]] =
                   IF @ = <<"pathname of", t>> THEN Result(fn[t], t) ELSE <<"mixed up">>]
    /\ ret' = [ret EXCEPT ![t][fn[t]] = specific[t][fn[t]]]
    /\ Goto(t, "idle")
    /\ UNCHANGED <<once, keys, specific, fn, printed>>

Report(t) ==
    /\ pc[t] = "idle" /\ \A f \in Funcs : ret[t][f] # NULL
    /\ printed' = [printed EXCEPT ![t] = [f \in Funcs |-> heap[ret[t][f]]]]
    /\ Goto(t, "exit")
    /\ UNCHANGED <<once, keys, specific, heap, fn, ret>>

\* Mutant: the keys are created without a destructor.
destructor_None(t) ==
    /\ pc[t] = "exit"
    /\ specific' = [specific EXCEPT ![t] = [f \in Funcs |-> NULL]]
    /\ Goto(t, "gone")
    /\ UNCHANGED <<once, keys, heap, fn, ret, printed>>

\* At the thread's end the destructor frees what its keys refer to.
destructor(t) ==
    /\ pc[t] = "exit"
    /\ heap' = [b \in Blocks |-> IF \E f \in Funcs : specific[t][f] = b THEN Free ELSE heap[b]]
    /\ specific' = [specific EXCEPT ![t] = [f \in Funcs |-> NULL]]
    /\ Goto(t, "gone")
    /\ UNCHANGED <<once, keys, fn, ret, printed>>

threadRoutine(t) ==
    \/ Call(t) \/ Once(t) \/ createKey(t) \/ Get(t) \/ CopyPath(t) \/ CutAndReturn(t)
    \/ Report(t) \/ destructor(t)

Next == \E t \in Threads : threadRoutine(t)

Spec == Init /\ [][Next]_vars

-----------------------------------------------------------------------------
(* Properties *)

\* "Thread-safe implementation" (name_tsd.c:36-37, 105-106): what a thread
\* prints is the result for its own pathname, from both functions.
ThreadSafe ==
    \A t \in Threads : printed[t] = Nothing \/ printed[t] = [f \in Funcs |-> Result(f, t)]

\* Each function creates one key, and reads it only when it exists.
KeyBeforeUse ==
    \A f \in Funcs :
        /\ keys[f] <= 1
        /\ \A t \in Threads : fn[t] = f /\ pc[t] \in {"get", "copy", "cut"} => keys[f] = 1

\* Every buffer belongs to one thread and one key, and is freed with it.
NoLeak ==
    \A b \in Blocks :
        heap[b] # Free => Cardinality({o \in Threads \X Funcs : specific[o[1]][o[2]] = b}) = 1

Finished == \A t \in Threads : pc[t] = "gone"
=============================================================================

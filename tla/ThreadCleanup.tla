--------------------------- MODULE ThreadCleanup ---------------------------
(***************************************************************************)
(* threads/thread_cleanup.c: main cancels a thread that waits on a         *)
(* condition variable, or lets it go on; a cleanup handler frees the       *)
(* thread's buffer and unlocks the mutex either way.  Cancellation is      *)
(* deferred (external): it takes effect at a cancellation point, and in    *)
(* pthread_cond_wait() only once the mutex is held again.                  *)
(* threads/thread_cancel.c: main cancels a thread that loops for ever.     *)
(***************************************************************************)
EXTENDS Integers

CONSTANT MaxLoops       \* bound: the loop counter of thread_cancel.c stops here

CleanupAssumption == MaxLoops \in Nat

VARIABLES
    mtx, glob,      \* shared: the mutex ("free", "main" or "thread") and the predicate
    buf,            \* the thread's buffer: "none", "allocated", "freed" or "twice"
    handler,        \* whether the cleanup handler is pushed
    cancel,         \* a cancellation request is pending
    tpc, res,       \* the thread, and what pthread_join() will get
    pc,             \* main
    prog, inTime,   \* the program; whether its thread gets to its wait while main sleeps
    j               \* thread_cancel.c: the loop counter

run  == <<prog, inTime, j>>
vars == <<mtx, glob, buf, handler, cancel, tpc, res, pc, prog, inTime, j>>

Init ==
    /\ mtx = "free" /\ glob = 0 /\ buf = "none" /\ handler = FALSE /\ cancel = FALSE
    /\ tpc = "start" /\ res = "none" /\ pc = "sleep"
    /\ prog \in {"thread_cleanup", "thread_cancel"} /\ inTime \in BOOLEAN /\ j = 1

-----------------------------------------------------------------------------
(* threadFunc *)

TMalloc ==
    /\ prog = "thread_cleanup"
    /\ tpc = "start" /\ tpc' = "print" /\ buf' = "allocated"
    /\ UNCHANGED <<mtx, glob, handler, cancel, res, pc, run>>

\* printf() may be a cancellation point (thread_cancel.c:25).
TPrint ==
    /\ tpc = "print"
    /\ \/ tpc' = "lock" /\ UNCHANGED res
       \/ cancel /\ tpc' = "ended" /\ res' = "PTHREAD_CANCELED"
    /\ UNCHANGED <<mtx, glob, buf, handler, cancel, pc, run>>

TLock ==
    /\ tpc = "lock" /\ mtx = "free"
    /\ mtx' = "thread" /\ tpc' = "push"
    /\ UNCHANGED <<glob, buf, handler, cancel, res, pc, run>>

TPush ==
    /\ tpc = "push" /\ tpc' = "test" /\ handler' = TRUE
    /\ UNCHANGED <<mtx, glob, buf, cancel, res, pc, run>>

TTest ==
    /\ tpc = "test"
    /\ IF glob = 0 THEN tpc' = "waiting" /\ mtx' = "free"
                   ELSE tpc' = "pop" /\ UNCHANGED mtx
    /\ UNCHANGED <<glob, buf, handler, cancel, res, pc, run>>

\* A cancelled wait, or a spurious wakeup: the mutex is taken first.
TWake ==
    /\ tpc = "waiting" /\ tpc' = "woken"
    /\ UNCHANGED <<mtx, glob, buf, handler, cancel, res, pc, run>>

TRelock ==
    /\ tpc = "woken" /\ mtx = "free"
    /\ mtx' = "thread" /\ tpc' = IF cancel THEN "cancelled" ELSE "test"
    /\ UNCHANGED <<glob, buf, handler, cancel, res, pc, run>>

\* Mutant: the handler leaves the mutex locked.
cleanupHandler_NoUnlock ==
    /\ tpc \in {"cancelled", "pop"} /\ handler
    /\ handler' = FALSE
    /\ buf' = IF buf = "allocated" THEN "freed" ELSE "twice"
    /\ UNCHANGED mtx

cleanupHandler ==
    /\ tpc \in {"cancelled", "pop"} /\ handler
    /\ handler' = FALSE
    /\ buf' = IF buf = "allocated" THEN "freed" ELSE "twice"
    /\ mtx' = "free"

\* pthread_cleanup_pop(1) on the normal way out, or the cancellation
TEnd ==
    /\ cleanupHandler
    /\ tpc' = "ended"
    /\ res' = IF tpc = "cancelled" THEN "PTHREAD_CANCELED" ELSE "normal"
    /\ UNCHANGED <<glob, cancel, pc, run>>

\* thread_cancel.c: a loop of cancellation points
CLoop ==
    /\ prog = "thread_cancel" /\ tpc \in {"start", "looping"}
    /\ IF cancel THEN tpc' = "ended" /\ res' = "PTHREAD_CANCELED" /\ UNCHANGED j
                 ELSE tpc' = "looping" /\ j' = (IF j < MaxLoops THEN j + 1 ELSE j) /\ UNCHANGED res
    /\ UNCHANGED <<mtx, glob, buf, handler, cancel, pc, prog, inTime>>

threadFunc == CLoop \/ TMalloc \/ TPrint \/ TLock \/ TPush \/ TTest \/ TRelock \/ TEnd

-----------------------------------------------------------------------------
(* main: argc = 1 cancels, any argument signals *)

Ready == pc = "sleep" /\ (inTime => tpc \in {"waiting", "woken", "looping"})

MCancel ==
    /\ Ready
    /\ cancel' = TRUE /\ pc' = "join"
    /\ UNCHANGED <<mtx, glob, buf, handler, tpc, res, run>>

MLock ==
    /\ Ready /\ mtx = "free" /\ prog = "thread_cleanup"
    /\ mtx' = "main" /\ pc' = "set"
    /\ UNCHANGED <<glob, buf, handler, cancel, tpc, res, run>>

MSet ==
    /\ pc = "set" /\ glob' = 1 /\ pc' = "unlock"
    /\ UNCHANGED <<mtx, buf, handler, cancel, tpc, res, run>>

MUnlock ==
    /\ pc = "unlock" /\ mtx' = "free" /\ pc' = "signal"
    /\ UNCHANGED <<glob, buf, handler, cancel, tpc, res, run>>

MSignal ==
    /\ pc = "signal" /\ pc' = "join"
    /\ tpc' = IF tpc = "waiting" THEN "woken" ELSE tpc
    /\ UNCHANGED <<mtx, glob, buf, handler, cancel, res, run>>

MJoin ==
    /\ pc = "join" /\ tpc = "ended"
    /\ pc' = "exit"
    /\ UNCHANGED <<mtx, glob, buf, handler, cancel, tpc, res, run>>

main == MCancel \/ MLock \/ MSet \/ MUnlock \/ MSignal \/ MJoin

Next == threadFunc \/ TWake \/ main

Spec == Init /\ [][Next]_vars

-----------------------------------------------------------------------------
(* Properties *)

\* The thread ends with the mutex released (thread_cleanup.c:33-36), and with
\* its buffer freed, once, unless it was cancelled before it could push the
\* handler; and it is reported as cancelled only if it was.
CleanedUp ==
    tpc = "ended" /\ prog = "thread_cleanup" =>
        /\ mtx # "thread"
        /\ buf = "freed" \/ (~inTime /\ res = "PTHREAD_CANCELED" /\ buf = "allocated")
        /\ res = "PTHREAD_CANCELED" => cancel

\* thread_cancel.c never says that its thread was not cancelled, which "should
\* not happen!" (line 59).
Finished == pc = "exit" /\ (prog = "thread_cancel" => res = "PTHREAD_CANCELED")
=============================================================================

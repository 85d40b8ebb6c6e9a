--------------------------- MODULE ThreadPrograms ---------------------------
(***************************************************************************)
(* Four programs of threads/ that wait for each other's threads: their     *)
(* state, and an instance of the module of each.  MCThreads adds the other *)
(* programs and lets one of them all run; ThreadsProofs has the proofs.    *)
(***************************************************************************)
EXTENDS Integers

CONSTANTS
    N,                              \* MultiJoin: threads
    OnceThreads, Calls,             \* OneTimeInit
    MaxLoops,                       \* ThreadCleanup
    numBarriers, numThreads         \* BarrierDemo

VARIABLES
    pc, mtx, created,                                   \* of more than one program
    threadMutex, state, numUnjoined, thr, idx, numLive, \* MultiJoin
    called, begun, ended, left,                         \* OneTimeInit
    glob, buf, handler, cancel, tpc, prog, res, j, inTime,  \* ThreadCleanup
    blocked, serial, s, joined                          \* BarrierDemo

Join  == INSTANCE MultiJoin
Once  == INSTANCE OneTimeInit WITH Threads <- OnceThreads
Clean == INSTANCE ThreadCleanup
Barr  == INSTANCE BarrierDemo
=============================================================================

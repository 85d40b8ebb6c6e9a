------------------------------- MODULE MCIpc -------------------------------
(***************************************************************************)
(* The programs of pipes/, svsem/ and svmsg/ that talk to each other.  A   *)
(* behaviour is a run of one system (system); the variables that only      *)
(* others have keep the value Unused.                                      *)
(***************************************************************************)
EXTENDS Integers, Sequences

CONSTANTS
    SemProcs, MAX_TRIES, SemOps, CreationVals, MaxSets,     \* SemInit
    Input, BUF_SIZE, PipeSize, NumKids,                     \* Pipes
    FifoClients, SeqLens,                                   \* FifoSeqnum
    FileClients, Files, QueueLen, ForkFails,                \* SvmsgFile
    MaxKills

VARIABLES
    system,
    prog, server, req, client, kills,                           \* of more than one system
    set, ideal, pc, semid, tries, op,                           \* SemInit
    ip, buf, left, out, data, rd, wr, dead,                     \* Pipes
    seqNum, requests, exists, resp, seqLen, printed,            \* FifoSeqnum
    serverQ, sigchld, child, sent, clientQ, file, totBlocks, lost   \* SvmsgFile

semVars  == <<set, ideal, pc, semid, tries, op>>
pipeVars == <<ip, buf, left, out, data, rd, wr, dead>>
fifoVars == <<seqNum, requests, exists, resp, seqLen, printed>>
fileVars == <<serverQ, sigchld, child, sent, clientQ, file, totBlocks, lost>>

vars == <<system, prog, server, req, client, kills, semVars, pipeVars, fifoVars, fileVars>>

Sem  == INSTANCE SemInit WITH Procs <- SemProcs
Pipe == INSTANCE Pipes
Fifo == INSTANCE FifoSeqnum WITH Clients <- FifoClients
File == INSTANCE SvmsgFile WITH Clients <- FileClients

ASSUME IpcAssumption ==
    /\ Sem!SemInitAssumption /\ Pipe!PipesAssumption /\ Fifo!FifoAssumption
    /\ File!SvmsgAssumption

Minus_1_Plus_2 == {-1, 2}
One_To_Four    == <<1, 2, 3, 4>>
Missing_0_2    == {-1, 0, 2}

Unused == "unused"
Off(v) == v = Unused
NoSem  == Off(set) /\ Off(ideal) /\ Off(pc) /\ Off(semid) /\ Off(tries) /\ Off(op)
NoPipe == /\ Off(ip) /\ Off(buf) /\ Off(left) /\ Off(out) /\ Off(data) /\ Off(rd) /\ Off(wr)
          /\ Off(dead)
NoFifo == Off(seqNum) /\ Off(requests) /\ Off(exists) /\ Off(resp) /\ Off(seqLen) /\ Off(printed)
NoFile == /\ Off(serverQ) /\ Off(sigchld) /\ Off(child) /\ Off(sent) /\ Off(clientQ) /\ Off(file)
          /\ Off(totBlocks) /\ Off(lost)
NoServer == Off(server) /\ Off(req) /\ Off(client) /\ Off(kills)

Init ==
    \/ system = "sem" /\ Sem!Init /\ NoPipe /\ NoFifo /\ NoFile /\ NoServer
    \/ system = "pipes" /\ Pipe!Init /\ NoSem /\ NoFifo /\ NoFile /\ NoServer
    \/ system = "fifo" /\ Fifo!Init /\ NoSem /\ NoPipe /\ NoFile /\ Off(prog)
    \/ system = "file" /\ File!Init /\ NoSem /\ NoPipe /\ NoFifo /\ Off(prog)

\* The system that runs, and the variables that are not its own
In(name) == system = name /\ UNCHANGED system
InSem  == In("sem") /\ UNCHANGED <<server, req, client, kills, pipeVars, fifoVars, fileVars>>
InPipe == In("pipes") /\ UNCHANGED <<server, req, client, kills, semVars, fifoVars, fileVars>>
InFifo == In("fifo") /\ UNCHANGED <<prog, semVars, pipeVars, fileVars>>
InFile == In("file") /\ UNCHANGED <<prog, semVars, pipeVars, fifoVars>>

Server ==
    \/ InFifo /\ Fifo!main
    \/ InFile /\ File!serverMain

\* A process: a client, one of a family of processes, or the child of a server
Process(p) ==
    \/ InSem /\ p \in SemProcs /\ Sem!main(p)
    \/ InPipe /\ p \in Pipe!Procs /\ Pipe!process(p)
    \/ InFifo /\ p \in FifoClients /\ Fifo!clientMain(p)
    \/ InFile /\ p \in FileClients /\ File!clientMain(p)

ServerChild(p) == InFile /\ p \in FileClients /\ File!serveRequest(p)

\* Signals that kill a process, and the removal of the semaphores
Outside ==
    \/ InSem /\ (Sem!Remove \/ \E p \in SemProcs : Sem!Kill(p))
    \/ InFifo /\ \E c \in FifoClients : Fifo!Kill(c)
    \/ InFile /\ \E c \in FileClients : File!Kill(c)

Pids == SemProcs \cup Pipe!Procs \cup FifoClients \cup FileClients

Next == Server \/ Outside \/ \E p \in Pids : Process(p) \/ ServerChild(p)

\* Every process that can run does.
Fairness == WF_vars(Server) /\ \A p \in Pids : WF_vars(Process(p)) /\ WF_vars(ServerChild(p))

Spec == Init /\ [][Next]_vars /\ Fairness

-----------------------------------------------------------------------------
(* Properties *)

\* svsem_good_init.c: an initialised semaphore has the value of all the
\* operations done on it, no initialisation wipes one out (lines 50-51); and
\* the creator's dummy semop() never has to wait (53-57).
GoodInit == system = "sem" => Sem!NoOpLost /\ Sem!DummyNeverWaits

\* svsem_bad_init.c loses operations, but never the creator's own.
BadCreatorsOpStays == system = "sem" => Sem!CreatorsOpStays

\* pipe_sync.c:22-25: end-of-file tells the parent that all children are done.
PipesSyncAfterAll == system = "pipes" => Pipe!SyncAfterAll

\* simple_pipe.c, pipe_ls_wc.c, change_case.c: what goes in comes out.
PipesEcho == system = "pipes" => Pipe!Echo

\* fifo_seqnum_server.c:16-17: the sequences handed out do not overlap, also
\* when clients are killed at any moment.
FifoUniqueNumbers == system = "fifo" => Fifo!UniqueNumbers

\* svmsg_file_client.c: success means the whole file, failure no file.
FileComplete == system = "file" => File!Complete

\* No one waits for good: semaphore users get to their own operation, every
\* process of the pipe programs ends, every client of the FIFO server is
\* answered unless a client was killed, and every client of the file server
\* unless it could not fork; no child of it stays a zombie (39-40).
AllSettle ==
    <>[] /\ system = "sem" => Sem!Settled
         /\ system = "pipes" => Pipe!Finished
         /\ system = "fifo" => Fifo!Finished
         /\ system = "file" => File!Served /\ File!Reaped
=============================================================================

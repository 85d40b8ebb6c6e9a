----------------------------- MODULE SvmsgFile -----------------------------
(***************************************************************************)
(* svmsg/svmsg_file_server.c and svmsg_file_client.c: a file server that   *)
(* forks a child per request, over System V message queues (external: a    *)
(* send blocks while the queue is full and fails once it is removed).  A   *)
(* file is a number of blocks of RESP_MSG_SIZE bytes, or cannot be opened. *)
(* Clients may be killed, which leaves their queue behind; fork() may fail.*)
(***************************************************************************)
EXTENDS Integers, Sequences

CONSTANTS
    Clients,
    Files,      \* what a client may ask for: a number of blocks, or Missing
    QueueLen,   \* messages a queue holds, the server's or a client's
    MaxKills,   \* bound: clients that are killed
    ForkFails   \* whether fork() may fail

Missing == -1
NoClient == 0
SvmsgAssumption ==
    Files \subseteq Nat \cup {Missing} /\ QueueLen \in Nat \ {0} /\ ForkFails \in BOOLEAN

VARIABLES
    server, serverQ, req,   \* the parent, its queue ("removed" at the end), the request received
    sigchld,                \* SIGCHLD is pending
    child, sent,            \* per client: the child that serves it, and blocks it has sent
    clientQ,                \* per client: its queue
    client, file, totBlocks, lost,  \* per client; lost: its data was cut short by a read error
    kills

vars == <<server, serverQ, req, sigchld, child, sent, clientQ, client, file, totBlocks, lost, kills>>
serverVars == <<server, serverQ, req, sigchld>>

NoQueue == [open |-> FALSE, msgs |-> << >>]

Init ==
    /\ server = "start" /\ serverQ = NoQueue /\ req = NoClient /\ sigchld = FALSE
    /\ child = [c \in Clients |-> "none"] /\ sent = [c \in Clients |-> 0]
    /\ clientQ = [c \in Clients |-> NoQueue]
    /\ client = [c \in Clients |-> "start"] /\ file \in [Clients -> Files]
    /\ totBlocks = [c \in Clients |-> 0] /\ lost = [c \in Clients |-> FALSE] /\ kills = 0

-----------------------------------------------------------------------------
(* svmsg_file_server.c: the parent *)

ServerStart ==
    /\ server = "start" /\ server' = "msgrcv"
    /\ serverQ' = [open |-> TRUE, msgs |-> << >>]
    /\ UNCHANGED <<req, sigchld, child, sent, clientQ, client, file, totBlocks, lost, kills>>

\* A msgrcv() that SIGCHLD interrupts is made again.
ServerReceive ==
    /\ server = "msgrcv" /\ serverQ.msgs # << >>
    /\ req' = Head(serverQ.msgs) /\ serverQ' = [serverQ EXCEPT !.msgs = Tail(@)]
    /\ server' = "fork"
    /\ UNCHANGED <<sigchld, child, sent, clientQ, client, file, totBlocks, lost, kills>>

ServerFork ==
    /\ server = "fork"
    /\ \/ child' = [child EXCEPT ![req] = "open"] /\ server' = "msgrcv" /\ UNCHANGED serverQ
       \/ ForkFails /\ server' = "exit" /\ serverQ' = NoQueue /\ UNCHANGED child
    /\ UNCHANGED <<req, sigchld, sent, clientQ, client, file, totBlocks, lost, kills>>

\* Mutant: one child per signal.
grimReaper_One ==
    /\ sigchld /\ server # "exit" /\ sigchld' = FALSE
    /\ \E z \in Clients : /\ child[z] = "zombie"
                          /\ child' = [child EXCEPT ![z] = "reaped"]
    /\ UNCHANGED <<server, serverQ, req, sent, clientQ, client, file, totBlocks, lost, kills>>

\* The handler waits for every child that has ended by now.
grimReaper ==
    /\ sigchld /\ server # "exit" /\ sigchld' = FALSE
    /\ child' = [c \in Clients |-> IF child[c] = "zombie" THEN "reaped" ELSE child[c]]
    /\ UNCHANGED <<server, serverQ, req, sent, clientQ, client, file, totBlocks, lost, kills>>

serverMain == ServerStart \/ ServerReceive \/ ServerFork \/ grimReaper

-----------------------------------------------------------------------------
(* svmsg_file_server.c: serveRequest(), in the child of client c *)

Send(c, type) == clientQ' = [clientQ EXCEPT ![c].msgs = Append(@, type)]
Room(c) == Len(clientQ[c].msgs) < QueueLen

\* open(), and the failure response
serveOpen(c) ==
    /\ child[c] = "open"
    /\ child' = [child EXCEPT ![c] = IF file[c] = Missing THEN "failure" ELSE "read"]
    /\ UNCHANGED <<serverVars, sent, clientQ, client, file, totBlocks, lost, kills>>

\* read(): the next block, end-of-file, or an error, which is taken for it
serveRead(c) ==
    /\ child[c] = "read"
    /\ IF sent[c] < file[c]
       THEN \/ child' = [child EXCEPT ![c] = "data"] /\ UNCHANGED lost
            \/ child' = [child EXCEPT ![c] = "end"] /\ lost' = [lost EXCEPT ![c] = TRUE]
       ELSE child' = [child EXCEPT ![c] = "end"] /\ UNCHANGED lost
    /\ UNCHANGED <<serverVars, sent, clientQ, client, file, totBlocks, kills>>

\* Mutant: the file is not read to its end when its last block is sent.
serveSend_OneShort(c) ==
    /\ child[c] = "data" /\ clientQ[c].open /\ Room(c)
    /\ Send(c, "DATA") /\ sent' = [sent EXCEPT ![c] = @ + 1]
    /\ child' = [child EXCEPT ![c] = IF sent'[c] + 1 = file[c] THEN "end" ELSE "read"]
    /\ UNCHANGED <<serverVars, client, file, totBlocks, lost, kills>>

serveSend(c) ==
    /\ child[c] = "data"
    /\ IF clientQ[c].open
       THEN /\ Room(c) /\ Send(c, "DATA") /\ sent' = [sent EXCEPT ![c] = @ + 1]
            /\ child' = [child EXCEPT ![c] = "read"]
       ELSE child' = [child EXCEPT ![c] = "end"] /\ UNCHANGED <<clientQ, sent>>
    /\ UNCHANGED <<serverVars, client, file, totBlocks, lost, kills>>

\* The last response; the child ends, whether it could be sent or not.
serveEnd(c) ==
    /\ child[c] \in {"end", "failure"}
    /\ IF clientQ[c].open
       THEN Room(c) /\ Send(c, IF child[c] = "end" THEN "END" ELSE "FAILURE")
       ELSE UNCHANGED clientQ
    /\ child' = [child EXCEPT ![c] = "zombie"] /\ sigchld' = TRUE
    /\ UNCHANGED <<server, serverQ, req, sent, client, file, totBlocks, lost, kills>>

serveRequest(c) == serveOpen(c) \/ serveRead(c) \/ serveSend(c) \/ serveEnd(c)

-----------------------------------------------------------------------------
(* svmsg_file_client.c *)

ClientStart(c) ==
    /\ client[c] = "start"
    /\ IF serverQ.open
       THEN client' = [client EXCEPT ![c] = "send"] /\ clientQ' = [clientQ EXCEPT ![c].open = TRUE]
       ELSE client' = [client EXCEPT ![c] = "failed"] /\ UNCHANGED clientQ
    /\ UNCHANGED <<serverVars, child, sent, file, totBlocks, lost, kills>>

\* exit() runs removeQueue(), whatever the reason.
Exit(c, how) ==
    client' = [client EXCEPT ![c] = how] /\ clientQ' = [clientQ EXCEPT ![c] = NoQueue]

\* msgsnd() waits while the server's queue is full.
ClientSend(c) ==
    /\ client[c] = "send"
    /\ IF serverQ.open
       THEN /\ Len(serverQ.msgs) < QueueLen
            /\ serverQ' = [serverQ EXCEPT !.msgs = Append(@, c)]
            /\ client' = [client EXCEPT ![c] = "first"] /\ UNCHANGED clientQ
       ELSE Exit(c, "failed") /\ UNCHANGED serverQ
    /\ UNCHANGED <<server, req, sigchld, child, sent, file, totBlocks, lost, kills>>

\* A failure counts only as the first response; RESP_MT_END ends the loop.
ClientReceive(c) ==
    /\ client[c] \in {"first", "next"} /\ clientQ[c].msgs # << >>
    /\ LET type == Head(clientQ[c].msgs) IN
       IF type = "FAILURE" /\ client[c] = "first" THEN Exit(c, "failed") /\ UNCHANGED totBlocks
       ELSE IF type # "DATA" THEN Exit(c, "done") /\ UNCHANGED totBlocks
       ELSE /\ totBlocks' = [totBlocks EXCEPT ![c] = @ + 1]
            /\ client' = [client EXCEPT ![c] = "next"]
            /\ clientQ' = [clientQ EXCEPT ![c].msgs = Tail(@)]
    /\ UNCHANGED <<serverVars, child, sent, file, lost, kills>>

clientMain(c) == ClientStart(c) \/ ClientSend(c) \/ ClientReceive(c)

\* By a signal: no exit handler runs, and the queue stays.
Kill(c) ==
    /\ kills < MaxKills /\ client[c] \in {"start", "send", "first", "next"}
    /\ client' = [client EXCEPT ![c] = "killed"] /\ kills' = kills + 1
    /\ UNCHANGED <<serverVars, child, sent, clientQ, file, totBlocks, lost>>

Next ==
    \/ serverMain
    \/ \E c \in Clients : serveRequest(c) \/ clientMain(c) \/ Kill(c)

Spec == Init /\ [][Next]_vars

-----------------------------------------------------------------------------
(* Properties *)

\* A client that reports success has all the blocks of the file it asked for
\* (svmsg_file_server.c:59-60: save for a read error, which it cannot see),
\* and one that reports failure asked for a file that cannot be opened.
Complete ==
    \A c \in Clients :
        /\ client[c] = "done" /\ ~lost[c] => totBlocks[c] = file[c]
        /\ client[c] = "failed" => \/ file[c] = Missing
                                   \/ child[c] = "none"     \* no server queue

\* Every client ends, even when others were killed with a full queue, unless
\* the server could not fork: then the clients whose request it had wait on.
Served ==
    \A c \in Clients : client[c] \in {"done", "failed", "killed"} \/ server = "exit"

\* No child is left a zombie while the server runs: SIGCHLDs that merge are
\* made up for by the loop in grimReaper() (lines 39-40).
Reaped == server # "exit" => \A c \in Clients : child[c] # "zombie"
=============================================================================

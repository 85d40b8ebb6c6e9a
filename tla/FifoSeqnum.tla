----------------------------- MODULE FifoSeqnum -----------------------------
(***************************************************************************)
(* pipes/fifo_seqnum_server.c and fifo_seqnum_client.c: the server hands   *)
(* out sequence numbers; requests come through one well-known FIFO, each   *)
(* answer goes through a FIFO of the client's own.  FIFOs are external: an *)
(* open blocks until the other end is opened, and a request is written and *)
(* read as a whole.  A client may be killed, which leaves its FIFO behind. *)
(* The numbers are those that a C int holds: a service in which the sum of *)
(* all lengths passes INT_MAX (fifo_seqnum_server.c:89) is left out.       *)
(***************************************************************************)
EXTENDS Integers, Sequences

CONSTANTS
    Clients,
    SeqLens,    \* the lengths a client may ask for
    MaxKills    \* bound: clients that are killed

FifoAssumption == SeqLens \subseteq Nat \ {0} /\ MaxKills \in Nat

NoReq == [pid |-> 0, seqLen |-> 0]
NoNum == -1

VARIABLES
    server, req, seqNum,    \* the server: its place, the request it works on, its service
    requests,               \* the server's FIFO
    exists,                 \* per client: its FIFO is there
    resp,                   \* per client: the answer in its FIFO
    client, seqLen,         \* per client: its place and what it asks for
    printed,                \* per client
    kills

vars == <<server, req, seqNum, requests, exists, resp, client, seqLen, printed, kills>>

\* SERVER_FIFO may be there already, from an earlier server ("open").
Init ==
    /\ server \in {"mkfifo", "open"} /\ req = NoReq /\ seqNum = 0 /\ requests = << >>
    /\ exists = [c \in Clients |-> FALSE] /\ resp = [c \in Clients |-> NoNum]
    /\ client = [c \in Clients |-> "start"] /\ seqLen \in [Clients -> SeqLens]
    /\ printed = [c \in Clients |-> NoNum] /\ kills = 0

-----------------------------------------------------------------------------
(* fifo_seqnum_server.c *)

ServerMkfifo ==
    /\ server = "mkfifo" /\ server' = "open"
    /\ UNCHANGED <<req, seqNum, requests, exists, resp, client, seqLen, printed, kills>>

\* open(SERVER_FIFO, O_RDONLY) waits for a writer; dummyFd then keeps one.
ServerOpen ==
    /\ server = "open" /\ \E c \in Clients : client[c] = "write"
    /\ server' = "read"
    /\ UNCHANGED <<req, seqNum, requests, exists, resp, client, seqLen, printed, kills>>

ServerRead ==
    /\ server = "read" /\ requests # << >>
    /\ req' = Head(requests) /\ requests' = Tail(requests)
    /\ server' = "openClient"
    /\ UNCHANGED <<seqNum, exists, resp, client, seqLen, printed, kills>>

\* open(clientFifo, O_WRONLY) waits for the client, if its FIFO is there.
ServerOpenClient ==
    /\ server = "openClient"
    /\ IF exists[req.pid]
       THEN /\ client[req.pid] = "open" /\ client' = [client EXCEPT ![req.pid] = "read"]
            /\ server' = "respond"
       ELSE server' = "read" /\ UNCHANGED client
    /\ UNCHANGED <<req, seqNum, requests, exists, resp, seqLen, printed, kills>>

\* Mutant: the next client gets the same number if this one is gone.
ServerRespond_OnlyIfRead ==
    /\ server = "respond" /\ server' = "read"
    /\ resp' = IF client[req.pid] = "read" THEN [resp EXCEPT ![req.pid] = seqNum] ELSE resp
    /\ seqNum' = IF printed[req.pid] # NoNum THEN seqNum + req.seqLen ELSE seqNum
    /\ UNCHANGED <<req, requests, exists, client, seqLen, printed, kills>>

\* write(), which fails if the client is gone, close(), and the update
ServerRespond ==
    /\ server = "respond" /\ server' = "read"
    /\ resp' = IF client[req.pid] = "read" THEN [resp EXCEPT ![req.pid] = seqNum] ELSE resp
    /\ seqNum' = seqNum + req.seqLen
    /\ UNCHANGED <<req, requests, exists, client, seqLen, printed, kills>>

main == ServerMkfifo \/ ServerOpen \/ ServerRead \/ ServerOpenClient \/ ServerRespond

-----------------------------------------------------------------------------
(* fifo_seqnum_client.c *)

ClientMkfifo(c) ==
    /\ client[c] = "start" /\ client' = [client EXCEPT ![c] = "openServer"]
    /\ exists' = [exists EXCEPT ![c] = TRUE]
    /\ UNCHANGED <<server, req, seqNum, requests, resp, seqLen, printed, kills>>

\* open(SERVER_FIFO, O_WRONLY): no FIFO ends the client, which removes its own
ClientOpenServer(c) ==
    /\ client[c] = "openServer"
    /\ IF server = "mkfifo"
       THEN client' = [client EXCEPT ![c] = "failed"] /\ exists' = [exists EXCEPT ![c] = FALSE]
       ELSE client' = [client EXCEPT ![c] = "write"] /\ UNCHANGED exists
    /\ UNCHANGED <<server, req, seqNum, requests, resp, seqLen, printed, kills>>

\* The open returns when the server has the FIFO open; then the request is sent.
ClientWrite(c) ==
    /\ client[c] = "write" /\ server # "open"
    /\ requests' = Append(requests, [pid |-> c, seqLen |-> seqLen[c]])
    /\ client' = [client EXCEPT ![c] = "open"]
    /\ UNCHANGED <<server, req, seqNum, exists, resp, seqLen, printed, kills>>

\* read() of the answer, printf(), exit() and removeFifo()
ClientRead(c) ==
    /\ client[c] = "read" /\ resp[c] # NoNum
    /\ printed' = [printed EXCEPT ![c] = resp[c]]
    /\ client' = [client EXCEPT ![c] = "done"] /\ exists' = [exists EXCEPT ![c] = FALSE]
    /\ UNCHANGED <<server, req, seqNum, requests, resp, seqLen, kills>>

clientMain(c) == ClientMkfifo(c) \/ ClientOpenServer(c) \/ ClientWrite(c) \/ ClientRead(c)

\* By a signal: no exit handler runs.
Kill(c) ==
    /\ kills < MaxKills /\ client[c] \notin {"done", "failed", "killed"}
    /\ client' = [client EXCEPT ![c] = "killed"] /\ kills' = kills + 1
    /\ UNCHANGED <<server, req, seqNum, requests, exists, resp, seqLen, printed>>

Next == main \/ \E c \in Clients : clientMain(c) \/ Kill(c)

Spec == Init /\ [][Next]_vars

-----------------------------------------------------------------------------
(* Properties *)

\* "the allocation of unique sequential numbers" (fifo_seqnum_server.c:16-17):
\* the sequences that clients were told of do not overlap.
UniqueNumbers ==
    \A c, d \in Clients :
        c # d /\ printed[c] # NoNum /\ printed[d] # NoNum =>
            printed[c] + seqLen[c] <= printed[d] \/ printed[d] + seqLen[d] <= printed[c]

\* Every client ends, unless one was killed: the server then waits in open()
\* for a reader of the FIFO left behind, and with it all the others.
Finished ==
    kills = 0 => \A c \in Clients : client[c] \in {"done", "failed"}
=============================================================================

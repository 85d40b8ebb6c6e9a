------------------------------ MODULE IpcProofs ------------------------------
(***************************************************************************)
(* Proofs about SemInit, FifoSeqnum and SvmsgFile, as MCIpc instantiates   *)
(* them, for all values of their constants, and about MCIpc, in which one  *)
(* of the systems runs (those about Pipes are in PipesProofs).             *)
(*                                                                         *)
(* SemInit: sem_otime separates the creator from the others.  While the    *)
(* creator has its semctl() or its dummy semop() still to do the time is   *)
(* zero, and the others come to their operation only once it is not.       *)
(* FifoSeqnum: every sequence answered so far ends at or below the         *)
(* server's counter, so the next one overlaps none of them; and a client   *)
(* that is done is not answered again.                                     *)
(* SvmsgFile: the blocks a client has received and those in its queue are  *)
(* those its child has sent, and the last response comes last; the server  *)
(* forks once for a client, so only that child sends to it.                *)
(***************************************************************************)
EXTENDS MCIpc, TLAPS

-----------------------------------------------------------------------------
(* Queues *)

\* A message comes last in a queue ...
LEMMA Added ==
    ASSUME NEW S, NEW s \in Seq(S), NEW x \in S
    PROVE  /\ Append(s, x) \in Seq(S) /\ Len(Append(s, x)) = Len(s) + 1 /\ Len(s) \in Nat
           /\ Append(s, x)[Len(s) + 1] = x
           /\ \A i \in 1..Len(s) : Append(s, x)[i] = s[i] /\ s[i] \in S
           /\ \A i \in 1..(Len(s) + 1) : i \in 1..Len(s) \/ i = Len(s) + 1
  BY SMTT(30)

\* ... and leaves it when it is the first.
LEMMA Removed ==
    ASSUME NEW S, NEW s \in Seq(S), s # << >>
    PROVE  /\ Tail(s) \in Seq(S) /\ Len(Tail(s)) = Len(s) - 1 /\ Len(s) \in Nat /\ Len(s) > 0
           /\ 1 \in 1..Len(s) /\ Head(s) = s[1] /\ s[1] \in S
           /\ \A i \in 1..(Len(s) - 1) : Tail(s)[i] = s[i + 1] /\ i + 1 \in 1..Len(s) /\ i + 1 # 1
  BY SMTT(30)

-----------------------------------------------------------------------------
(* SemInit *)

SemPlaces == {"start", "setval", "dummy", "getid", "try", "op", "done", "failed", "killed"}

SemTyped ==
    /\ set \in [id : Nat, by : SemProcs \cup {Sem!NoOne}, exists : BOOLEAN, val : Int, otime : BOOLEAN]
    /\ ideal \in Int /\ pc \in [SemProcs -> SemPlaces] /\ semid \in [SemProcs -> Nat]
    /\ op \in [SemProcs -> Int] /\ (~Sem!Good => \A p \in SemProcs : op[p] = 1)
    /\ \A p \in SemProcs : semid[p] <= set.id

\* Only the creator of the set initialises it, and before all operations.
CreatorInitialises ==
    \A p \in SemProcs : pc[p] \in {"setval", "dummy"} /\ semid[p] = set.id =>
        /\ set.by = p
        /\ Sem!Good => ~set.otime /\ ideal = 0
        /\ pc[p] = "dummy" => Sem!Good /\ set.val = 0

\* svsem_good_init comes to its operation on an initialised set only.
OpAfterInit ==
    Sem!Good => \A p \in SemProcs : pc[p] = "op" /\ semid[p] = set.id => set.otime

\* With svsem_bad_init the creator's semctl() is followed by increments only.
CreatorCounts ==
    ~Sem!Good => /\ set.val >= 0
             /\ \A p \in SemProcs :
                  p = set.by /\ p # Sem!NoOne /\ semid[p] = set.id /\ pc[p] = "done" => set.val >= 1

SemIInv ==
    SemTyped /\ CreatorInitialises /\ OpAfterInit /\ CreatorCounts /\ (Sem!Good /\ set.otime => set.val = ideal)

\* At the start nobody is in a set, whatever one is left from earlier runs.
LEMMA SemInitIInv == Sem!SemInitAssumption /\ Sem!Init => SemIInv
<1> SUFFICES ASSUME Sem!SemInitAssumption, Sem!Init PROVE SemIInv
  BY Zenon
<1>1. SemTyped
  <2>1. /\ set \in [id : Nat, by : SemProcs \cup {Sem!NoOne}, exists : BOOLEAN, val : Int, otime : BOOLEAN]
        /\ ideal \in Int
    <3>1. CASE set = [id |-> 0, by |-> Sem!NoOne, exists |-> FALSE, val |-> 0, otime |-> FALSE]
               /\ ideal = 0
      BY <3>1
    <3>2. CASE \E v \in CreationVals, used \in BOOLEAN :
                 set = [id |-> 1, by |-> Sem!NoOne, exists |-> TRUE, val |-> v, otime |-> used] /\ ideal = v
      <4>1. PICK v \in CreationVals, used \in BOOLEAN :
                 set = [id |-> 1, by |-> Sem!NoOne, exists |-> TRUE, val |-> v, otime |-> used] /\ ideal = v
        BY <3>2, ZenonT(30)
      <4>2. v \in Int
        BY DEF Sem!SemInitAssumption
      <4> QED
        BY <4>1, <4>2, Zenon
    <3> QED
      BY <3>1, <3>2, Zenon DEF Sem!Init
  <2>2. set.id \in Nat
    BY <2>1, Zenon
  <2>3. op \in [SemProcs -> Int] /\ (~Sem!Good => \A p \in SemProcs : op[p] = 1)
    <3>1. CASE Sem!Good
      BY <3>1, ZenonT(30) DEF Sem!SemInitAssumption, Sem!Init
    <3>2. CASE ~Sem!Good
      BY <3>2 DEF Sem!Init
    <3> QED
      BY <3>1, <3>2, Zenon
  <2> QED
    BY <2>1, <2>2, <2>3 DEF Sem!Init, SemTyped, SemPlaces
<1>2. CreatorInitialises /\ OpAfterInit
  BY Zenon DEF Sem!Init, CreatorInitialises, OpAfterInit
<1>3. CreatorCounts /\ (Sem!Good /\ set.otime => set.val = ideal)
  BY SMTT(30) DEF Sem!SemInitAssumption, Sem!Init, CreatorCounts
<1> QED
  BY <1>1, <1>2, <1>3, Zenon DEF SemIInv

\* No step of a process keeps the invariant from holding.
LEMMA SemStepIInv ==
    ASSUME Sem!SemInitAssumption, SemIInv, NEW p \in SemProcs, Sem!main(p) \/ Sem!Kill(p) PROVE SemIInv'
<1> USE DEF Sem!SemInitAssumption, SemIInv, SemTyped, SemPlaces, CreatorInitialises, OpAfterInit,
            CreatorCounts, Sem!Go, Sem!Valid, Sem!Good
<1>1. CASE Sem!Create(p)
  <2>1. CASE Sem!New(p)
    <3>1. PICK v \in CreationVals :
            set' = [id |-> set.id + 1, by |-> p, exists |-> TRUE, val |-> v, otime |-> FALSE]
      BY <2>1, ZenonT(30) DEF Sem!New
    <3>2. /\ ideal' = 0 /\ semid' = [semid EXCEPT ![p] = set.id + 1]
          /\ pc' = [pc EXCEPT ![p] = "setval"] /\ op' = op /\ prog' = prog
      BY <1>1, <2>1, Zenon DEF Sem!New, Sem!Create
    <3>3. v \in Nat /\ set.id \in Nat
      BY Zenon
    <3>4. SemTyped'
      BY <3>1, <3>2, <3>3
    <3>5. \A q \in SemProcs : q # p => semid'[q] # set'.id
      BY <3>1, <3>2, <3>3
    <3> QED
      BY <3>1, <3>2, <3>3, <3>4, <3>5, SMTT(30)
  <2>2. CASE ~Sem!New(p)
    BY <1>1, <2>2 DEF Sem!Create
  <2> QED
    BY <2>1, <2>2, ZenonT(30)
<1>2. CASE Sem!SetVal(p)
  BY <1>2 DEF Sem!SetVal
<1>3. CASE Sem!Dummy(p)
  BY <1>3, ZenonT(30) DEF Sem!Dummy
<1>4. CASE Sem!GetId(p)
  BY <1>4 DEF Sem!GetId
<1>5. CASE Sem!Try(p)
  BY <1>5 DEF Sem!Try
<1>6. CASE Sem!Op(p)
  <2>1. op[p] \in Int /\ (~Sem!Good => op[p] = 1)
    BY Zenon
  <2>2. /\ set' = [set EXCEPT !.val = set.val + op[p], !.otime = TRUE]
        /\ ideal' = ideal + op[p] /\ pc' = [pc EXCEPT ![p] = "done"]
        /\ semid' = semid /\ op' = op /\ prog' = prog /\ pc[p] = "op" /\ semid[p] = set.id
    BY <1>6, Zenon DEF Sem!Op
  <2>3. SemTyped'
    <3>1. set.val + op[p] \in Int /\ ideal + op[p] \in Int
      BY <2>1
    <3>2. /\ set' \in [id : Nat, by : SemProcs \cup {Sem!NoOne}, exists : BOOLEAN, val : Int, otime : BOOLEAN]
          /\ set'.id = set.id
      BY <2>2, <3>1, ZenonT(30)
    <3> QED
      BY <2>2, <3>1, <3>2, Zenon
  <2>4. CreatorInitialises'
    BY <2>2, ZenonT(30)
  <2>5. OpAfterInit'
    BY <2>2, Zenon
  <2>6. CreatorCounts'
    BY <2>1, <2>2
  <2>7. Sem!Good => set'.val = ideal'
    BY <2>1, <2>2, Zenon
  <2> QED
    BY <2>2, <2>3, <2>4, <2>5, <2>6, <2>7, Zenon
<1>7. CASE Sem!Gone(p)
  BY <1>7, ZenonT(30) DEF Sem!Gone
<1>8. CASE Sem!Kill(p)
  BY <1>8 DEF Sem!Kill
<1> HIDE DEF Sem!SemInitAssumption, SemIInv, SemTyped, SemPlaces, CreatorInitialises,
             OpAfterInit, CreatorCounts, Sem!Go, Sem!Valid, Sem!Good
<1> QED
  BY <1>1, <1>2, <1>3, <1>4, <1>5, <1>6, <1>7, <1>8, ZenonT(30) DEF Sem!main

\* Every step keeps the invariant.
LEMMA SemNextIInv ==
    ASSUME Sem!SemInitAssumption, SemIInv, [Sem!Next]_(Sem!vars) PROVE SemIInv'
<1>1. CASE Sem!Remove
  <2>1. /\ set' \in [id : Nat, by : SemProcs \cup {Sem!NoOne}, exists : BOOLEAN, val : Int,
                     otime : BOOLEAN]
        /\ set'.id = set.id /\ set'.by = set.by /\ set'.val = set.val /\ set'.otime = set.otime
        /\ UNCHANGED <<prog, ideal, pc, semid, op>>
    BY <1>1, ZenonT(30) DEF SemIInv, SemTyped, Sem!Remove
  <2>2. SemTyped'
    BY <2>1, Zenon DEF SemIInv, SemTyped, Sem!Good
  <2>3. CreatorInitialises' /\ OpAfterInit'
    BY <2>1, Zenon DEF SemIInv, CreatorInitialises, OpAfterInit, Sem!Good
  <2>4. CreatorCounts'
    BY <2>1, Zenon DEF SemIInv, CreatorCounts, Sem!Good
  <2> QED
    BY <2>1, <2>2, <2>3, <2>4, Zenon DEF SemIInv, Sem!Good
<1>2. CASE UNCHANGED Sem!vars
  BY <1>2, Zenon DEF SemIInv, SemTyped, CreatorInitialises, OpAfterInit, CreatorCounts, Sem!vars, Sem!Good
<1> QED
  BY <1>1, <1>2, SemStepIInv, Zenon DEF Sem!Next

\* The invariant gives the properties of both programs.
LEMMA SemIInvImplies == SemIInv => Sem!NoOpLost /\ Sem!DummyNeverWaits /\ Sem!CreatorsOpStays
<1> SUFFICES ASSUME SemIInv PROVE Sem!NoOpLost /\ Sem!DummyNeverWaits /\ Sem!CreatorsOpStays
  BY Zenon
<1>1. Sem!NoOpLost
  BY Zenon DEF SemIInv, Sem!NoOpLost
<1>2. Sem!DummyNeverWaits
  BY Zenon DEF SemIInv, CreatorInitialises, Sem!DummyNeverWaits, Sem!Valid
<1>3. Sem!CreatorsOpStays
  BY Zenon DEF SemIInv, SemTyped, CreatorCounts, Sem!CreatorsOpStays, Sem!Valid
<1> QED
  BY <1>1, <1>2, <1>3, Zenon

\* The invariant holds throughout.
LEMMA SemInvariant == ASSUME Sem!SemInitAssumption PROVE Sem!Spec => []SemIInv
  BY SemInitIInv, SemNextIInv, PTL DEF Sem!Spec

\* No operation is wiped out by an initialisation in svsem_good_init, however
\* many processes start at once and whichever of them are killed.
THEOREM GoodInitLosesNothing ==
    ASSUME Sem!SemInitAssumption PROVE Sem!Spec => []Sem!NoOpLost
  BY SemInvariant, SemIInvImplies, PTL

\* The creator's semop() that sets sem_otime never waits.
THEOREM DummyIsImmediate ==
    ASSUME Sem!SemInitAssumption PROVE Sem!Spec => []Sem!DummyNeverWaits
  BY SemInvariant, SemIInvImplies, PTL

\* svsem_bad_init loses others' operations, but never that of the creator.
THEOREM BadInitKeepsCreators ==
    ASSUME Sem!SemInitAssumption PROVE Sem!Spec => []Sem!CreatorsOpStays
  BY SemInvariant, SemIInvImplies, PTL

-----------------------------------------------------------------------------
(* FifoSeqnum *)

Requests == [pid : FifoClients, seqLen : SeqLens]
Answers  == Nat \cup {Fifo!NoNum}
FifoPlaces   == {"start", "openServer", "write", "open", "read", "done", "failed", "killed"}

FifoTyped ==
    /\ seqNum \in Nat /\ requests \in Seq(Requests)
    /\ resp \in [FifoClients -> Answers] /\ printed \in [FifoClients -> Answers]
    /\ seqLen \in [FifoClients -> SeqLens] /\ client \in [FifoClients -> FifoPlaces]
    /\ server \in {"openClient", "respond"} => req \in Requests

\* A request carries the length its client asks for.
OwnLength ==
    /\ \A i \in 1..Len(requests) : requests[i].seqLen = seqLen[requests[i].pid]
    /\ server \in {"openClient", "respond"} => req.seqLen = seqLen[req.pid]

\* The client with a printed number has ended, and printed its answer.
PrintedAnswer ==
    \A c \in FifoClients : printed[c] # Fifo!NoNum => client[c] = "done" /\ printed[c] = resp[c]

\* The sequences answered lie below the counter and apart from each other.
BelowCounter == \A c \in FifoClients : resp[c] # Fifo!NoNum => resp[c] + seqLen[c] <= seqNum
Apart ==
    \A c, d \in FifoClients :
        c # d /\ resp[c] # Fifo!NoNum /\ resp[d] # Fifo!NoNum =>
            resp[c] + seqLen[c] <= resp[d] \/ resp[d] + seqLen[d] <= resp[c]

FifoIInv == FifoTyped /\ OwnLength /\ PrintedAnswer /\ BelowCounter /\ Apart

\* Nothing is asked and nothing answered at the start.
LEMMA FifoInitIInv == Fifo!FifoAssumption /\ Fifo!Init => FifoIInv
<1> SUFFICES ASSUME Fifo!FifoAssumption, Fifo!Init PROVE FifoIInv
  BY Zenon
<1>1. requests \in Seq(Requests) /\ Len(requests) = 0
  BY DEF Fifo!Init
<1>2. FifoTyped /\ OwnLength
  BY <1>1 DEF Fifo!Init, FifoTyped, OwnLength, Answers, FifoPlaces, Fifo!NoNum
<1>3. PrintedAnswer /\ BelowCounter /\ Apart
  BY Zenon DEF Fifo!Init, PrintedAnswer, BelowCounter, Apart
<1> QED
  BY <1>2, <1>3, Zenon DEF FifoIInv

\* The server's steps keep the invariant.
LEMMA FifoServerIInv == Fifo!FifoAssumption /\ FifoIInv /\ Fifo!main => FifoIInv'
<1> SUFFICES ASSUME Fifo!FifoAssumption, FifoIInv, Fifo!main PROVE FifoIInv'
  BY Zenon
<1> USE DEF Fifo!FifoAssumption, FifoIInv, FifoTyped, OwnLength, PrintedAnswer, BelowCounter, Apart,
            Requests, Answers, FifoPlaces, Fifo!NoNum
<1>1. CASE Fifo!ServerMkfifo
  BY <1>1, Zenon DEF Fifo!ServerMkfifo
<1>2. CASE Fifo!ServerOpen
  BY <1>2, Zenon DEF Fifo!ServerOpen
<1>3. CASE Fifo!ServerRead
  <2>1. /\ requests \in Seq(Requests) /\ requests # << >>
        /\ requests' = Tail(requests) /\ req' = Head(requests)
    BY <1>3, Zenon DEF Fifo!ServerRead
  <2>2. /\ requests' \in Seq(Requests) /\ Len(requests') = Len(requests) - 1
        /\ \A i \in 1..(Len(requests) - 1) :
             requests'[i] = requests[i + 1] /\ i + 1 \in 1..Len(requests)
        /\ 1 \in 1..Len(requests) /\ req' = requests[1] /\ requests[1] \in Requests
    <3> HIDE DEF Requests, FifoIInv, FifoTyped, Fifo!FifoAssumption
    <3>1. /\ Tail(requests) \in Seq(Requests) /\ Len(Tail(requests)) = Len(requests) - 1
          /\ \A i \in 1..(Len(requests) - 1) :
               Tail(requests)[i] = requests[i + 1] /\ i + 1 \in 1..Len(requests)
          /\ 1 \in 1..Len(requests) /\ Head(requests) = requests[1] /\ requests[1] \in Requests
      BY <2>1, Removed, Zenon
    <3> QED
      BY <2>1, <3>1, Zenon
  <2>3. req' \in Requests /\ req'.seqLen = seqLen[req'.pid]
    <3>1. requests[1] \in Requests
      BY <2>2, Zenon
    <3>2. requests[1].seqLen = seqLen[requests[1].pid]
      BY <2>2, Zenon
    <3> QED
      BY <2>2, <3>1, <3>2, Zenon
  <2>4. ASSUME NEW i \in 1..Len(requests')
        PROVE  requests'[i].seqLen = seqLen[requests'[i].pid]
    <3>1. i + 1 \in 1..Len(requests) /\ requests'[i] = requests[i + 1]
      BY <2>2, Zenon
    <3>2. requests[i + 1].seqLen = seqLen[requests[i + 1].pid]
      BY <3>1, Zenon
    <3> QED
      BY <3>1, <3>2, Zenon
  <2> QED
    BY <1>3, <2>2, <2>3, <2>4, Zenon DEF Fifo!ServerRead
<1>4. CASE Fifo!ServerOpenClient
  BY <1>4, SMTT(30) DEF Fifo!ServerOpenClient
<1>5. CASE Fifo!ServerRespond
  <2>1. req \in Requests /\ req.seqLen = seqLen[req.pid] /\ req.seqLen \in Nat
    BY <1>5, ZenonT(30) DEF Fifo!ServerRespond
  <2>2. FifoTyped' /\ OwnLength'
    BY <1>5, <2>1 DEF Fifo!ServerRespond
  <2>3. PrintedAnswer'
    BY <1>5, <2>1, Zenon DEF Fifo!ServerRespond
  <2>4. BelowCounter' /\ Apart'
    <3>1. \A c \in FifoClients : resp'[c] = resp[c] \/ (c = req.pid /\ resp'[c] = seqNum)
      BY <1>5, <2>1, Zenon DEF Fifo!ServerRespond
    <3>2. seqNum' = seqNum + seqLen[req.pid] /\ seqLen' = seqLen
      BY <1>5, <2>1, Zenon DEF Fifo!ServerRespond
    <3>3. \A c \in FifoClients : seqLen[c] \in Nat /\ resp[c] \in Nat \cup {-1}
      BY ZenonT(30)
    <3>4. ASSUME NEW c \in FifoClients, resp'[c] # Fifo!NoNum PROVE resp'[c] + seqLen'[c] <= seqNum'
      <4>1. CASE resp'[c] = resp[c]
        BY <2>1, <3>2, <3>3, <3>4, <4>1
      <4>2. CASE c = req.pid /\ resp'[c] = seqNum
        BY <3>2, <3>3, <4>2, SMTT(30)
      <4> QED
        BY <3>1, <4>1, <4>2, Zenon
    <3>5. ASSUME NEW c \in FifoClients, NEW d \in FifoClients, c # d, resp'[c] # Fifo!NoNum, resp'[d] # Fifo!NoNum
          PROVE  resp'[c] + seqLen'[c] <= resp'[d] \/ resp'[d] + seqLen'[d] <= resp'[c]
      <4>1. CASE resp'[c] = resp[c] /\ resp'[d] = resp[d]
        BY <3>2, <3>5, <4>1, Zenon
      <4>2. CASE c = req.pid /\ resp'[c] = seqNum /\ resp'[d] = resp[d]
        BY <3>2, <3>5, <4>2, Zenon
      <4>3. CASE d = req.pid /\ resp'[d] = seqNum /\ resp'[c] = resp[c]
        BY <3>2, <3>5, <4>3, Zenon
      <4> QED
        BY <3>1, <3>5, <4>1, <4>2, <4>3, Zenon
    <3> QED
      BY <3>4, <3>5, Zenon
  <2> QED
    BY <2>2, <2>3, <2>4, Zenon
<1> QED
  BY <1>1, <1>2, <1>3, <1>4, <1>5, Zenon DEF Fifo!main

\* The clients' steps, and the end of one by a signal, keep the invariant.
LEMMA FifoClientIInv ==
    ASSUME Fifo!FifoAssumption, FifoIInv, NEW c \in FifoClients, Fifo!clientMain(c) \/ Fifo!Kill(c) PROVE FifoIInv'
<1> USE DEF Fifo!FifoAssumption, FifoIInv, FifoTyped, OwnLength, PrintedAnswer, BelowCounter, Apart,
            Requests, Answers, FifoPlaces, Fifo!NoNum
<1>1. CASE Fifo!ClientMkfifo(c)
  BY <1>1, Zenon DEF Fifo!ClientMkfifo
<1>2. CASE Fifo!ClientOpenServer(c)
  BY <1>2, ZenonT(30) DEF Fifo!ClientOpenServer
<1>3. CASE Fifo!ClientWrite(c)
  <2> DEFINE r == [pid |-> c, seqLen |-> seqLen[c]]
  <2>1. r \in Requests /\ requests' = Append(requests, r)
    BY <1>3, Zenon DEF Fifo!ClientWrite
  <2>2. /\ requests' \in Seq(Requests)
        /\ \A i \in 1..Len(requests') : \/ i \in 1..Len(requests) /\ requests'[i] = requests[i]
                                       \/ requests'[i] = r
    <3> HIDE DEF Requests, FifoIInv, FifoTyped, Fifo!FifoAssumption, r
    <3>1. requests \in Seq(Requests)
      BY Zenon DEF FifoIInv, FifoTyped
    <3>2. /\ Append(requests, r) \in Seq(Requests)
          /\ Len(Append(requests, r)) = Len(requests) + 1 /\ Append(requests, r)[Len(requests) + 1] = r
          /\ \A i \in 1..Len(requests) : Append(requests, r)[i] = requests[i]
          /\ \A i \in 1..(Len(requests) + 1) : i \in 1..Len(requests) \/ i = Len(requests) + 1
      BY <2>1, <3>1, Added, SMTT(30)
    <3> QED
      BY <2>1, <3>2, Zenon
  <2>3. ASSUME NEW i \in 1..Len(requests')
        PROVE  requests'[i].seqLen = seqLen[requests'[i].pid]
    <3>1. CASE i \in 1..Len(requests) /\ requests'[i] = requests[i]
      <4>1. requests[i].seqLen = seqLen[requests[i].pid]
        BY <3>1, Zenon
      <4> QED
        BY <3>1, <4>1, Zenon
    <3>2. CASE requests'[i] = r
      BY <3>2, SMTT(30)
    <3> QED
      BY <2>2, <3>1, <3>2, Zenon
  <2> QED
    BY <1>3, <2>2, <2>3, Zenon DEF Fifo!ClientWrite
<1>4. CASE Fifo!ClientRead(c)
  BY <1>4, Zenon DEF Fifo!ClientRead
<1>5. CASE Fifo!Kill(c)
  BY <1>5, Zenon DEF Fifo!Kill
<1> QED
  BY <1>1, <1>2, <1>3, <1>4, <1>5, ZenonT(30) DEF Fifo!clientMain

\* Every step keeps the invariant.
LEMMA FifoNextIInv ==
    ASSUME Fifo!FifoAssumption, FifoIInv, [Fifo!Next]_(Fifo!vars) PROVE FifoIInv'
<1>1. CASE UNCHANGED Fifo!vars
  BY <1>1, Zenon DEF FifoIInv, FifoTyped, OwnLength, PrintedAnswer, BelowCounter, Apart, Fifo!vars
<1> QED
  BY <1>1, FifoServerIInv, FifoClientIInv, Zenon DEF Fifo!Next

\* What is printed was answered, and answers do not overlap.
LEMMA FifoIInvImplies == FifoIInv => Fifo!UniqueNumbers
  BY Zenon DEF FifoIInv, PrintedAnswer, Apart, Fifo!UniqueNumbers

\* The server never tells two clients of overlapping sequences, however many
\* ask, whatever lengths they ask for, and whenever any of them is killed.
THEOREM NumbersAreUnique ==
    ASSUME Fifo!FifoAssumption PROVE Fifo!Spec => []Fifo!UniqueNumbers
  BY FifoInitIInv, FifoNextIInv, FifoIInvImplies, PTL DEF Fifo!Spec

-----------------------------------------------------------------------------
(* SvmsgFile *)

Children  == {"none", "open", "read", "data", "end", "failure", "zombie", "reaped"}
Stages    == {"start", "send", "first", "next", "done", "failed", "killed"}
Responses == {"DATA", "END", "FAILURE"}

FileTyped ==
    /\ server \in {"start", "msgrcv", "fork", "exit"}
    /\ serverQ \in [open : BOOLEAN, msgs : Seq(FileClients)]
    /\ child \in [FileClients -> Children] /\ client \in [FileClients -> Stages]
    /\ sent \in [FileClients -> Nat] /\ totBlocks \in [FileClients -> Nat]
    /\ clientQ \in [FileClients -> [open : BOOLEAN, msgs : Seq(Responses)]]
    /\ file \in [FileClients -> Nat \cup {File!Missing}] /\ lost \in [FileClients -> BOOLEAN]

\* A client whose request the server has not taken up yet
Waiting(c) == child[c] = "none" /\ client[c] \in {"first", "killed"}

\* The server forks once for a client, after its request.
OneChild ==
    /\ \A i \in 1..Len(serverQ.msgs) : Waiting(serverQ.msgs[i])
    /\ \A i, k \in 1..Len(serverQ.msgs) : i # k => serverQ.msgs[i] # serverQ.msgs[k]
    /\ server = "fork" => /\ req \in FileClients /\ Waiting(req)
                          /\ \A i \in 1..Len(serverQ.msgs) : serverQ.msgs[i] # req

\* The child of c has ended.
Over(c) == child[c] \in {"zombie", "reaped"}

\* What the queue of a client that waits for responses holds, at each stage of
\* the child: the blocks sent and not yet received, then the last response.
Stream(c) ==
    LET q == clientQ[c].msgs  n == Len(clientQ[c].msgs) IN
    /\ clientQ[c].open
    /\ child[c] \in {"none", "open", "failure"} =>
         n = 0 /\ client[c] = "first" /\ totBlocks[c] = 0 /\ sent[c] = 0
    /\ child[c] \in {"read", "data", "end"} =>
         (\A i \in 1..n : q[i] = "DATA") /\ totBlocks[c] + n = sent[c]
    /\ Over(c) /\ file[c] # File!Missing =>
         /\ n > 0 /\ q[n] = "END" /\ \A i \in 1..(n - 1) : q[i] = "DATA"
         /\ totBlocks[c] + n = sent[c] + 1
    /\ Over(c) /\ file[c] = File!Missing => n = 1 /\ q[1] = "FAILURE" /\ client[c] = "first"
    /\ (child[c] = "end" \/ Over(c)) /\ file[c] # File!Missing /\ ~lost[c] => sent[c] = file[c]

\* How far the child of c has come in the file
Reading(c) ==
    /\ child[c] \in {"none", "open", "failure"} => sent[c] = 0
    /\ child[c] \in {"read", "data", "end"} => file[c] # File!Missing /\ sent[c] <= file[c]
    /\ child[c] = "data" => sent[c] < file[c]
    /\ child[c] = "failure" => file[c] = File!Missing

\* What a client that has ended reports
Outcome(c) ==
    /\ client[c] = "done" /\ ~lost[c] => totBlocks[c] = file[c]
    /\ client[c] = "failed" => file[c] = File!Missing \/ child[c] = "none"

\* A client that has sent no request yet
Fresh(c) ==
    /\ child[c] = "none" /\ Len(clientQ[c].msgs) = 0 /\ totBlocks[c] = 0
    /\ client[c] = "send" => clientQ[c].open

PerClient(c) ==
    /\ client[c] \in {"start", "send"} => Fresh(c)
    /\ client[c] \in {"first", "next"} => Stream(c)
    /\ Reading(c) /\ Outcome(c)

FileIInv == FileTyped /\ OneChild /\ \A c \in FileClients : PerClient(c)

\* A queue that is not there holds nothing.
LEMMA NoQueueTyped == ASSUME NEW S PROVE File!NoQueue \in [open : BOOLEAN, msgs : Seq(S)]
<1>1. << >> \in Seq(S)
  OBVIOUS
<1> QED
  BY <1>1, Zenon DEF File!NoQueue

\* Nothing has been asked for at the start.
LEMMA FileInitIInv == ASSUME File!SvmsgAssumption, File!Init PROVE FileIInv
<1>1. FileTyped
  <2>2. /\ File!NoQueue \in [open : BOOLEAN, msgs : Seq(FileClients)]
        /\ File!NoQueue \in [open : BOOLEAN, msgs : Seq(Responses)]
    BY NoQueueTyped, Zenon
  <2> QED
    BY <2>2, Zenon DEF File!Init, FileTyped, File!SvmsgAssumption, Children, Stages
<1>2. OneChild
  BY DEF File!Init, OneChild, File!NoQueue
<1>3. ASSUME NEW c \in FileClients PROVE PerClient(c)
  BY ZenonT(30) DEF File!Init, PerClient, Fresh, Reading, Outcome, File!NoQueue
<1> QED
  BY <1>1, <1>2, <1>3, Zenon DEF FileIInv

\* What is said of a client depends on its own part of the state only.
LEMMA OthersKept ==
    ASSUME NEW d \in FileClients, PerClient(d),
           child'[d] = child[d], sent'[d] = sent[d], clientQ'[d] = clientQ[d],
           client'[d] = client[d], file'[d] = file[d], totBlocks'[d] = totBlocks[d],
           lost'[d] = lost[d]
    PROVE  PerClient(d)'
  BY DEF PerClient, Fresh, Stream, Over, Reading, Outcome

\* So is that the server has its request and no child for it.
LEMMA OneChildKept ==
    ASSUME FileTyped, OneChild, UNCHANGED <<server, serverQ, req>>,
           \A c \in FileClients : Waiting(c) => Waiting(c)'
    PROVE  OneChild'
<1>1. \A i \in 1..Len(serverQ.msgs) : serverQ.msgs[i] \in FileClients
  BY DEF FileTyped
<1> QED
  BY <1>1, Zenon DEF OneChild

\* The steps of the server
LEMMA ServerFile == ASSUME File!SvmsgAssumption, FileIInv, File!serverMain PROVE FileIInv'
<1>1. CASE File!ServerStart
  <2>1. serverQ' \in [open : BOOLEAN, msgs : Seq(FileClients)] /\ serverQ'.msgs = << >>
    BY <1>1 DEF File!ServerStart
  <2>2. FileTyped'
    BY <1>1, <2>1, Zenon DEF FileIInv, FileTyped, File!ServerStart
  <2>3. OneChild'
    BY <1>1, <2>1 DEF FileIInv, OneChild, File!ServerStart
  <2>4. \A c \in FileClients : PerClient(c)'
    BY <1>1, OthersKept, ZenonT(30) DEF FileIInv, File!ServerStart
  <2> QED
    BY <2>2, <2>3, <2>4, ZenonT(30) DEF FileIInv
<1>2. CASE File!ServerReceive
  <2> DEFINE m == serverQ.msgs
  <2>1. m \in Seq(FileClients) /\ m # << >> /\ serverQ \in [open : BOOLEAN, msgs : Seq(FileClients)]
    BY <1>2, Zenon DEF File!ServerReceive, FileIInv, FileTyped
  <2>2. /\ serverQ'.msgs = Tail(m) /\ req' = m[1]
        /\ serverQ' \in [open : BOOLEAN, msgs : Seq(FileClients)]
    <3>1. Tail(m) \in Seq(FileClients) /\ Head(m) = m[1]
      BY <2>1, Removed, Zenon
    <3>2. serverQ' = [serverQ EXCEPT !.msgs = Tail(m)] /\ req' = Head(m)
      BY <1>2, Zenon DEF File!ServerReceive
    <3> QED
      BY <2>1, <3>1, <3>2, Zenon
  <2>3. /\ 1 \in 1..Len(m) /\ m[1] \in FileClients /\ Len(Tail(m)) = Len(m) - 1
        /\ \A i \in 1..Len(Tail(m)) : Tail(m)[i] = m[i + 1] /\ i + 1 \in 1..Len(m) /\ i + 1 # 1
    BY <2>1, Removed, Zenon
  <2>4. FileTyped'
    BY <1>2, <2>2, Zenon DEF FileIInv, FileTyped, File!ServerReceive
  <2>5. /\ \A i \in 1..Len(m) : Waiting(m[i])
        /\ \A i, k \in 1..Len(m) : i # k => m[i] # m[k]
    BY Zenon DEF FileIInv, OneChild
  <2>6. UNCHANGED <<child, client>>
    BY <1>2, Zenon DEF File!ServerReceive
  <2>7. \A i \in 1..Len(Tail(m)) : Waiting(Tail(m)[i]) /\ Tail(m)[i] # m[1]
    BY <2>3, <2>5, ZenonT(30)
  <2>8. \A i, k \in 1..Len(Tail(m)) : i # k => Tail(m)[i] # Tail(m)[k]
    <3> SUFFICES ASSUME NEW i \in 1..Len(Tail(m)), NEW k \in 1..Len(Tail(m)), i # k
                 PROVE  Tail(m)[i] # Tail(m)[k]
      BY Zenon
    <3>1. i + 1 # k + 1
      OBVIOUS
    <3> QED
      BY <2>3, <2>5, <3>1, ZenonT(30)
  <2>9. OneChild'
    <3>1. /\ child'[m[1]] = "none" /\ client'[m[1]] \in {"first", "killed"}
          /\ \A i \in 1..Len(Tail(m)) :
               child'[Tail(m)[i]] = "none" /\ client'[Tail(m)[i]] \in {"first", "killed"}
      BY <2>3, <2>5, <2>6, <2>7, Zenon DEF Waiting
    <3>2. m[1] \in FileClients /\ \A i \in 1..Len(Tail(m)) : Tail(m)[i] # m[1]
      BY <2>3, <2>7, Zenon
    <3> HIDE DEF m
    <3> QED
      BY <2>2, <2>8, <3>1, <3>2, ZenonT(30) DEF OneChild, Waiting
  <2>10. \A c \in FileClients : PerClient(c)'
    BY <1>2, OthersKept, Zenon DEF FileIInv, File!ServerReceive
  <2> QED
    BY <2>4, <2>9, <2>10, ZenonT(30) DEF FileIInv
<1>3. CASE File!ServerFork
  <2>1. /\ server = "fork" /\ req \in FileClients /\ Waiting(req)
        /\ \A i \in 1..Len(serverQ.msgs) : serverQ.msgs[i] # req
    BY <1>3, Zenon DEF File!ServerFork, FileIInv, OneChild
  <2>2. CASE child' = [child EXCEPT ![req] = "open"] /\ server' = "msgrcv" /\ serverQ' = serverQ
    <3>1. FileTyped'
      BY <1>3, <2>2, Zenon DEF FileIInv, FileTyped, File!ServerFork, Children
    <3>2. \A i \in 1..Len(serverQ.msgs) : Waiting(serverQ.msgs[i])'
      <4>1. ASSUME NEW i \in 1..Len(serverQ.msgs) PROVE Waiting(serverQ.msgs[i])'
        <5>1. serverQ.msgs[i] \in FileClients /\ serverQ.msgs[i] # req /\ Waiting(serverQ.msgs[i])
          <6>1. serverQ.msgs \in Seq(FileClients)
            BY Zenon DEF FileIInv, FileTyped
          <6>2. serverQ.msgs[i] \in FileClients
            BY <6>1, SMTT(30)
          <6> QED
            BY <2>1, <6>2, Zenon DEF FileIInv, OneChild
        <5> QED
          BY <1>3, <2>2, <5>1, Zenon DEF Waiting, FileIInv, FileTyped, File!ServerFork
      <4> QED
        BY <2>2, <4>1, Zenon
    <3>3. OneChild'
      BY <2>2, <3>2, Zenon DEF FileIInv, OneChild
    <3>4. ASSUME NEW c \in FileClients PROVE PerClient(c)'
      <4>1. CASE c = req
        BY <1>3, <2>1, <2>2, <4>1
           DEF FileIInv, FileTyped, Waiting, PerClient, Fresh, Stream, Over, Reading, Outcome, File!ServerFork
      <4>2. CASE c # req
        BY <1>3, <2>2, <4>2, OthersKept, ZenonT(30) DEF FileIInv, FileTyped, File!ServerFork
      <4> QED
        BY <4>1, <4>2, ZenonT(30)
    <3> QED
      BY <3>1, <3>3, <3>4, Zenon DEF FileIInv
  <2>3. CASE server' = "exit" /\ serverQ' = File!NoQueue /\ child' = child
    <3>1. serverQ' \in [open : BOOLEAN, msgs : Seq(FileClients)] /\ serverQ'.msgs = << >>
      BY <2>3 DEF File!NoQueue
    <3>2. FileTyped'
      BY <1>3, <2>3, <3>1, Zenon DEF FileIInv, FileTyped, File!ServerFork
    <3>3. OneChild'
      BY <2>3, <3>1 DEF OneChild
    <3>4. \A c \in FileClients : PerClient(c)'
      BY <1>3, <2>3, OthersKept, ZenonT(30) DEF FileIInv, File!ServerFork
    <3> QED
      BY <3>2, <3>3, <3>4, ZenonT(30) DEF FileIInv
  <2> QED
    BY <1>3, <2>2, <2>3, Zenon DEF File!ServerFork
<1>4. CASE File!grimReaper
  <2>1. /\ child' = [c \in FileClients |-> IF child[c] = "zombie" THEN "reaped" ELSE child[c]]
        /\ UNCHANGED <<server, serverQ, req, sent, clientQ, client, file, totBlocks, lost>>
    BY <1>4, Zenon DEF File!grimReaper
  <2>2. FileTyped'
    BY <2>1, Zenon DEF FileIInv, FileTyped, Children
  <2>3. OneChild'
    BY <2>1, OneChildKept, Zenon DEF FileIInv, Waiting
  <2>4. ASSUME NEW c \in FileClients PROVE PerClient(c)'
    <3>1. CASE child[c] = "zombie"
      BY <2>1, <3>1 DEF FileIInv, PerClient, Fresh, Stream, Over, Reading, Outcome
    <3>2. CASE child[c] # "zombie"
      BY <2>1, <3>2, OthersKept, ZenonT(30) DEF FileIInv
    <3> QED
      BY <3>1, <3>2, ZenonT(30)
  <2> QED
    BY <2>2, <2>3, <2>4, Zenon DEF FileIInv
<1> QED
  BY <1>1, <1>2, <1>3, <1>4, ZenonT(30) DEF File!serverMain

\* A response is put at the end of the queue.
LEMMA Appended ==
    ASSUME FileTyped, NEW c \in FileClients, NEW type \in Responses, File!Send(c, type)
    PROVE  /\ clientQ' \in [FileClients -> [open : BOOLEAN, msgs : Seq(Responses)]]
           /\ clientQ'[c].open = clientQ[c].open
           /\ Len(clientQ'[c].msgs) = Len(clientQ[c].msgs) + 1
           /\ \A i \in 1..Len(clientQ[c].msgs) : clientQ'[c].msgs[i] = clientQ[c].msgs[i]
           /\ clientQ'[c].msgs[Len(clientQ[c].msgs) + 1] = type
           /\ \A d \in FileClients : d # c => clientQ'[d] = clientQ[d]
<1>1. clientQ[c].msgs \in Seq(Responses) /\ clientQ[c] \in [open : BOOLEAN, msgs : Seq(Responses)]
  BY Zenon DEF FileTyped
<1>2. clientQ' = [clientQ EXCEPT ![c] = [clientQ[c] EXCEPT !.msgs = Append(clientQ[c].msgs, type)]]
  BY Zenon DEF File!Send
<1>3. Append(clientQ[c].msgs, type) \in Seq(Responses)
  BY <1>1, Added, Zenon
<1>4. /\ clientQ'[c] \in [open : BOOLEAN, msgs : Seq(Responses)]
      /\ clientQ'[c].msgs = Append(clientQ[c].msgs, type) /\ clientQ'[c].open = clientQ[c].open
  BY <1>1, <1>2, <1>3, Zenon DEF FileTyped
<1>5. /\ clientQ' \in [FileClients -> [open : BOOLEAN, msgs : Seq(Responses)]]
      /\ \A d \in FileClients : d # c => clientQ'[d] = clientQ[d]
  BY <1>2, <1>4, ZenonT(30) DEF FileTyped
<1>6. LET q == clientQ[c].msgs IN
      /\ Len(Append(q, type)) = Len(q) + 1 /\ Append(q, type)[Len(q) + 1] = type
      /\ \A i \in 1..Len(q) : Append(q, type)[i] = q[i]
  BY <1>1, Added, SMTT(30)
<1> QED
  BY <1>4, <1>5, <1>6, Zenon

\* The steps of a child
LEMMA ChildFile ==
    ASSUME File!SvmsgAssumption, FileIInv, NEW c \in FileClients, File!serveRequest(c) PROVE FileIInv'
<1>1. /\ child[c] \in {"open", "read", "data", "end", "failure"}
      /\ UNCHANGED <<server, serverQ, req, client, file, totBlocks>>
      /\ \A d \in FileClients : d # c => child'[d] = child[d]
  BY Zenon DEF File!serveRequest, File!serveOpen, File!serveRead, File!serveSend, File!serveEnd, File!serverVars, FileIInv, FileTyped
<1>2. OneChild'
  BY <1>1, OneChildKept, Zenon DEF FileIInv, Waiting
<1>3. FileTyped /\ PerClient(c) /\ file[c] \in Nat \cup {-1} /\ sent[c] \in Nat
  BY Zenon DEF FileIInv, FileTyped, File!Missing
<1>4. SUFFICES FileTyped' /\ PerClient(c)' /\ \A d \in FileClients : d # c => PerClient(d)'
  BY <1>2, Zenon DEF FileIInv
<1>5. CASE File!serveOpen(c)
  <2>1. FileTyped'
    BY <1>1, <1>3, <1>5, ZenonT(30) DEF File!serveOpen, FileTyped, Children
  <2>2. PerClient(c)'
    BY <1>3, <1>5, SMTT(30) DEF File!serveOpen, FileTyped, PerClient, Fresh, Stream, Over, Reading, Outcome, File!Missing
  <2> QED
    BY <1>1, <1>5, <2>1, <2>2, OthersKept, Zenon DEF File!serveOpen, FileIInv
<1>6. CASE File!serveRead(c)
  <2> DEFINE to(s) == child' = [child EXCEPT ![c] = s]
  <2>1. \/ sent[c] < file[c] /\ to("data") /\ lost' = lost
        \/ to("end") /\ lost' = [lost EXCEPT ![c] = TRUE]
        \/ ~(sent[c] < file[c]) /\ to("end") /\ lost' = lost
    BY <1>6, Zenon DEF File!serveRead
  <2>2. /\ child[c] = "read" /\ UNCHANGED <<sent, clientQ>> /\ lost' \in [FileClients -> BOOLEAN]
        /\ \A d \in FileClients : d # c => lost'[d] = lost[d]
    BY <1>3, <1>6, Zenon DEF File!serveRead, FileTyped
  <2>3. FileTyped'
    <3>1. child' \in [FileClients -> Children]
      BY <1>3, <2>1, Zenon DEF FileTyped, Children
    <3> QED
      BY <1>1, <1>3, <2>2, <3>1, ZenonT(30) DEF FileTyped
  <2>4. PerClient(c)'
    <3>1. child'[c] \in {"data", "end"}
      BY <1>3, <2>1, Zenon DEF FileTyped
    <3>2. file[c] # File!Missing /\ file[c] \in Nat /\ sent[c] <= file[c]
      BY <1>3, <2>2, Zenon DEF PerClient, Reading, File!Missing
    <3>3. Reading(c)'
      BY <1>1, <1>3, <2>1, <2>2, <3>1, <3>2, ZenonT(30) DEF FileTyped, Reading
    <3>4. Outcome(c)'
      BY <1>1, <1>3, <2>1, <2>2, ZenonT(30) DEF FileTyped, PerClient, Outcome
    <3>5. ASSUME client[c] \in {"first", "next"} PROVE Stream(c)'
      BY <1>1, <1>3, <2>1, <2>2, <3>1, <3>2, <3>5 DEF FileTyped, PerClient, Stream, Over
    <3> QED
      BY <1>1, <1>3, <2>2, <3>3, <3>4, <3>5, Zenon DEF PerClient, Fresh
  <2> QED
    BY <1>1, <2>2, <2>3, <2>4, OthersKept, ZenonT(30) DEF FileIInv
<1>7. CASE File!serveSend(c)
  <2>1. child[c] = "data" /\ lost' = lost
    BY <1>7, Zenon DEF File!serveSend
  <2>2. file[c] # File!Missing /\ file[c] \in Nat /\ sent[c] < file[c]
    BY <1>3, <2>1, Zenon DEF PerClient, Reading, File!Missing
  <2>3. CASE clientQ[c].open
    <3>1. /\ File!Send(c, "DATA") /\ sent' = [sent EXCEPT ![c] = @ + 1]
          /\ child' = [child EXCEPT ![c] = "read"]
      BY <1>7, <2>3, Zenon DEF File!serveSend
    <3>2. FileTyped'
      <4>1. clientQ' \in [FileClients -> [open : BOOLEAN, msgs : Seq(Responses)]]
        BY <1>3, <3>1, Appended, Zenon DEF Responses
      <4>2. child' \in [FileClients -> Children] /\ sent' \in [FileClients -> Nat]
        BY <1>3, <3>1, SMTT(30) DEF FileTyped, Children
      <4> QED
        BY <1>1, <1>3, <2>1, <4>1, <4>2, Zenon DEF FileTyped
    <3>3. child'[c] = "read" /\ sent'[c] = sent[c] + 1
      BY <1>3, <3>1, ZenonT(30) DEF FileTyped
    <3>4. Reading(c)' /\ Outcome(c)'
      <4>1. sent[c] + 1 <= file[c]
        BY <1>3, <2>2
      <4>2. Reading(c)'
        BY <1>1, <2>2, <3>3, <4>1, ZenonT(30) DEF Reading
      <4>3. Outcome(c)'
        BY <1>1, <1>3, <2>1, <2>2, <3>3, ZenonT(30) DEF PerClient, Outcome
      <4> QED
        BY <4>2, <4>3, Zenon
    <3>5. ASSUME client[c] \in {"first", "next"} PROVE Stream(c)'
      <4> DEFINE n == Len(clientQ[c].msgs)
      <4>1. /\ Len(clientQ'[c].msgs) = n + 1 /\ clientQ'[c].open = clientQ[c].open
            /\ \A i \in 1..n : clientQ'[c].msgs[i] = clientQ[c].msgs[i]
            /\ clientQ'[c].msgs[n + 1] = "DATA"
        BY <1>3, <3>1, Appended, ZenonT(30) DEF Responses
      <4>2. /\ \A i \in 1..n : clientQ[c].msgs[i] = "DATA"
            /\ totBlocks[c] + n = sent[c] /\ n \in Nat /\ totBlocks[c] \in Nat
        <5>1. clientQ[c].msgs \in Seq(Responses) /\ totBlocks[c] \in Nat
          BY <1>3, ZenonT(30) DEF FileTyped
        <5>2. n \in Nat
          BY <5>1
        <5> QED
          BY <1>3, <2>1, <3>5, <5>1, <5>2, ZenonT(30) DEF PerClient, Stream
      <4> HIDE DEF n
      <4>3. \A i \in 1..(n + 1) : clientQ'[c].msgs[i] = "DATA"
        <5>1. \A i \in 1..(n + 1) : i \in 1..n \/ i = n + 1
          <6>1. n \in Nat
            BY <4>2, ZenonT(30)
          <6> QED
            BY <6>1, SMTT(30)
        <5> QED
          BY <4>1, <4>2, <5>1, ZenonT(30)
      <4>4. totBlocks'[c] + (n + 1) = sent'[c]
        <5>1. totBlocks'[c] = totBlocks[c]
          BY <1>1, Zenon
        <5>2. totBlocks[c] + n = sent[c] /\ n \in Nat /\ totBlocks[c] \in Nat
          BY <4>2, ZenonT(30)
        <5> QED
          BY <3>3, <5>1, <5>2
      <4> QED
        BY <1>1, <2>3, <3>3, <4>1, <4>3, <4>4, Zenon DEF Stream, Over
    <3>6. \A d \in FileClients : d # c => clientQ'[d] = clientQ[d] /\ sent'[d] = sent[d]
      BY <1>3, <3>1, Appended, SMTT(30) DEF Responses
    <3>7. PerClient(c)'
      BY <1>1, <1>3, <2>1, <3>4, <3>5, Zenon DEF PerClient, Fresh
    <3> QED
      BY <1>1, <2>1, <3>2, <3>6, <3>7, OthersKept, Zenon DEF FileIInv
  <2>4. CASE ~clientQ[c].open
    <3>1. child' = [child EXCEPT ![c] = "end"] /\ UNCHANGED <<clientQ, sent>>
      BY <1>7, <2>4, ZenonT(30) DEF File!serveSend
    <3>2. FileTyped'
      BY <1>1, <1>3, <2>1, <3>1, ZenonT(30) DEF FileTyped, Children
    <3>3. PerClient(c)'
      BY <1>1, <1>3, <2>1, <2>2, <2>4, <3>1, Zenon
         DEF FileTyped, PerClient, Fresh, Stream, Reading, Outcome
    <3> QED
      BY <1>1, <2>1, <3>1, <3>2, <3>3, OthersKept, Zenon DEF FileIInv
  <2> QED
    BY <2>3, <2>4, Zenon
<1>8. CASE File!serveEnd(c)
  <2> DEFINE last == IF child[c] = "end" THEN "END" ELSE "FAILURE"
             n == Len(clientQ[c].msgs)
  <2>1. /\ child[c] \in {"end", "failure"} /\ child' = [child EXCEPT ![c] = "zombie"]
        /\ UNCHANGED <<sent, lost>> /\ child'[c] = "zombie"
    BY <1>3, <1>8, Zenon DEF File!serveEnd, FileTyped
  <2>2. CASE clientQ[c].open
    <3>1. File!Send(c, last) /\ last \in Responses
      BY <1>8, <2>1, <2>2, Zenon DEF File!serveEnd, Responses
    <3>2. /\ clientQ' \in [FileClients -> [open : BOOLEAN, msgs : Seq(Responses)]]
          /\ clientQ'[c].open = clientQ[c].open
          /\ Len(clientQ'[c].msgs) = n + 1
          /\ \A i \in 1..n : clientQ'[c].msgs[i] = clientQ[c].msgs[i]
          /\ clientQ'[c].msgs[n + 1] = last
          /\ \A d \in FileClients : d # c => clientQ'[d] = clientQ[d]
      BY <1>3, <3>1, Appended, ZenonT(30)
    <3>3. FileTyped'
      BY <1>1, <1>3, <2>1, <3>2, Zenon DEF FileTyped, Children
    <3>4. Reading(c)' /\ Outcome(c)'
      BY <1>1, <1>3, <2>1, Zenon DEF PerClient, Reading, Outcome
    <3>5. ASSUME client[c] \in {"first", "next"} PROVE Stream(c)'
      <4>1. n \in Nat /\ totBlocks[c] \in Nat
        BY <1>3, SMTT(30) DEF FileTyped
      <4>2. CASE child[c] = "end"
        <5>1. /\ \A i \in 1..n : clientQ[c].msgs[i] = "DATA"
              /\ totBlocks[c] + n = sent[c] /\ file[c] # File!Missing
              /\ ~lost[c] => sent[c] = file[c]
          BY <1>3, <3>5, <4>2, Zenon DEF PerClient, Stream, Reading
        <5> HIDE DEF n
        <5>2. (n + 1) - 1 = n /\ n + 1 > 0 /\ totBlocks[c] + (n + 1) = sent[c] + 1
          BY <1>3, <4>1, <5>1
        <5>3. /\ Len(clientQ'[c].msgs) > 0 /\ clientQ'[c].msgs[Len(clientQ'[c].msgs)] = "END"
              /\ Len(clientQ'[c].msgs) - 1 = n /\ \A i \in 1..n : clientQ'[c].msgs[i] = "DATA"
              /\ totBlocks'[c] + Len(clientQ'[c].msgs) = sent'[c] + 1
              /\ ~lost'[c] => sent'[c] = file'[c]
          <6>1. /\ totBlocks'[c] = totBlocks[c] /\ sent'[c] = sent[c]
                /\ file'[c] = file[c] /\ lost'[c] = lost[c]
            BY <1>1, <2>1, Zenon
          <6>2. Len(clientQ'[c].msgs) = n + 1
            BY <3>2, ZenonT(30)
          <6>3. last = "END"
            BY <4>2, Zenon
          <6>4. \A i \in 1..n : clientQ'[c].msgs[i] = "DATA"
            BY <3>2, <5>1, ZenonT(30)
          <6>5. clientQ'[c].msgs[n + 1] = "END"
            BY <3>2, <6>3, ZenonT(30)
          <6> HIDE DEF last
          <6> QED
            BY <5>1, <5>2, <6>1, <6>2, <6>4, <6>5, Zenon
        <5> QED
          BY <1>1, <2>1, <2>2, <3>2, <5>1, <5>3, ZenonT(30) DEF Stream, Over
      <4>3. CASE child[c] = "failure"
        <5>1. n = 0 /\ client[c] = "first" /\ file[c] = File!Missing
          BY <1>3, <3>5, <4>3, Zenon DEF PerClient, Stream, Reading
        <5>2. Over(c)' /\ file'[c] = File!Missing /\ client'[c] = "first" /\ clientQ'[c].open
          BY <1>1, <1>3, <2>1, <2>2, <3>2, <3>5, <4>3, <5>1, ZenonT(30) DEF PerClient, Stream, Over
        <5>3. Len(clientQ'[c].msgs) = 1 /\ clientQ'[c].msgs[1] = "FAILURE"
          <6>1. n + 1 = 1
            BY <5>1
          <6> QED
            BY <3>2, <4>3, <6>1, ZenonT(30)
        <5> QED
          BY <5>2, <5>3, ZenonT(30) DEF Stream, Over
      <4> QED
        BY <2>1, <4>2, <4>3, ZenonT(30)
    <3>6. PerClient(c)'
      BY <1>1, <1>3, <2>1, <3>4, <3>5, Zenon DEF PerClient, Fresh
    <3> QED
      BY <1>1, <2>1, <3>2, <3>3, <3>6, OthersKept, Zenon DEF FileIInv
  <2>3. CASE ~clientQ[c].open
    <3>1. clientQ' = clientQ
      BY <1>8, <2>3, Zenon DEF File!serveEnd
    <3>2. FileTyped'
      BY <1>1, <1>3, <2>1, <3>1, Zenon DEF FileTyped, Children
    <3>3. PerClient(c)'
      BY <1>1, <1>3, <2>1, <2>3, <3>1, Zenon DEF FileTyped, PerClient, Fresh, Stream, Reading, Outcome
    <3> QED
      BY <1>1, <2>1, <3>1, <3>2, <3>3, OthersKept, Zenon DEF FileIInv
  <2> QED
    BY <2>2, <2>3, Zenon
<1> QED
  BY <1>5, <1>6, <1>7, <1>8, Zenon DEF File!serveRequest

\* The steps of a client that change neither the server nor its queue
LEMMA ClientAlone ==
    ASSUME FileIInv, NEW c \in FileClients, UNCHANGED <<File!serverVars, child, sent, file, lost>>,
           client' \in [FileClients -> Stages],
           clientQ' \in [FileClients -> [open : BOOLEAN, msgs : Seq(Responses)]],
           totBlocks' \in [FileClients -> Nat],
           \A d \in FileClients : d # c => /\ client'[d] = client[d] /\ clientQ'[d] = clientQ[d]
                                       /\ totBlocks'[d] = totBlocks[d],
           Waiting(c) => client'[c] = "killed",
           PerClient(c)'
    PROVE  FileIInv'
<1>1. FileTyped'
  BY Zenon DEF FileIInv, FileTyped, File!serverVars
<1>2. OneChild'
  BY OneChildKept, Zenon DEF FileIInv, Waiting, File!serverVars
<1>3. ASSUME NEW d \in FileClients, d # c PROVE PerClient(d)'
  BY <1>3, OthersKept, Zenon DEF FileIInv
<1> QED
  BY <1>1, <1>2, <1>3, Zenon DEF FileIInv

\* exit() of a client leaves no queue behind.
LEMMA QueueRemoved ==
    ASSUME FileTyped, NEW c \in FileClients, NEW how \in Stages, File!Exit(c, how)
    PROVE  /\ client' \in [FileClients -> Stages] /\ client'[c] = how
           /\ clientQ' \in [FileClients -> [open : BOOLEAN, msgs : Seq(Responses)]]
           /\ \A d \in FileClients : d # c => client'[d] = client[d] /\ clientQ'[d] = clientQ[d]
<1>1. File!NoQueue \in [open : BOOLEAN, msgs : Seq(Responses)]
  BY NoQueueTyped, Zenon
<1> QED
  BY <1>1, Zenon DEF FileTyped, File!Exit

\* The steps of a client
LEMMA ClientFile ==
    ASSUME File!SvmsgAssumption, FileIInv, NEW c \in FileClients, File!clientMain(c) \/ File!Kill(c) PROVE FileIInv'
<1>1. /\ FileTyped /\ OneChild /\ PerClient(c) /\ file[c] \in Nat \cup {-1} /\ sent[c] \in Nat
      /\ totBlocks[c] \in Nat /\ clientQ[c] \in [open : BOOLEAN, msgs : Seq(Responses)]
      /\ clientQ \in [FileClients -> [open : BOOLEAN, msgs : Seq(Responses)]]
      /\ totBlocks \in [FileClients -> Nat]
  BY Zenon DEF FileIInv, FileTyped, File!Missing
<1>2. CASE File!ClientStart(c)
  <2>1. client[c] = "start" /\ Fresh(c) /\ Reading(c) /\ ~Waiting(c)
    BY <1>1, <1>2, Zenon DEF File!ClientStart, PerClient, Waiting
  <2>2. UNCHANGED <<File!serverVars, child, sent, file, totBlocks, lost>>
    BY <1>2, Zenon DEF File!ClientStart
  <2>3. CASE serverQ.open
    <3>1. /\ client' = [client EXCEPT ![c] = "send"]
          /\ clientQ' = [clientQ EXCEPT ![c] = [clientQ[c] EXCEPT !.open = TRUE]]
      BY <1>2, <2>3, Zenon DEF File!ClientStart
    <3>2. client' \in [FileClients -> Stages] /\ client'[c] = "send"
      BY <1>1, <3>1, Zenon DEF FileTyped, Stages
    <3>3. /\ clientQ' \in [FileClients -> [open : BOOLEAN, msgs : Seq(Responses)]]
          /\ clientQ'[c].open = TRUE /\ clientQ'[c].msgs = clientQ[c].msgs
      BY <1>1, <3>1, ZenonT(30) DEF FileTyped
    <3>4. PerClient(c)'
      BY <2>1, <2>2, <3>2, <3>3, ZenonT(30) DEF PerClient, Fresh, Reading, Outcome
    <3>5. \A d \in FileClients : d # c => client'[d] = client[d] /\ clientQ'[d] = clientQ[d]
      BY <1>1, <3>1, Zenon DEF FileTyped
    <3> QED
      BY <1>1, <2>1, <2>2, <3>2, <3>3, <3>4, <3>5, ClientAlone, ZenonT(30)
  <2>4. CASE ~serverQ.open
    <3>1. client' = [client EXCEPT ![c] = "failed"] /\ clientQ' = clientQ
      BY <1>2, <2>4, Zenon DEF File!ClientStart
    <3>2. client' \in [FileClients -> Stages] /\ client'[c] = "failed"
      BY <1>1, <3>1, Zenon DEF FileTyped, Stages
    <3>3. PerClient(c)'
      BY <2>1, <2>2, <3>1, <3>2, ZenonT(30) DEF PerClient, Fresh, Reading, Outcome
    <3>4. \A d \in FileClients : d # c => client'[d] = client[d] /\ clientQ'[d] = clientQ[d]
      BY <1>1, <3>1, Zenon DEF FileTyped
    <3> QED
      BY <1>1, <2>1, <2>2, <3>1, <3>2, <3>3, <3>4, ClientAlone, ZenonT(30)
  <2> QED
    BY <2>3, <2>4, Zenon
<1>3. CASE File!ClientSend(c)
  <2>1. client[c] = "send" /\ Fresh(c) /\ Reading(c) /\ ~Waiting(c)
    BY <1>1, <1>3, Zenon DEF File!ClientSend, PerClient, Waiting
  <2>2. UNCHANGED <<server, req, sigchld, child, sent, file, totBlocks, lost>>
    BY <1>3, Zenon DEF File!ClientSend
  <2>3. CASE serverQ.open
    <3> DEFINE m == serverQ.msgs
    <3>1. /\ serverQ' = [serverQ EXCEPT !.msgs = Append(m, c)]
          /\ client' = [client EXCEPT ![c] = "first"] /\ clientQ' = clientQ
      BY <1>3, <2>3, Zenon DEF File!ClientSend
    <3>2. m \in Seq(FileClients) /\ serverQ \in [open : BOOLEAN, msgs : Seq(FileClients)]
      BY <1>1, Zenon DEF FileTyped
    <3>3. /\ serverQ' \in [open : BOOLEAN, msgs : Seq(FileClients)]
          /\ serverQ'.msgs = Append(m, c)
      <4>1. Append(m, c) \in Seq(FileClients)
        BY <3>2, Added, Zenon
      <4> QED
        BY <3>1, <3>2, <4>1, ZenonT(30)
    <3>4. client' \in [FileClients -> Stages] /\ client'[c] = "first"
      BY <1>1, <3>1, Zenon DEF FileTyped, Stages
    <3>5. FileTyped'
      BY <1>1, <2>2, <3>1, <3>3, <3>4, ZenonT(30) DEF FileTyped
    <3>6. /\ Len(Append(m, c)) = Len(m) + 1 /\ Append(m, c)[Len(m) + 1] = c /\ Len(m) \in Nat
          /\ \A i \in 1..Len(m) : Append(m, c)[i] = m[i] /\ m[i] \in FileClients /\ m[i] # c
      <4>1. \A i \in 1..Len(m) : m[i] # c
        BY <1>1, <2>1, Zenon DEF OneChild
      <4>2. /\ Len(Append(m, c)) = Len(m) + 1 /\ Append(m, c)[Len(m) + 1] = c /\ Len(m) \in Nat
            /\ \A i \in 1..Len(m) : Append(m, c)[i] = m[i] /\ m[i] \in FileClients
        BY <3>2, Added, SMTT(30)
      <4> QED
        BY <4>1, <4>2, Zenon
    <3>7. \A d \in FileClients : Waiting(d) => Waiting(d)'
      BY <1>1, <2>1, <2>2, <3>1, Zenon DEF FileTyped, Waiting
    <3>8. Waiting(c)'
      BY <2>1, <2>2, <3>4, Zenon DEF Waiting, Fresh
    <3>9. OneChild'
      <4>1. ASSUME NEW i \in 1..Len(Append(m, c)) PROVE i \in 1..Len(m) \/ i = Len(m) + 1
        <5>1. \A k \in 1..(Len(m) + 1) : k \in 1..Len(m) \/ k = Len(m) + 1
          BY <3>2, Added, SMTT(30)
        <5> QED
          BY <3>6, <5>1, Zenon
      <4>2. ASSUME NEW i \in 1..Len(serverQ'.msgs) PROVE Waiting(serverQ.msgs[i])'
        <5>1. CASE i \in 1..Len(m)
          <6>1. serverQ'.msgs[i] = m[i] /\ m[i] \in FileClients /\ m[i] # c /\ Waiting(m[i])
            BY <1>1, <3>3, <3>6, <5>1, Zenon DEF OneChild
          <6>2. client'[m[i]] = client[m[i]]
            BY <1>1, <3>1, <6>1, Zenon DEF FileTyped
          <6> QED
            BY <2>2, <6>1, <6>2, Zenon DEF Waiting
        <5>2. CASE i = Len(m) + 1
          BY <3>3, <3>6, <3>8, <5>2, Zenon DEF Waiting
        <5> QED
          BY <3>3, <4>1, <5>1, <5>2, Zenon
      <4>3. ASSUME NEW i \in 1..Len(serverQ'.msgs), NEW k \in 1..Len(serverQ'.msgs), i # k
            PROVE  serverQ'.msgs[i] # serverQ'.msgs[k]
        <5>1. serverQ'.msgs = Append(m, c)
          BY <3>3, Zenon
        <5>2. CASE i \in 1..Len(m) /\ k \in 1..Len(m)
          BY <1>1, <3>6, <4>3, <5>1, <5>2, ZenonT(30) DEF OneChild
        <5>3. CASE i \in 1..Len(m) /\ k = Len(m) + 1
          BY <3>6, <5>1, <5>3, Zenon
        <5>4. CASE k \in 1..Len(m) /\ i = Len(m) + 1
          BY <3>6, <5>1, <5>4, Zenon
        <5> QED
          BY <4>1, <4>3, <5>1, <5>2, <5>3, <5>4, ZenonT(30)
      <4>4. ASSUME server = "fork"
            PROVE  /\ req \in FileClients /\ Waiting(req)'
                   /\ \A i \in 1..Len(serverQ'.msgs) : serverQ'.msgs[i] # req
        BY <1>1, <2>1, <2>2, <3>3, <3>6, <3>7, <4>1, <4>4, ZenonT(30) DEF OneChild
      <4> QED
        BY <2>2, <4>2, <4>3, <4>4, Zenon DEF OneChild
    <3>10. PerClient(c)'
      BY <1>1, <2>1, <2>2, <3>1, <3>4, Zenon DEF PerClient, Fresh, Stream, Over, Reading, Outcome
    <3>11. ASSUME NEW d \in FileClients, d # c PROVE PerClient(d)'
      BY <2>2, <3>1, <3>11, OthersKept, Zenon DEF FileIInv, FileTyped
    <3> QED
      BY <3>5, <3>9, <3>10, <3>11, Zenon DEF FileIInv
  <2>4. CASE ~serverQ.open
    <3>1. File!Exit(c, "failed") /\ UNCHANGED File!serverVars
      BY <1>3, <2>2, <2>4, Zenon DEF File!ClientSend, File!serverVars
    <3>2. /\ client' \in [FileClients -> Stages] /\ client'[c] = "failed"
          /\ clientQ' \in [FileClients -> [open : BOOLEAN, msgs : Seq(Responses)]]
          /\ \A d \in FileClients : d # c => client'[d] = client[d] /\ clientQ'[d] = clientQ[d]
      BY <1>1, <3>1, QueueRemoved, ZenonT(30) DEF Stages
    <3>3. PerClient(c)'
      BY <2>1, <2>2, <3>2, Zenon DEF PerClient, Fresh, Reading, Outcome
    <3> QED
      BY <1>1, <2>1, <2>2, <3>1, <3>2, <3>3, ClientAlone, ZenonT(30)
  <2> QED
    BY <2>3, <2>4, Zenon
<1>4. CASE File!ClientReceive(c)
  <2> DEFINE q == clientQ[c].msgs
             n == Len(q)
  <2>1. /\ client[c] \in {"first", "next"} /\ q # << >>
        /\ UNCHANGED <<File!serverVars, child, sent, file, lost>>
    BY <1>4, Zenon DEF File!ClientReceive
  <2>2. /\ q \in Seq(Responses) /\ Head(q) = q[1] /\ n \in Nat /\ n > 0
        /\ Tail(q) \in Seq(Responses) /\ Len(Tail(q)) = n - 1
        /\ \A i \in 1..(n - 1) : Tail(q)[i] = q[i + 1] /\ i + 1 \in 1..n
        /\ 1 \in 1..n /\ n # 0
    <3>1. q \in Seq(Responses)
      BY <1>1, Zenon
    <3>2. \A k \in Nat : k > 0 => k # 0
      OBVIOUS
    <3> QED
      BY <2>1, <3>1, <3>2, Removed, Zenon
  <2>3. Stream(c) /\ Reading(c) /\ Outcome(c) /\ child[c] \in Children
    BY <1>1, <2>1, ZenonT(30) DEF PerClient, FileTyped
  <2>4. child[c] \in {"read", "data", "end", "zombie", "reaped"} /\ ~Waiting(c)
    BY <2>2, <2>3, ZenonT(30) DEF Stream, Children, Waiting
  <2>5. CASE q[1] = "DATA"
    <3>1. /\ totBlocks' = [totBlocks EXCEPT ![c] = @ + 1]
          /\ client' = [client EXCEPT ![c] = "next"]
          /\ clientQ' = [clientQ EXCEPT ![c] = [clientQ[c] EXCEPT !.msgs = Tail(q)]]
      BY <1>4, <2>2, <2>5, Zenon DEF File!ClientReceive
    <3>2. /\ client' \in [FileClients -> Stages] /\ client'[c] = "next"
          /\ totBlocks' \in [FileClients -> Nat] /\ totBlocks'[c] = totBlocks[c] + 1
      BY <1>1, <3>1 DEF FileTyped, Stages
    <3>3. [clientQ[c] EXCEPT !.msgs = Tail(q)] \in [open : BOOLEAN, msgs : Seq(Responses)]
      BY <1>1, <2>2, Zenon
    <3>4. /\ clientQ' \in [FileClients -> [open : BOOLEAN, msgs : Seq(Responses)]]
          /\ clientQ'[c].open = clientQ[c].open /\ clientQ'[c].msgs = Tail(q)
      BY <1>1, <3>1, <3>3, Zenon DEF FileTyped
    <3>5. Stream(c)'
      <4>1. CASE child[c] \in {"read", "data", "end"}
        <5>1. (\A i \in 1..n : q[i] = "DATA") /\ totBlocks[c] + n = sent[c]
          BY <2>3, <4>1, ZenonT(30) DEF Stream
        <5>2. \A i \in 1..(n - 1) : Tail(q)[i] = "DATA"
          BY <2>2, <5>1, Zenon
        <5>3. (totBlocks[c] + 1) + (n - 1) = sent[c]
          BY <1>1, <2>2, <5>1, SMTT(30)
        <5>4. /\ child'[c] = child[c] /\ sent'[c] = sent[c] /\ file'[c] = file[c] /\ lost'[c] = lost[c]
              /\ clientQ'[c].open /\ clientQ'[c].msgs = Tail(q) /\ Len(clientQ'[c].msgs) = n - 1
              /\ totBlocks'[c] + (n - 1) = sent'[c]
          BY <2>1, <2>2, <2>3, <3>2, <3>4, <5>3, ZenonT(30) DEF Stream
        <5>5. child[c] = "end" /\ file[c] # File!Missing /\ ~lost[c] => sent[c] = file[c]
          BY <2>3, ZenonT(30) DEF Stream
        <5> QED
          BY <4>1, <5>2, <5>4, <5>5, ZenonT(30) DEF Stream, Over
      <4>2. CASE Over(c)
        <5>1. /\ file[c] # File!Missing /\ q[n] = "END" /\ \A i \in 1..(n - 1) : q[i] = "DATA"
              /\ totBlocks[c] + n = sent[c] + 1 /\ n # 1
          BY <2>3, <2>5, <4>2, ZenonT(30) DEF Stream
        <5> HIDE DEF n
        <5>2. n - 1 > 0 /\ n - 1 \in 1..(n - 1) /\ (n - 1) + 1 = n
          BY <2>2, <5>1
        <5>3. Tail(q)[n - 1] = "END"
          BY <2>2, <5>1, <5>2, ZenonT(30)
        <5>4. \A i \in 1..((n - 1) - 1) : Tail(q)[i] = "DATA"
          <6>1. \A i \in 1..((n - 1) - 1) : i \in 1..(n - 1) /\ i + 1 \in 1..(n - 1)
            BY <5>2
          <6> QED
            BY <2>2, <5>1, <6>1, ZenonT(30)
        <5>5. (totBlocks[c] + 1) + (n - 1) = sent[c] + 1
          BY <1>1, <2>2, <5>1, SMTT(30)
        <5> QED
          <6>1. /\ child'[c] = child[c] /\ sent'[c] = sent[c] /\ file'[c] = file[c] /\ lost'[c] = lost[c]
                /\ clientQ'[c].open /\ clientQ'[c].msgs = Tail(q) /\ Len(clientQ'[c].msgs) = n - 1
                /\ totBlocks'[c] + (n - 1) = sent'[c] + 1
            BY <2>1, <2>2, <2>3, <3>2, <3>4, <5>5, ZenonT(30) DEF Stream
          <6>2. ~lost[c] => sent[c] = file[c]
            BY <2>3, <4>2, <5>1, ZenonT(30) DEF Stream
          <6>3. ~(child[c] \in {"none", "open", "failure", "read", "data", "end"})
            BY <4>2, Zenon DEF Over
          <6> QED
            BY <4>2, <5>1, <5>2, <5>3, <5>4, <6>1, <6>2, <6>3, ZenonT(30) DEF Stream, Over
      <4> QED
        BY <2>4, <4>1, <4>2, ZenonT(30) DEF Over
    <3>6. PerClient(c)'
      BY <2>1, <2>3, <3>2, <3>5, Zenon DEF PerClient, Reading, Outcome
    <3>7. \A d \in FileClients : d # c => /\ client'[d] = client[d] /\ clientQ'[d] = clientQ[d]
                                      /\ totBlocks'[d] = totBlocks[d]
      BY <1>1, <3>1, Zenon DEF FileTyped
    <3> QED
      BY <2>1, <2>4, <3>2, <3>4, <3>6, <3>7, ClientAlone, ZenonT(30)
  <2>6. CASE q[1] # "DATA"
    <3>1. /\ n = 1 /\ Over(c)
          /\ file[c] = File!Missing => q[1] = "FAILURE" /\ client[c] = "first"
          /\ file[c] # File!Missing => q[1] = "END" /\ (~lost[c] => totBlocks[c] = file[c])
      <4>1. Over(c)
        BY <2>2, <2>3, <2>4, <2>6, ZenonT(30) DEF Stream, Over
      <4>2. CASE file[c] = File!Missing
        BY <2>3, <4>1, <4>2, ZenonT(30) DEF Stream
      <4>3. CASE file[c] # File!Missing
        <5>1. \A i \in 1..(n - 1) : q[i] = "DATA"
          BY <2>3, <4>1, <4>3, ZenonT(30) DEF Stream
        <5> HIDE DEF n
        <5>2. n = 1
          BY <2>2, <2>6, <5>1
        <5> USE DEF n
        <5>3. /\ q[n] = "END" /\ totBlocks[c] + n = sent[c] + 1
              /\ ~lost[c] => sent[c] = file[c]
          BY <2>3, <4>1, <4>3, ZenonT(30) DEF Stream
        <5>4. totBlocks[c] \in Nat /\ sent[c] \in Nat
          BY <1>1, Zenon DEF FileTyped
        <5> HIDE DEF n
        <5>5. totBlocks[c] = sent[c]
          BY <5>2, <5>3, <5>4
        <5> QED
          BY <4>1, <4>3, <5>2, <5>3, <5>5, Zenon
      <4> QED
        BY <4>1, <4>2, <4>3, ZenonT(30)
    <3>2. CASE q[1] = "FAILURE" /\ client[c] = "first"
      <4>1. File!Exit(c, "failed") /\ totBlocks' = totBlocks
        BY <1>4, <2>2, <3>2, ZenonT(30) DEF File!ClientReceive
      <4>2. /\ client' \in [FileClients -> Stages] /\ client'[c] = "failed"
            /\ clientQ' \in [FileClients -> [open : BOOLEAN, msgs : Seq(Responses)]]
            /\ \A d \in FileClients : d # c => client'[d] = client[d] /\ clientQ'[d] = clientQ[d]
        BY <1>1, <4>1, QueueRemoved, Zenon DEF Stages
      <4>3. PerClient(c)'
        BY <2>1, <2>3, <3>1, <3>2, <4>1, <4>2, ZenonT(30) DEF PerClient, Reading, Outcome
      <4> QED
        BY <1>1, <2>1, <2>4, <4>1, <4>2, <4>3, ClientAlone, ZenonT(30)
    <3>3. CASE ~(q[1] = "FAILURE" /\ client[c] = "first")
      <4>1. File!Exit(c, "done") /\ totBlocks' = totBlocks
        BY <1>4, <2>2, <2>6, <3>3, ZenonT(30) DEF File!ClientReceive
      <4>2. /\ client' \in [FileClients -> Stages] /\ client'[c] = "done"
            /\ clientQ' \in [FileClients -> [open : BOOLEAN, msgs : Seq(Responses)]]
            /\ \A d \in FileClients : d # c => client'[d] = client[d] /\ clientQ'[d] = clientQ[d]
        BY <1>1, <4>1, QueueRemoved, Zenon DEF Stages
      <4>3. PerClient(c)'
        BY <2>1, <2>3, <3>1, <3>3, <4>1, <4>2, ZenonT(30) DEF PerClient, Reading, Outcome
      <4> QED
        BY <1>1, <2>1, <2>4, <4>1, <4>2, <4>3, ClientAlone, ZenonT(30)
    <3> QED
      BY <3>2, <3>3, Zenon
  <2> QED
    BY <2>5, <2>6, Zenon
<1>5. CASE File!Kill(c)
  <2>1. /\ client' = [client EXCEPT ![c] = "killed"]
        /\ UNCHANGED <<File!serverVars, child, sent, clientQ, file, totBlocks, lost>>
    BY <1>5, ZenonT(30) DEF File!Kill
  <2>2. client' \in [FileClients -> Stages] /\ client'[c] = "killed"
    BY <1>1, <2>1, Zenon DEF FileTyped, Stages
  <2>3. PerClient(c)'
    BY <1>1, <2>1, <2>2, Zenon DEF PerClient, Reading, Outcome
  <2>4. \A d \in FileClients : d # c => client'[d] = client[d]
    BY <1>1, <2>1, Zenon DEF FileTyped
  <2> QED
    BY <1>1, <2>1, <2>2, <2>3, <2>4, ClientAlone, ZenonT(30)
<1> QED
  BY <1>2, <1>3, <1>4, <1>5, Zenon DEF File!clientMain

\* Every step keeps the invariant.
LEMMA FileNextIInv == ASSUME File!SvmsgAssumption, FileIInv, [File!Next]_(File!vars) PROVE FileIInv'
<1>1. CASE UNCHANGED File!vars
  <2>1. FileTyped'
    BY <1>1, Zenon DEF FileIInv, FileTyped, File!vars
  <2>2. OneChild'
    BY <1>1, OneChildKept, Zenon DEF FileIInv, Waiting, File!vars
  <2>3. ASSUME NEW c \in FileClients PROVE PerClient(c)'
    BY <1>1, OthersKept, Zenon DEF FileIInv, File!vars
  <2> QED
    BY <2>1, <2>2, <2>3, Zenon DEF FileIInv
<1> QED
  BY <1>1, ServerFile, ChildFile, ClientFile, Zenon DEF File!Next

\* What the ended clients report is in the invariant.
LEMMA FileIInvImplies == FileIInv => File!Complete
  BY Zenon DEF FileIInv, PerClient, Outcome, File!Complete

\* A client that reports success has the whole file, unless the server's read()
\* failed; one that reports failure asked for a file that is not there, or found
\* no server.
THEOREM WholeFile == ASSUME File!SvmsgAssumption PROVE File!Spec => []File!Complete
  BY FileInitIInv, FileNextIInv, FileIInvImplies, PTL DEF File!Spec

-----------------------------------------------------------------------------
(* The systems together *)

\* The steps of the system that runs are those of its module.
LEMMA Steps ==
    ASSUME [Next]_vars
    PROVE  /\ UNCHANGED system
           /\ system = "sem" => [Sem!Next]_(Sem!vars)
           /\ system = "pipes" => [Pipe!Next]_(Pipe!vars)
           /\ system = "fifo" => [Fifo!Next]_(Fifo!vars)
           /\ system = "file" => [File!Next]_(File!vars)
<1>1. CASE UNCHANGED vars
  BY <1>1, Zenon DEF vars, Sem!vars, Pipe!vars, Fifo!vars, File!vars, semVars, pipeVars, fifoVars, fileVars
<1>2. CASE Server
  BY <1>2, Zenon DEF Server, In, InFifo, InFile, Fifo!Next, File!Next
<1>3. CASE Outside
  BY <1>3, Zenon DEF Outside, In, InSem, InFifo, InFile, Sem!Next, Fifo!Next, File!Next
<1>4. ASSUME NEW p \in Pids, Process(p)
      PROVE  /\ UNCHANGED system
             /\ system = "sem" => Sem!Next
             /\ system = "pipes" => Pipe!Next
             /\ system = "fifo" => Fifo!Next
             /\ system = "file" => File!Next
  BY <1>4, ZenonT(30) DEF Process, In, InSem, InPipe, InFifo, InFile, Sem!Next, Pipe!Next, Fifo!Next, File!Next
<1>5. ASSUME NEW p \in Pids, ServerChild(p)
      PROVE  UNCHANGED system /\ system = "file" /\ File!Next
  BY <1>5, Zenon DEF ServerChild, In, InFile, File!Next
<1> QED
  BY <1>1, <1>2, <1>3, <1>4, <1>5, ZenonT(30) DEF Next

\* The system that runs starts as its module says.
LEMMA Starts ==
    ASSUME Init
    PROVE  /\ system = "sem" => Sem!Init
           /\ system = "pipes" => Pipe!Init
           /\ system = "fifo" => Fifo!Init
           /\ system = "file" => File!Init
  BY Zenon DEF Init

\* The invariant of svsem_good_init.c and svsem_bad_init.c holds while it runs.
LEMMA SemHolds == Spec => [](system = "sem" => SemIInv)
<1>1. Init => (system = "sem" => SemIInv)
  BY Starts, SemInitIInv, IpcAssumption, Zenon
<1>2. (system = "sem" => SemIInv) /\ [Next]_vars => (system = "sem" => SemIInv)'
  BY Steps, SemNextIInv, IpcAssumption, Zenon
<1> QED
  BY <1>1, <1>2, PTL DEF Spec

\* The invariant of the sequence-number server holds while it runs.
LEMMA FifoHolds == Spec => [](system = "fifo" => FifoIInv)
<1>1. Init => (system = "fifo" => FifoIInv)
  BY Starts, FifoInitIInv, IpcAssumption, Zenon
<1>2. (system = "fifo" => FifoIInv) /\ [Next]_vars => (system = "fifo" => FifoIInv)'
  BY Steps, FifoNextIInv, IpcAssumption, ZenonT(30)
<1> QED
  BY <1>1, <1>2, PTL DEF Spec

\* svsem_good_init.c initialises each set once and before it is used.
THEOREM InitOnce == Spec => []GoodInit
<1>1. (system = "sem" => SemIInv) => GoodInit
  BY SemIInvImplies, Zenon DEF GoodInit
<1> QED
  BY <1>1, SemHolds, PTL

\* svsem_bad_init.c never loses the operation of a set's creator.
THEOREM CreatorsOpKept == Spec => []BadCreatorsOpStays
<1>1. (system = "sem" => SemIInv) => BadCreatorsOpStays
  BY SemIInvImplies, Zenon DEF BadCreatorsOpStays
<1> QED
  BY <1>1, SemHolds, PTL

\* The sequences that clients print do not overlap.
THEOREM NumbersDoNotOverlap == Spec => []FifoUniqueNumbers
<1>1. (system = "fifo" => FifoIInv) => FifoUniqueNumbers
  BY FifoIInvImplies, Zenon DEF FifoUniqueNumbers
<1> QED
  BY <1>1, FifoHolds, PTL

\* The invariant of the file server holds while it runs.
LEMMA FileHolds == Spec => [](system = "file" => FileIInv)
<1>1. Init => (system = "file" => FileIInv)
  BY Starts, IpcAssumption, FileInitIInv, Zenon
<1>2. (system = "file" => FileIInv) /\ [Next]_vars => (system = "file" => FileIInv)'
  BY Steps, IpcAssumption, FileNextIInv, Zenon
<1> QED
  BY <1>1, <1>2, PTL DEF Spec

\* A client of the file server that succeeds has the whole file.
THEOREM FilesAreComplete == Spec => []FileComplete
<1>1. (system = "file" => FileIInv) => FileComplete
  BY FileIInvImplies, Zenon DEF FileComplete
<1> QED
  BY <1>1, FileHolds, PTL

-----------------------------------------------------------------------------
(* Pipes *)

PipeP == INSTANCE PipesProofs

\* PipeP is Pipe, with its theorems.
LEMMA PipeSame ==
    /\ PipeP!PipesAssumption
    /\ Pipe!Init <=> PipeP!Init
    /\ [Pipe!Next]_(Pipe!vars) <=> [PipeP!Next]_(PipeP!vars)
    /\ Pipe!SyncAfterAll <=> PipeP!SyncAfterAll
    /\ Pipe!Echo <=> PipeP!Echo
<1>1. PipeP!PipesAssumption
  BY IpcAssumption, Zenon DEF Pipe!PipesAssumption, PipeP!PipesAssumption
<1>2. Pipe!Init <=> PipeP!Init
  BY DEF Pipe!Init, PipeP!Init, Pipe!Procs, PipeP!Procs, Pipe!Parent, PipeP!Parent
<1>3. ASSUME NEW p PROVE Pipe!process(p) <=> PipeP!process(p)
  <2>1. Pipe!Script(p) = PipeP!Script(p)
    BY Zenon DEF
       Pipe!Script, PipeP!Script, Pipe!pipe_sync, PipeP!pipe_sync, Pipe!simple_pipe,
       PipeP!simple_pipe, Pipe!pipe_ls_wc, PipeP!pipe_ls_wc, Pipe!change_case, PipeP!change_case,
       Pipe!Call, PipeP!Call, Pipe!fork, PipeP!fork, Pipe!closeR, PipeP!closeR, Pipe!closeW,
       PipeP!closeW, Pipe!exit, PipeP!exit, Pipe!Parent, PipeP!Parent
  <2>2. \A o : Pipe!At(p, o) <=> PipeP!At(p, o)
    BY <2>1, Zenon DEF Pipe!At, PipeP!At
  <2>3. Pipe!Arg(p) = PipeP!Arg(p)
    BY <2>1, Zenon DEF Pipe!Arg, PipeP!Arg
  <2>4. /\ \A i : Pipe!Goto(p, i) <=> PipeP!Goto(p, i)
        /\ Pipe!Step(p) <=> PipeP!Step(p)
        /\ \A s : Pipe!Fill(p, s) <=> PipeP!Fill(p, s)
        /\ Pipe!CloseAll(p) <=> PipeP!CloseAll(p)
    BY Zenon DEF Pipe!Goto, PipeP!Goto, Pipe!Step, PipeP!Step, Pipe!Fill, PipeP!Fill, Pipe!CloseAll, PipeP!CloseAll
  <2>5. \A q : (Pipe!Available(q) <=> PipeP!Available(q)) /\ Pipe!Got(q) = PipeP!Got(q)
    BY Zenon DEF Pipe!Available, PipeP!Available, Pipe!Got, PipeP!Got
  <2>6. \A q : Pipe!Rest(q) = PipeP!Rest(q)
    BY <2>5, Zenon DEF Pipe!Rest, PipeP!Rest
  <2>7. Pipe!Fork(p) <=> PipeP!Fork(p)
    BY <2>2, <2>3, Zenon DEF Pipe!Fork, PipeP!Fork
  <2>8. Pipe!CloseR(p) <=> PipeP!CloseR(p)
    BY <2>2, <2>3, <2>4, Zenon DEF Pipe!CloseR, PipeP!CloseR
  <2>9. Pipe!CloseW(p) <=> PipeP!CloseW(p)
    BY <2>2, <2>3, <2>4, Zenon DEF Pipe!CloseW, PipeP!CloseW
  <2>10. Pipe!Local(p) <=> PipeP!Local(p)
    BY <2>2, <2>3, <2>4, Zenon DEF Pipe!Local, PipeP!Local
  <2>11. Pipe!Stdin(p) <=> PipeP!Stdin(p)
    BY <2>2, <2>3, <2>4, Zenon DEF Pipe!Stdin, PipeP!Stdin
  <2>12. Pipe!Stdout(p) <=> PipeP!Stdout(p)
    BY <2>2, <2>4, Zenon DEF Pipe!Stdout, PipeP!Stdout
  <2>13. Pipe!Write(p) <=> PipeP!Write(p)
    BY <2>2, <2>3, <2>4, Zenon DEF Pipe!Write, PipeP!Write
  <2>14. Pipe!Read(p) <=> PipeP!Read(p)
    BY <2>2, <2>3, <2>4, <2>5, <2>6, Zenon DEF Pipe!Read, PipeP!Read
  <2>15. Pipe!Copy(p) <=> PipeP!Copy(p)
    BY <2>2, <2>3, <2>4, <2>5, <2>6, Zenon DEF Pipe!Copy, PipeP!Copy
  <2>16. Pipe!ReadLine(p) <=> PipeP!ReadLine(p)
    BY <2>2, <2>3, <2>4, <2>5, <2>6, Zenon DEF Pipe!ReadLine, PipeP!ReadLine, Pipe!toupper, PipeP!toupper
  <2>17. Pipe!Exit(p) <=> PipeP!Exit(p)
    BY <2>2, <2>4, Zenon DEF Pipe!Exit, PipeP!Exit
  <2>18. Pipe!Wait(p) <=> PipeP!Wait(p)
    BY <2>2, <2>4, Zenon DEF Pipe!Wait, PipeP!Wait, Pipe!Procs, PipeP!Procs
  <2> QED
    BY <2>7, <2>8, <2>9, <2>10, <2>11, <2>12, <2>13, <2>14, <2>15, <2>16, <2>17, <2>18, Zenon DEF Pipe!process, PipeP!process
<1>4. [Pipe!Next]_(Pipe!vars) <=> [PipeP!Next]_(PipeP!vars)
  BY <1>3, Zenon DEF Pipe!Next, PipeP!Next, Pipe!vars, PipeP!vars, Pipe!Procs, PipeP!Procs
<1>5. Pipe!SyncAfterAll <=> PipeP!SyncAfterAll
  BY Zenon DEF
     Pipe!SyncAfterAll, PipeP!SyncAfterAll, Pipe!Script, PipeP!Script, Pipe!toupper, PipeP!toupper,
     Pipe!Call, PipeP!Call, Pipe!fork, PipeP!fork, Pipe!closeR, PipeP!closeR, Pipe!closeW,
     PipeP!closeW, Pipe!exit, PipeP!exit, Pipe!pipe_sync, PipeP!pipe_sync, Pipe!simple_pipe,
     PipeP!simple_pipe, Pipe!pipe_ls_wc, PipeP!pipe_ls_wc, Pipe!change_case, PipeP!change_case,
     Pipe!Parent, PipeP!Parent
<1>6. Pipe!Echo <=> PipeP!Echo
  BY Zenon DEF
     Pipe!Echo, PipeP!Echo, Pipe!Expected, PipeP!Expected, Pipe!toupper, PipeP!toupper, Pipe!Procs,
     PipeP!Procs, Pipe!Parent, PipeP!Parent
<1> QED
  BY <1>1, <1>2, <1>4, <1>5, <1>6, Zenon

\* The invariant of the pipe programs holds while one of them runs.
LEMMA PipeHolds == Spec => [](system = "pipes" => PipeP!PipeIInv)
<1> DEFINE I == system = "pipes" => PipeP!PipeIInv
<1>1. Init => I
  BY Starts, PipeSame, PipeP!PipeInitIInv, ZenonT(30)
<1>2. I /\ [Next]_vars => I'
  BY Steps, PipeSame, PipeP!PipeNextIInv, ZenonT(30)
<1> QED
  BY <1>1, <1>2, PTL DEF Spec

\* In pipe_sync.c end-of-file tells the parent that every child has done its
\* work, for any number of children.
THEOREM ChildrenAwaited == Spec => []PipesSyncAfterAll
<1>1. (system = "pipes" => PipeP!PipeIInv) => PipesSyncAfterAll
  BY PipeSame, PipeP!PipeIInvSync, ZenonT(30) DEF PipesSyncAfterAll
<1> QED
  BY <1>1, PipeHolds, PTL

\* What simple_pipe.c, pipe_ls_wc.c and change_case.c have output is the
\* beginning of their input, all of it in the end, for any input, buffer size
\* and capacity of a pipe.
THEOREM OutputIsInput == Spec => []PipesEcho
<1>1. (system = "pipes" => PipeP!PipeIInv) => PipesEcho
  BY PipeSame, PipeP!PipeIInvEcho, ZenonT(30) DEF PipesEcho
<1> QED
  BY <1>1, PipeHolds, PTL
=============================================================================

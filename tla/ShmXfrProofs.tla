---------------------------- MODULE ShmXfrProofs ----------------------------
(***************************************************************************)
(* Proofs about ShmXfr, for every buffer size, data set and input length.  *)
(*                                                                         *)
(* None of the properties is inductive by itself.  The argument is that of *)
(* a token: once the writer has set up the semaphores, exactly one of      *)
(* WRITE_SEM, READ_SEM, the writer and the reader may have the turn, and   *)
(* where the turn is determines how far the output is behind the input.    *)
(***************************************************************************)
EXTENDS ShmXfr, TLAPS

WHolds == w.pc \in {"read", "release", "rmSem", "rmShm", "done", "failed"}
RHolds == r.pc \in {"test", "write", "release", "lastRelease"}
WFree  == sem[WRITE_SEM] = 1
RFree  == sem[READ_SEM] = 1
Eof    == shm.cnt = 0

\* Where the turn is.
Token ==
    /\ ~SetUp => r.pc = "start"
    /\ SetUp => /\ ~(WHolds /\ RHolds) /\ ~(WHolds /\ WFree) /\ ~(WHolds /\ RFree)
                /\ ~(RHolds /\ WFree) /\ ~(RHolds /\ RFree) /\ ~(WFree /\ RFree)
    /\ w.pc = "initRead" => WFree
    /\ w.pc = "shmget" => WFree /\ ~RFree
    /\ w.pc \notin {"start", "rmShm", "done"} => semExists

\* How far the reader is when the input has ended.
AtEof ==
    /\ r.pc = "done" => w.pc \notin {"start", "initWrite", "initRead", "shmget", "reserve", "read", "release", "failed"}
    /\ r.pc = "lastRelease" => w.pc \in {"test", "lastReserve"} /\ Eof
    /\ r.pc = "done" => Eof
    /\ w.pc = "lastReserve" => Eof
    /\ w.pc \in {"test", "lastReserve"} /\ Eof =>
          /\ r.pc \notin {"write", "release"}
          /\ WFree => r.pc = "done"
    /\ w.pc \in {"rmSem", "rmShm", "done"} => r.pc = "done"

\* The unread block, if there is one.
Pending == w.pc = "release" \/ RFree \/ r.pc \in {"test", "write"}
Transfer ==
    /\ ~SetUp \/ WFree \/ w.pc \in {"read", "rmSem", "rmShm", "done", "failed"} \/ r.pc \in {"release", "lastRelease"}
          => sent = out
    /\ SetUp /\ Pending => /\ shm.cnt >= 0
                           /\ IF Eof THEN sent = out ELSE sent = Append(out, shm)
    /\ sent = out \/ sent = Append(out, shm)
    /\ r.pc = "write" => ~Eof
    /\ w.pc = "reserve" /\ (RFree \/ r.pc = "test") => ~Eof
    /\ w.pc \in {"test", "lastReserve"} => shm.cnt >= 0

\* The running totals, up to the block in flight.
Untested == SetUp /\ ~Eof /\ (w.pc = "release" \/ RFree \/ r.pc = "test")
Uncounted == ~Eof /\ w.pc \in {"release", "test"}
Totals ==
    /\ Len(sent) = w.xfrs + IF Uncounted THEN 1 ELSE 0
    /\ Len(out) = r.xfrs + IF r.pc = "release" THEN 1 ELSE 0
    /\ w.bytes + (IF Uncounted THEN shm.cnt ELSE 0) = r.bytes + (IF Untested THEN shm.cnt ELSE 0)

IInv == TypeOK /\ Token /\ AtEof /\ Transfer /\ Totals

\* The initial states, leftovers of an earlier run included, satisfy it.
LEMMA InitIInv == Init => IInv
<1> SUFFICES ASSUME Init PROVE IInv
  BY Zenon
<1>1. TypeOK
  BY ShmXfrAssumption DEF Init, TypeOK, WRITE_SEM, READ_SEM, WPc, RPc, ShmSeg, Block
<1>2. Token
  BY Zenon DEF Init, Token, Pending, SetUp, WHolds, RHolds, WFree, RFree
<1>3. AtEof
  BY Zenon DEF Init, AtEof, SetUp, Eof
<1>4. Transfer
  BY DEF Init, Transfer, Pending, SetUp, WFree, RFree, Eof
<1>5. Totals
  BY DEF Init, Totals, Uncounted, Untested, SetUp
<1> QED
  BY <1>1, <1>2, <1>3, <1>4, <1>5, Zenon DEF IInv

\* No step of either program loses it.
LEMMA NextIInv == IInv /\ [Next]_vars => IInv'
<1> SUFFICES ASSUME IInv, [Next]_vars PROVE IInv'
  BY Zenon
<1> USE ShmXfrAssumption DEF IInv, TypeOK, Token, AtEof, Transfer, Totals, Uncounted, Untested, Pending, SetUp,
     WHolds, RHolds, WFree, RFree, Eof, WRITE_SEM, READ_SEM, WPc, RPc, ShmSeg, Block, WGoto, RGoto,
     available, reserveSem, releaseSem, initSemAvailable, initSemInUse
<1>1. CASE WSemget
  BY <1>1, Zenon DEF WSemget
<1>2. CASE WInitWrite
  BY <1>2, Zenon DEF WInitWrite
<1>3. CASE WInitRead
  BY <1>3 DEF WInitRead
<1>4. CASE WShmget
  <2>1. TypeOK'
    <3> HIDE DEF AtEof, Totals, Transfer
    <3>1. sem' \in [{WRITE_SEM, READ_SEM} -> {0, 1}]
      BY <1>4, Zenon DEF WShmget
    <3>2. shm' \in ShmSeg
      BY <1>4 DEF WShmget
    <3>3. w' \in [pc : WPc, xfrs : Nat, bytes : Int]
      BY <1>4, Zenon DEF WShmget
    <3>4. r' \in [pc : RPc, xfrs : Nat, bytes : Int]
      BY <1>4, Zenon DEF WShmget
    <3>5. sent' \in Seq(Block) /\ out' \in Seq(ShmSeg)
      BY <1>4, Zenon DEF WShmget
    <3> QED
      BY <3>1, <3>2, <3>3, <3>4, <3>5, <1>4, Zenon DEF WShmget
  <2>2. Token'
    BY <1>4, Zenon DEF WShmget
  <2>3. AtEof'
    BY <1>4, Zenon DEF WShmget
  <2>4. Transfer'
    BY <1>4, Zenon DEF WShmget
  <2>5. Totals'
    BY <1>4, Zenon DEF WShmget
  <2> QED
    BY <2>1, <2>2, <2>3, <2>4, <2>5, Zenon
<1>5. CASE WReserve
  <2>1. TypeOK'
    BY <1>5 DEF WReserve
  <2>2. Token'
    BY <1>5 DEF WReserve
  <2>3. AtEof'
    BY <1>5, Zenon DEF WReserve
  <2>4. Transfer'
    BY <1>5 DEF WReserve
  <2>5. Totals'
    BY <1>5, Zenon DEF WReserve
  <2> QED
    BY <2>1, <2>2, <2>3, <2>4, <2>5, Zenon
<1>6. CASE WRead
  <2>1. TypeOK'
    <3> HIDE DEF AtEof, Totals, Transfer, Token
    <3>1. CASE \E blk \in Block : shm' = blk /\ sent' = Append(sent, blk)
      <4>1. PICK blk \in Block : shm' = blk /\ sent' = Append(sent, blk)
        BY <3>1, Zenon
      <4>2. shm' \in ShmSeg
        BY <4>1
      <4>3. sent' \in Seq(Block)
        BY <4>1 DEF Block
      <4> QED
        BY <4>2, <4>3, <1>6, Zenon DEF WRead
    <3>2. CASE shm' = [shm EXCEPT !.cnt = 0] /\ UNCHANGED sent
      <4>1. shm \in ShmSeg /\ 0 \in -1..BUF_SIZE
        OBVIOUS
      <4>2. shm' \in ShmSeg
        <5> HIDE DEF IInv, TypeOK
        <5> QED
          BY <4>1, <3>2, Zenon
      <4> QED
        BY <4>2, <3>2, <1>6, Zenon DEF WRead
    <3> QED
      BY <3>1, <3>2, <1>6, Zenon DEF WRead
  <2>2. Token'
    BY <1>6, Zenon DEF WRead
  <2>3. AtEof'
    BY <1>6, Zenon DEF WRead
  <2>4. Transfer'
    BY <1>6 DEF WRead
  <2>5. Totals'
    BY <1>6 DEF WRead
  <2> QED
    BY <2>1, <2>2, <2>3, <2>4, <2>5, Zenon
<1>7. CASE WReadError
  <2>1. TypeOK'
    BY <1>7, SMTT(30) DEF WReadError
  <2>2. Token' /\ AtEof'
    BY <1>7, ZenonT(30) DEF WReadError
  <2>3. Transfer'
    BY <1>7, SMTT(30) DEF WReadError
  <2>4. Totals'
    BY <1>7, SMTT(30) DEF WReadError
  <2> QED
    BY <2>1, <2>2, <2>3, <2>4, Zenon
<1>8. CASE WRelease
  <2>1. TypeOK'
    <3> HIDE DEF AtEof, Totals, Transfer
    <3>1. sem' \in [{WRITE_SEM, READ_SEM} -> {0, 1}]
      BY <1>8 DEF WRelease
    <3>2. shm' \in ShmSeg
      BY <1>8, Zenon DEF WRelease
    <3>3. w' \in [pc : WPc, xfrs : Nat, bytes : Int]
      BY <1>8, Zenon DEF WRelease
    <3>4. r' \in [pc : RPc, xfrs : Nat, bytes : Int]
      BY <1>8, Zenon DEF WRelease
    <3>5. sent' \in Seq(Block) /\ out' \in Seq(ShmSeg)
      BY <1>8, Zenon DEF WRelease
    <3> QED
      BY <3>1, <3>2, <3>3, <3>4, <3>5, <1>8, Zenon DEF WRelease
  <2>2. Token'
    BY <1>8, Zenon DEF WRelease
  <2>3. AtEof'
    BY <1>8, Zenon DEF WRelease
  <2>4. Transfer'
    BY <1>8, Zenon DEF WRelease
  <2>5. Totals'
    BY <1>8 DEF WRelease
  <2> QED
    BY <2>1, <2>2, <2>3, <2>4, <2>5, Zenon
<1>9. CASE WTest
  <2>1. TypeOK'
    <3> HIDE DEF AtEof, Totals, Transfer
    <3>1. sem' \in [{WRITE_SEM, READ_SEM} -> {0, 1}]
      BY <1>9, Zenon DEF WTest
    <3>2. shm' \in ShmSeg
      BY <1>9, Zenon DEF WTest
    <3>3. w' \in [pc : WPc, xfrs : Nat, bytes : Int]
      <4> HIDE DEF Token
      <4>1. CASE shm.cnt = 0
        BY <4>1, <1>9, Zenon DEF WTest
      <4>2. CASE shm.cnt # 0
        <5>1. w.bytes + shm.cnt \in Int /\ w.xfrs + 1 \in Nat
          OBVIOUS
        <5>2. w' = [pc |-> "reserve", xfrs |-> w.xfrs + 1, bytes |-> w.bytes + shm.cnt]
          BY <4>2, <1>9, Zenon DEF WTest
        <5> QED
          BY <5>1, <5>2, Zenon
      <4> QED
        BY <4>1, <4>2, Zenon
    <3>4. r' \in [pc : RPc, xfrs : Nat, bytes : Int]
      BY <1>9, Zenon DEF WTest
    <3>5. sent' \in Seq(Block) /\ out' \in Seq(ShmSeg)
      BY <1>9, Zenon DEF WTest
    <3> QED
      BY <3>1, <3>2, <3>3, <3>4, <3>5, <1>9, Zenon DEF WTest
  <2>2. Token'
    BY <1>9, Zenon DEF WTest
  <2>3. AtEof'
    BY <1>9, Zenon DEF WTest
  <2>4. Transfer'
    BY <1>9, Zenon DEF WTest
  <2>5. Totals'
    <3> HIDE DEF AtEof
    <3>1. w.pc = "test" /\ UNCHANGED <<shm, sem, r, sent, out>>
      BY <1>9, Zenon DEF WTest
    <3>2. CASE Eof
      BY <3>1, <3>2, <1>9, Zenon DEF WTest
    <3>3. CASE ~Eof
      <4>1. w' = [pc |-> "reserve", xfrs |-> w.xfrs + 1, bytes |-> w.bytes + shm.cnt]
        BY <3>3, <1>9, Zenon DEF WTest
      <4> HIDE DEF Transfer, Token
      <4>2. Uncounted /\ ~Uncounted' /\ (Untested' <=> Untested)
        BY <3>1, <3>3, <4>1, Zenon
      <4>3. w.bytes \in Int /\ w.xfrs \in Nat /\ r.bytes \in Int /\ r.xfrs \in Nat /\ shm.cnt \in Int
        OBVIOUS
      <4>4. w'.bytes = w.bytes + shm.cnt /\ w'.xfrs = w.xfrs + 1
        BY <4>1, Zenon
      <4> HIDE DEF TypeOK, Uncounted, Untested
      <4> QED
        BY <3>1, <4>2, <4>3, <4>4
    <3> QED
      BY <3>2, <3>3, Zenon
  <2> QED
    BY <2>1, <2>2, <2>3, <2>4, <2>5, Zenon
<1>10. CASE WLastReserve
  BY <1>10 DEF WLastReserve
<1>11. CASE WRemoveSem
  BY <1>11, Zenon DEF WRemoveSem
<1>12. CASE WRemoveShm
  BY <1>12, Zenon DEF WRemoveShm
<1>13. CASE RShmget
  BY <1>13, ZenonT(30) DEF RShmget
<1>14. CASE RReserve
  <2>1. TypeOK'
    <3> HIDE DEF AtEof, Totals, Transfer
    <3>1. sem' \in [{WRITE_SEM, READ_SEM} -> {0, 1}]
      BY <1>14 DEF RReserve
    <3>2. shm' \in ShmSeg
      BY <1>14, Zenon DEF RReserve
    <3>3. w' \in [pc : WPc, xfrs : Nat, bytes : Int]
      BY <1>14, Zenon DEF RReserve
    <3>4. r' \in [pc : RPc, xfrs : Nat, bytes : Int]
      BY <1>14, Zenon DEF RReserve
    <3>5. sent' \in Seq(Block) /\ out' \in Seq(ShmSeg)
      BY <1>14, Zenon DEF RReserve
    <3> QED
      BY <3>1, <3>2, <3>3, <3>4, <3>5, <1>14, Zenon DEF RReserve
  <2>2. semExists /\ r' = [r EXCEPT !.pc = "test"] /\ RFree /\ ~RFree' /\ (WFree' <=> WFree)
    <3> HIDE DEF Totals, Transfer
    <3>1. semExists
      BY <1>14, Zenon DEF RReserve
    <3> HIDE DEF AtEof
    <3> QED
      BY <3>1, <1>14 DEF RReserve
  <2>3. UNCHANGED <<semExists, shm, w, sent, out>> /\ r.pc = "reserve"
    BY <1>14, Zenon DEF RReserve
  <2>4. Token'
    <3> HIDE DEF AtEof, Totals, Transfer, WFree, RFree
    <3> QED
      BY <2>2, <2>3, Zenon
  <2>5. AtEof'
    BY <2>2, <2>3, Zenon
  <2>6. Transfer'
    <3> HIDE DEF AtEof, Totals
    <3> QED
      BY <2>2, <2>3, Zenon
  <2>7. Totals'
    <3> HIDE DEF AtEof, Transfer
    <3> QED
      BY <2>2, <2>3, Zenon
  <2> QED
    BY <2>1, <2>4, <2>5, <2>6, <2>7, Zenon
<1>15. CASE RTest
  <2>1. TypeOK'
    <3> HIDE DEF AtEof, Totals, Transfer
    <3>1. sem' \in [{WRITE_SEM, READ_SEM} -> {0, 1}]
      BY <1>15, Zenon DEF RTest
    <3>2. shm' \in ShmSeg
      BY <1>15, Zenon DEF RTest
    <3>3. w' \in [pc : WPc, xfrs : Nat, bytes : Int]
      BY <1>15, Zenon DEF RTest
    <3>4. r' \in [pc : RPc, xfrs : Nat, bytes : Int]
      <4> HIDE DEF Token
      <4>1. shm.cnt \in Int
        OBVIOUS
      <4>2. CASE shm.cnt = 0
        BY <4>2, <1>15, Zenon DEF RTest
      <4>3. CASE shm.cnt # 0
        <5>1. r.bytes + shm.cnt \in Int
          BY <4>1
        <5>2. r' = [r EXCEPT !.pc = "write", !.bytes = r.bytes + shm.cnt]
          BY <4>3, <1>15, Zenon DEF RTest
        <5> QED
          BY <5>1, <5>2, Zenon DEF RPc
      <4> QED
        BY <4>2, <4>3, Zenon
    <3>5. sent' \in Seq(Block) /\ out' \in Seq(ShmSeg)
      BY <1>15, Zenon DEF RTest
    <3> QED
      BY <3>1, <3>2, <3>3, <3>4, <3>5, <1>15, Zenon DEF RTest
  <2>2. Token'
    BY <1>15, Zenon DEF RTest
  <2>3. AtEof'
    BY <1>15, Zenon DEF RTest
  <2>4. Transfer'
    BY <1>15, Zenon DEF RTest
  <2>5. Totals'
    BY <1>15 DEF RTest
  <2> QED
    BY <2>1, <2>2, <2>3, <2>4, <2>5, Zenon
<1>16. CASE RWrite
  <2>1. TypeOK'
    <3> HIDE DEF AtEof, Totals, Transfer
    <3>1. sem' \in [{WRITE_SEM, READ_SEM} -> {0, 1}]
      BY <1>16, Zenon DEF RWrite
    <3>2. shm' \in ShmSeg
      BY <1>16, Zenon DEF RWrite
    <3>3. w' \in [pc : WPc, xfrs : Nat, bytes : Int]
      BY <1>16, Zenon DEF RWrite
    <3>4. r' \in [pc : RPc, xfrs : Nat, bytes : Int]
      BY <1>16, Zenon DEF RWrite
    <3>5. sent' \in Seq(Block) /\ out' \in Seq(ShmSeg)
      BY <1>16 DEF RWrite
    <3> QED
      BY <3>1, <3>2, <3>3, <3>4, <3>5, <1>16, Zenon DEF RWrite
  <2>2. Token'
    BY <1>16, Zenon DEF RWrite
  <2>3. AtEof'
    BY <1>16, Zenon DEF RWrite
  <2>4. Transfer'
    BY <1>16, Zenon DEF RWrite
  <2>5. Totals'
    <3> HIDE DEF AtEof, Transfer
    <3>1. Len(out') = Len(out) + 1
      BY <1>16 DEF RWrite
    <3>2. r.pc = "write" /\ r' = [r EXCEPT !.pc = "release"]
      BY <1>16, Zenon DEF RWrite
    <3> QED
      BY <3>1, <3>2, <1>16 DEF RWrite
  <2> QED
    BY <2>1, <2>2, <2>3, <2>4, <2>5, Zenon
<1>17. CASE RWriteError
  BY <1>17, Zenon DEF RWriteError
<1>18. CASE RRelease
  <2>1. TypeOK'
    <3> HIDE DEF AtEof, Totals, Transfer
    <3>1. sem' \in [{WRITE_SEM, READ_SEM} -> {0, 1}]
      BY <1>18 DEF RRelease
    <3>2. shm' \in ShmSeg
      BY <1>18, Zenon DEF RRelease
    <3>3. w' \in [pc : WPc, xfrs : Nat, bytes : Int]
      BY <1>18, Zenon DEF RRelease
    <3>4. r' \in [pc : RPc, xfrs : Nat, bytes : Int]
      <4> HIDE DEF Token
      <4>1. CASE semExists
        <5>1. r.xfrs + 1 \in Nat
          OBVIOUS
        <5>2. r' = [r EXCEPT !.pc = "reserve", !.xfrs = r.xfrs + 1]
          BY <4>1, <1>18, Zenon DEF RRelease
        <5> QED
          BY <5>1, <5>2, Zenon DEF RPc
      <4>2. CASE ~semExists
        BY <4>2, <1>18, Zenon DEF RRelease
      <4> QED
        BY <4>1, <4>2, Zenon
    <3>5. sent' \in Seq(Block) /\ out' \in Seq(ShmSeg)
      BY <1>18, Zenon DEF RRelease
    <3> QED
      BY <3>1, <3>2, <3>3, <3>4, <3>5, <1>18, Zenon DEF RRelease
  <2>2. Token'
    BY <1>18, Zenon DEF RRelease
  <2>3. AtEof'
    BY <1>18, Zenon DEF RRelease
  <2>4. Transfer'
    BY <1>18, Zenon DEF RRelease
  <2>5. Totals'
    <3> HIDE DEF Transfer
    <3>1. semExists
      BY <1>18, Zenon DEF RRelease
    <3> HIDE DEF AtEof
    <3>2. r.pc = "release" /\ r' = [r EXCEPT !.pc = "reserve", !.xfrs = r.xfrs + 1] /\ (RFree' <=> RFree)
      BY <3>1, <1>18, Zenon DEF RRelease
    <3> QED
      BY <3>2, <1>18 DEF RRelease
  <2> QED
    BY <2>1, <2>2, <2>3, <2>4, <2>5, Zenon
<1>19. CASE RLastRelease
  <2>1. TypeOK'
    <3> HIDE DEF AtEof, Totals, Transfer
    <3>1. sem' \in [{WRITE_SEM, READ_SEM} -> {0, 1}]
      BY <1>19 DEF RLastRelease
    <3>2. shm' \in ShmSeg
      BY <1>19, Zenon DEF RLastRelease
    <3>3. w' \in [pc : WPc, xfrs : Nat, bytes : Int]
      BY <1>19, Zenon DEF RLastRelease
    <3>4. r' \in [pc : RPc, xfrs : Nat, bytes : Int]
      BY <1>19, Zenon DEF RLastRelease
    <3>5. sent' \in Seq(Block) /\ out' \in Seq(ShmSeg)
      BY <1>19, Zenon DEF RLastRelease
    <3> QED
      BY <3>1, <3>2, <3>3, <3>4, <3>5, <1>19, Zenon DEF RLastRelease
  <2>2. Token'
    BY <1>19, Zenon DEF RLastRelease
  <2>3. AtEof'
    BY <1>19, Zenon DEF RLastRelease
  <2>4. Transfer'
    BY <1>19, Zenon DEF RLastRelease
  <2>5. Totals'
    BY <1>19, Zenon DEF RLastRelease
  <2> QED
    BY <2>1, <2>2, <2>3, <2>4, <2>5, Zenon
<1>20. CASE SetUp /\ RSemget
  BY <1>20, ZenonT(30) DEF RSemget
<1>21. CASE UNCHANGED vars
  BY <1>21 DEF vars
<1> QED
  BY <1>1, <1>2, <1>3, <1>4, <1>5, <1>6, <1>7, <1>8, <1>9, <1>10, <1>11, <1>12, <1>13, <1>14,
     <1>15, <1>16, <1>17, <1>18, <1>19, <1>20, <1>21, ZenonT(30) DEF Next, Writer, Reader

\* The turn passes between the two programs and the two semaphores and is
\* never in two places.
THEOREM Safety == Spec => []IInv
  BY InitIInv, NextIInv, PTL DEF Spec

\* Both semaphores stay binary and every variable keeps its type.
THEOREM TypeCorrect == Spec => []TypeOK
  BY Safety, PTL DEF IInv

\* The writer and the reader are never both inside the segment.
THEOREM Exclusive == Spec => []ExclusiveAccess
<1>1. IInv => ExclusiveAccess
  BY Zenon DEF IInv, Token, ExclusiveAccess, WriterInside, ReaderInside, SetUp, WHolds, RHolds
<1> QED
  BY <1>1, Safety, PTL

\* The output is the input, at most one block behind.
THEOREM BlocksInTurn == Spec => []InTurn
<1>1. IInv => InTurn
  BY Zenon DEF IInv, Transfer, InTurn
<1> QED
  BY <1>1, Safety, PTL

\* The writer removes the objects only when the reader has finished.
THEOREM ReaderFinishedFirst == Spec => []ObjectsOutliveReader
<1>1. IInv => ObjectsOutliveReader
  BY Zenon DEF IInv, AtEof, ObjectsOutliveReader
<1> QED
  BY <1>1, Safety, PTL

\* The two reports agree with each other and with the input.
THEOREM ReportsAgree == Spec => []TotalsAgree
<1>1. IInv => TotalsAgree
  BY DEF IInv, TypeOK, Token, AtEof, Transfer, Totals, TotalsAgree, SetUp, Untested, Uncounted,
     WHolds, RHolds, RFree, WFree, Eof, WRITE_SEM, READ_SEM
<1> QED
  BY <1>1, Safety, PTL

\* Every step of either program is a Give, a Take or no step of the hand-off:
\* the programs implement the abstract transfer.
THEOREM ImplementsHandoff == Spec => HandoffSpec
<1>1. Init => Abstract!Init
  BY Zenon DEF Init, Abstract!Init
<1>2. IInv /\ [Next]_vars => [Abstract!Next]_<<sent, out>>
  <2> SUFFICES ASSUME IInv, [Next]_vars PROVE [Abstract!Next]_<<sent, out>>
    BY Zenon
  <2>1. CASE WRead
    <3>1. sent = out
      BY <2>1, Zenon DEF WRead, IInv, Transfer
    <3>2. Block \subseteq ShmSeg
      BY ShmXfrAssumption DEF Block, ShmSeg
    <3> QED
      BY <3>1, <3>2, <2>1, Zenon DEF WRead, Abstract!Next, Abstract!Give
  <2>2. CASE RWrite
    <3>1. sent = Append(out, shm)
      BY <2>2, Zenon DEF RWrite, IInv, Token, Transfer, Pending, SetUp, Eof
    <3>2. sent # out
      BY <3>1 DEF IInv, TypeOK
    <3> QED
      BY <3>1, <3>2, <2>2, Zenon DEF RWrite, Abstract!Next, Abstract!Take
  <2>3. CASE UNCHANGED vars
    BY <2>3, Zenon DEF vars
  <2>4. CASE (Next /\ ~WRead /\ ~RWrite)
    BY <2>4, Zenon DEF Next, Writer, Reader, WSemget, WInitWrite, WInitRead, WShmget, WReserve, WReadError,
       WRelease, WTest, WLastReserve, WRemoveSem, WRemoveShm, RSemget, RShmget, RReserve, RTest,
       RWriteError, RRelease, RLastRelease
  <2> QED
    BY <2>1, <2>2, <2>3, <2>4, Zenon
<1> QED
  BY <1>1, <1>2, Safety, PTL DEF Spec, HandoffSpec, Abstract!Spec
=============================================================================

----------------------------- MODULE PipesProofs -----------------------------
(***************************************************************************)
(* Proofs about Pipes, for every input, buffer size, capacity of a pipe    *)
(* and number of children.  For each of the programs an invariant says     *)
(* where its processes can be together (...Ctl), which ends of the pipes   *)
(* they have open (...Ends), and where the input is that has not been      *)
(* output (...Flow).                                                       *)
(*                                                                         *)
(* simple_pipe.c, pipe_ls_wc.c: what was output, the contents of the pipe, *)
(* the writer's buffer and the rest of the input are, one after the other, *)
(* the input; a reader that sees end-of-file finds the other three empty.  *)
(* change_case.c: one line at a time is under way, in one of six places.   *)
(* pipe_sync.c: each child has the write end open from its fork() until    *)
(* its work is done, and no one else has when the parent reads.            *)
(***************************************************************************)
EXTENDS Pipes, TLAPS

-----------------------------------------------------------------------------
(* Sequences *)

\* In capitals
Upper(s) == [i \in DOMAIN s |-> toupper(s[i])]

\* An empty one adds nothing.
LEMMA Nothing ==
    ASSUME NEW s \in Seq(Nat)
    PROVE  << >> \in Seq(Nat) /\ << >> \o s = s /\ s \o << >> = s /\ (Len(s) = 0 <=> s = << >>) /\ Len(s) \in Nat
  BY SMTT(30)

\* What one after the other gives
LEMMA Joins ==
    ASSUME NEW a \in Seq(Nat), NEW b \in Seq(Nat)
    PROVE  /\ a \o b \in Seq(Nat) /\ Len(a \o b) = Len(a) + Len(b) /\ Len(a) \in Nat /\ Len(b) \in Nat
           /\ \A i \in 1..Len(a) : (a \o b)[i] = a[i]
           /\ \A i \in 1..Len(b) : (a \o b)[Len(a) + i] = b[i]
  BY SMTT(30)

\* Sequences with the same elements are the same.
LEMMA Same ==
    ASSUME NEW s \in Seq(Nat), NEW t \in Seq(Nat), Len(s) = Len(t), \A i \in 1..Len(s) : s[i] = t[i]
    PROVE  s = t
  BY SMTT(30)

LEMMA Joined ==
    ASSUME NEW a \in Seq(Nat), NEW b \in Seq(Nat), NEW c \in Seq(Nat), Len(c) = Len(a) + Len(b),
           \A i \in 1..Len(a) : c[i] = a[i], \A i \in 1..Len(b) : c[Len(a) + i] = b[i]
    PROVE  c = a \o b
<1> DEFINE d == a \o b
<1>1. /\ d \in Seq(Nat) /\ Len(d) = Len(a) + Len(b) /\ Len(a) \in Nat /\ Len(b) \in Nat
      /\ \A i \in 1..Len(a) : d[i] = a[i]
      /\ \A i \in 1..Len(b) : d[Len(a) + i] = b[i]
  BY Joins, Zenon
<1> HIDE DEF d
<1>2. ASSUME NEW i \in 1..Len(c) PROVE c[i] = d[i]
  <2>1. CASE i \in 1..Len(a)
    BY <1>1, <2>1, Zenon
  <2>2. CASE i \notin 1..Len(a)
    <3>1. i - Len(a) \in 1..Len(b) /\ Len(a) + (i - Len(a)) = i
      BY <1>1, <2>2
    <3> DEFINE k == i - Len(a)
    <3>2. k \in 1..Len(b) /\ Len(a) + k = i
      BY <3>1, Zenon
    <3> HIDE DEF k
    <3>3. d[Len(a) + k] = c[Len(a) + k]
      BY <1>1, <3>2, Zenon
    <3> QED
      BY <3>2, <3>3, Zenon
  <2> QED
    BY <2>1, <2>2, Zenon
<1>3. c = d
  BY <1>1, <1>2, Same, Zenon
<1> QED
  BY <1>3, Zenon DEF d

LEMMA Regroup ==
    ASSUME NEW a \in Seq(Nat), NEW b \in Seq(Nat), NEW c \in Seq(Nat)
    PROVE  (a \o b) \o c = a \o (b \o c)
  BY SMTT(30)

\* A sequence is its first m elements and the others.
LEMMA Divides ==
    ASSUME NEW s \in Seq(Nat), NEW m \in 0..Len(s)
    PROVE  /\ SubSeq(s, 1, m) \in Seq(Nat) /\ SubSeq(s, m + 1, Len(s)) \in Seq(Nat)
           /\ Len(SubSeq(s, 1, m)) = m /\ Len(SubSeq(s, m + 1, Len(s))) = Len(s) - m
           /\ SubSeq(s, 1, m) \o SubSeq(s, m + 1, Len(s)) = s
<1> DEFINE a == SubSeq(s, 1, m)
           b == SubSeq(s, m + 1, Len(s))
<1>1. /\ a \in Seq(Nat) /\ Len(a) = m /\ \A i \in 1..m : s[i] = a[i]
      /\ b \in Seq(Nat) /\ Len(b) = Len(s) - m /\ \A i \in 1..(Len(s) - m) : s[m + i] = b[i]
  BY SMTT(30)
<1> HIDE DEF a, b
<1>2. Len(s) = m + (Len(s) - m)
  OBVIOUS
<1>3. /\ Len(s) = Len(a) + Len(b) /\ \A i \in 1..Len(a) : s[i] = a[i]
      /\ \A i \in 1..Len(b) : s[Len(a) + i] = b[i]
  BY <1>1, <1>2, Zenon
<1>4. s = a \o b
  BY <1>1, <1>3, Joined, Zenon
<1> QED
  BY <1>1, <1>4, Zenon DEF a, b

LEMMA Begins ==
    ASSUME NEW a \in Seq(Nat), NEW b \in Seq(Nat)
    PROVE  Len(a) <= Len(a \o b) /\ a = SubSeq(a \o b, 1, Len(a))
  BY SMTT(30)

LEMMA Capitals ==
    ASSUME NEW s \in Seq(Nat)
    PROVE  /\ Upper(s) \in Seq(Nat) /\ Len(Upper(s)) = Len(s)
           /\ \A i \in 1..Len(s) : Upper(s)[i] = s[i] + 100
  BY SMTT(30) DEF Upper, toupper

LEMMA CapitalsJoin ==
    ASSUME NEW a \in Seq(Nat), NEW b \in Seq(Nat)
    PROVE  Upper(a \o b) = Upper(a) \o Upper(b)
<1> DEFINE c == a \o b
           u == Upper(a)
           v == Upper(b)
           w == Upper(c)
<1>1. /\ c \in Seq(Nat) /\ Len(c) = Len(a) + Len(b) /\ Len(a) \in Nat /\ Len(b) \in Nat
      /\ \A i \in 1..Len(a) : c[i] = a[i]
      /\ \A i \in 1..Len(b) : c[Len(a) + i] = b[i]
  BY Joins, Zenon
<1> HIDE DEF c
<1>2. /\ u \in Seq(Nat) /\ Len(u) = Len(a) /\ \A i \in 1..Len(a) : u[i] = a[i] + 100
      /\ v \in Seq(Nat) /\ Len(v) = Len(b) /\ \A i \in 1..Len(b) : v[i] = b[i] + 100
      /\ w \in Seq(Nat) /\ Len(w) = Len(c) /\ \A i \in 1..Len(c) : w[i] = c[i] + 100
  BY <1>1, Capitals, Zenon
<1> HIDE DEF u, v, w
<1>3. \A i \in 1..Len(a) : i \in 1..Len(c)
  BY <1>1
<1>4. \A i \in 1..Len(b) : Len(a) + i \in 1..Len(c)
  BY <1>1
<1>5. \A i \in 1..Len(a) : w[i] = u[i]
  <2> SUFFICES ASSUME NEW i \in 1..Len(a) PROVE w[i] = u[i]
    OBVIOUS
  <2>1. u[i] = a[i] + 100
    BY <1>2, Zenon
  <2>2. w[i] = c[i] + 100
    BY <1>2, <1>3, Zenon
  <2>3. c[i] = a[i]
    BY <1>1, Zenon
  <2> QED
    BY <2>1, <2>2, <2>3, Zenon
<1>6. \A i \in 1..Len(b) : w[Len(a) + i] = v[i]
  <2> SUFFICES ASSUME NEW i \in 1..Len(b) PROVE w[Len(a) + i] = v[i]
    OBVIOUS
  <2>1. v[i] = b[i] + 100
    BY <1>2, Zenon
  <2>2. w[Len(a) + i] = c[Len(a) + i] + 100
    BY <1>2, <1>4, Zenon
  <2>3. c[Len(a) + i] = b[i]
    BY <1>1, Zenon
  <2> QED
    BY <2>1, <2>2, <2>3, Zenon
<1>7. u \in Seq(Nat) /\ v \in Seq(Nat) /\ w \in Seq(Nat) /\ Len(u) = Len(a) /\ Len(v) = Len(b) /\ Len(w) = Len(c)
  BY <1>2, Zenon
<1>8. Len(w) = Len(u) + Len(v)
  BY <1>1, <1>7, Zenon
<1>9. (\A i \in 1..Len(u) : w[i] = u[i]) /\ \A i \in 1..Len(v) : w[Len(u) + i] = v[i]
  BY <1>5, <1>6, <1>7, SMTT(30)
<1>10. w = u \o v
  BY <1>7, <1>8, <1>9, Joined, Zenon
<1> QED
  BY <1>10, Zenon DEF u, v, w, c

-----------------------------------------------------------------------------
(* Pipes: the calls *)

PipeTyped ==
    /\ ip \in [Procs -> Nat] /\ buf \in [Procs -> Seq(Nat)]
    /\ left \in Seq(Nat) /\ out \in Seq(Nat) /\ data \in [1..2 -> Seq(Nat)]
    /\ rd \in [1..2 -> SUBSET Procs] /\ wr \in [1..2 -> SUBSET Procs]
    /\ dead \in [Procs -> {"no", "zombie", "reaped"}]

\* Only p goes on, or to i; the others stay where they are.
GoesTo(p, i) == ip'[p] = i /\ \A r \in Procs : r # p => ip'[r] = ip[r]

\* Nobody but p loses an end of a pipe.
OnlyLoses(p) == \A q \in 1..2 : \A r \in Procs : r # p => (r \in rd[q] => r \in rd'[q]) /\ (r \in wr[q] => r \in wr'[q])

\* There are a parent and two children at least.
LEMMA Family ==
    ASSUME PipesAssumption
    PROVE  /\ 0 \in Procs /\ 1 \in Procs /\ 2 \in Procs /\ Procs \subseteq Nat
           /\ \A k \in 1..NumKids : k \in Procs /\ k # 0
  BY SMTT(30) DEF PipesAssumption, Procs

\* The fields of a call
LEMMA CallFields == \A o, a : Call(o, a).op = o /\ Call(o, a).arg = a
  BY Zenon DEF Call

\* A process makes the call that is next in its program.
LEMMA Performs ==
    ASSUME NEW p, process(p), NEW o, Script(p)[ip[p]].op = o
    PROVE  /\ ip[p] > 0 /\ dead[p] = "no" /\ prog' = prog
           /\ (o = "fork" => Fork(p)) /\ (o = "closeR" => CloseR(p)) /\ (o = "closeW" => CloseW(p))
           /\ (o = "work" => Local(p)) /\ (o = "goto" => Local(p))
           /\ (o = "stdin" => Stdin(p)) /\ (o = "getline" => Stdin(p)) /\ (o = "stdout" => Stdout(p))
           /\ (o = "write" => Write(p)) /\ (o = "read" => Read(p)) /\ (o = "copy" => Copy(p))
           /\ (o = "readline" => ReadLine(p)) /\ (o = "exit" => Exit(p)) /\ (o = "wait" => Wait(p))
<1> DEFINE Does(name) == ip[p] > 0 /\ dead[p] = "no" /\ o = name
<1>1. (Fork(p) => Does("fork")) /\ (CloseR(p) => Does("closeR")) /\ (CloseW(p) => Does("closeW"))
  BY Zenon DEF At, Fork, CloseR, CloseW
<1>2. (Local(p) => Does("work") \/ Does("goto")) /\ (Read(p) => Does("read")) /\ (Exit(p) => Does("exit"))
  BY Zenon DEF At, Local, Read, Exit
<1>3. (Stdin(p) => Does("stdin") \/ Does("getline")) /\ (Stdout(p) => Does("stdout"))
  BY Zenon DEF At, Stdin, Stdout
<1>4. (Write(p) => Does("write")) /\ (Copy(p) => Does("copy"))
  BY Zenon DEF At, Write, Copy
<1>5. (ReadLine(p) => Does("readline")) /\ (Wait(p) => Does("wait"))
  BY Zenon DEF At, ReadLine, Wait
<1>6. /\ \/ Fork(p) \/ CloseR(p) \/ CloseW(p) \/ Local(p) \/ Stdin(p) \/ Stdout(p)
         \/ Write(p) \/ Read(p) \/ Copy(p) \/ ReadLine(p) \/ Exit(p) \/ Wait(p)
      /\ prog' = prog
  BY Zenon DEF process
<1> QED
  BY <1>1, <1>2, <1>3, <1>4, <1>5, <1>6, SMTT(30)

\* A step from call to call
LEMMA StepsOn ==
    ASSUME PipeTyped, NEW p \in Procs, NEW i \in Nat, Goto(p, i)
    PROVE  ip' \in [Procs -> Nat] /\ GoesTo(p, i)
<1>1. ip \in [Procs -> Nat] /\ ip' = [ip EXCEPT ![p] = i]
  BY Zenon DEF PipeTyped, Goto
<1> QED
  BY <1>1, Zenon DEF GoesTo

LEMMA StepsBy1 ==
    ASSUME PipeTyped, NEW p \in Procs, Step(p)
    PROVE  ip' \in [Procs -> Nat] /\ GoesTo(p, ip[p] + 1)
<1>1. ip[p] + 1 \in Nat
  BY DEF PipeTyped
<1> QED
  BY <1>1, StepsOn, Zenon DEF Step

\* fork(): the child starts with the descriptors of its parent.
LEMMA Forks ==
    ASSUME PipeTyped, NEW p \in Procs, NEW c \in Procs, c # p, Fork(p), Arg(p) = c
    PROVE  /\ PipeTyped' /\ UNCHANGED <<buf, left, out, data, dead>>
           /\ ip'[p] = ip[p] + 1 /\ ip'[c] = 1 /\ \A r \in Procs : r # p /\ r # c => ip'[r] = ip[r]
           /\ \A q \in 1..2 : /\ rd[q] \subseteq rd'[q] /\ (p \in rd[q] => c \in rd'[q])
                              /\ wr[q] \subseteq wr'[q] /\ (p \in wr[q] => c \in wr'[q])
<1>1. /\ ip' = [ip EXCEPT ![p] = ip[p] + 1, ![c] = 1]
      /\ rd' = [q \in 1..2 |-> IF p \in rd[q] THEN rd[q] \cup {c} ELSE rd[q]]
      /\ wr' = [q \in 1..2 |-> IF p \in wr[q] THEN wr[q] \cup {c} ELSE wr[q]]
      /\ UNCHANGED <<buf, left, out, data, dead>>
  BY Zenon DEF Fork
<1>2. ip \in [Procs -> Nat]
  BY Zenon DEF PipeTyped
<1>3. /\ ip' \in [Procs -> Nat]
      /\ ip'[p] = ip[p] + 1 /\ ip'[c] = 1 /\ \A r \in Procs : r # p /\ r # c => ip'[r] = ip[r]
  BY <1>1, <1>2, SMTT(30)
<1>4. \A q \in 1..2 : /\ rd[q] \subseteq rd'[q] /\ (p \in rd[q] => c \in rd'[q])
                      /\ wr[q] \subseteq wr'[q] /\ (p \in wr[q] => c \in wr'[q])
  BY <1>1, Zenon
<1>5. rd' \in [1..2 -> SUBSET Procs] /\ wr' \in [1..2 -> SUBSET Procs]
  <2>1. \A q \in 1..2 : rd[q] \subseteq Procs /\ wr[q] \subseteq Procs
    BY Zenon DEF PipeTyped
  <2> QED
    BY <1>1, <2>1, Zenon
<1> QED
  BY <1>1, <1>3, <1>4, <1>5, Zenon DEF PipeTyped

LEMMA Dropped ==
    ASSUME NEW P, NEW f \in [1..2 -> SUBSET P], NEW p, NEW q \in 1..2, NEW g, g = f \/ g = [f EXCEPT ![q] = f[q] \ {p}]
    PROVE  /\ g \in [1..2 -> SUBSET P] /\ \A i \in 1..2 : i # q => g[i] = f[i]
           /\ \A i \in 1..2 : \A r \in P : r # p => (r \in f[i] => r \in g[i])
  BY ZenonT(30)

\* close() of an end of pipe q
LEMMA Closes ==
    ASSUME PipeTyped, NEW p \in Procs, NEW q \in 1..2, Arg(p) = q, CloseR(p) \/ CloseW(p)
    PROVE  /\ PipeTyped' /\ UNCHANGED <<buf, left, out, data, dead>> /\ GoesTo(p, ip[p] + 1) /\ OnlyLoses(p)
           /\ \A i \in 1..2 : i # q => rd'[i] = rd[i] /\ wr'[i] = wr[i]
           /\ (CloseR(p) => wr' = wr) /\ (CloseW(p) => rd' = rd)
<1>1. /\ Step(p) /\ UNCHANGED <<buf, left, out, data, dead>>
      /\ rd' = rd \/ rd' = [rd EXCEPT ![q] = rd[q] \ {p}]
      /\ wr' = wr \/ wr' = [wr EXCEPT ![q] = wr[q] \ {p}]
      /\ (CloseR(p) => wr' = wr) /\ (CloseW(p) => rd' = rd)
  BY Zenon DEF CloseR, CloseW
<1>2. ip' \in [Procs -> Nat] /\ GoesTo(p, ip[p] + 1)
  BY <1>1, StepsBy1, Zenon
<1>3. rd \in [1..2 -> SUBSET Procs] /\ wr \in [1..2 -> SUBSET Procs]
  BY Zenon DEF PipeTyped
<1>4. /\ rd' \in [1..2 -> SUBSET Procs] /\ \A i \in 1..2 : i # q => rd'[i] = rd[i]
      /\ \A i \in 1..2 : \A r \in Procs : r # p => (r \in rd[i] => r \in rd'[i])
  <2>1. rd' = rd \/ rd' = [rd EXCEPT ![q] = rd[q] \ {p}]
    BY <1>1, Zenon
  <2> QED
    BY <1>3, <2>1, Dropped
<1>5. /\ wr' \in [1..2 -> SUBSET Procs] /\ \A i \in 1..2 : i # q => wr'[i] = wr[i]
      /\ \A i \in 1..2 : \A r \in Procs : r # p => (r \in wr[i] => r \in wr'[i])
  <2>1. wr' = wr \/ wr' = [wr EXCEPT ![q] = wr[q] \ {p}]
    BY <1>1, Zenon
  <2> QED
    BY <1>3, <2>1, Dropped
<1> QED
  BY <1>1, <1>2, <1>4, <1>5, Zenon DEF PipeTyped, OnlyLoses

\* _exit() closes all.
LEMMA Exits ==
    ASSUME PipeTyped, NEW p \in Procs, Exit(p)
    PROVE  /\ PipeTyped' /\ UNCHANGED <<ip, buf, left, out, data>> /\ OnlyLoses(p)
           /\ dead'[p] = "zombie" /\ \A r \in Procs : r # p => dead'[r] = dead[r]
<1>1. /\ dead' = [dead EXCEPT ![p] = "zombie"] /\ UNCHANGED <<ip, buf, left, out, data>>
      /\ rd' = [q \in 1..2 |-> rd[q] \ {p}] /\ wr' = [q \in 1..2 |-> wr[q] \ {p}]
  BY Zenon DEF Exit, CloseAll
<1>2. \A q \in 1..2 : rd[q] \subseteq Procs /\ wr[q] \subseteq Procs
  BY Zenon DEF PipeTyped
<1>3. rd' \in [1..2 -> SUBSET Procs] /\ wr' \in [1..2 -> SUBSET Procs] /\ OnlyLoses(p)
  BY <1>1, <1>2, Zenon DEF OnlyLoses
<1>4. dead \in [Procs -> {"no", "zombie", "reaped"}]
  BY Zenon DEF PipeTyped
<1>5. /\ dead' \in [Procs -> {"no", "zombie", "reaped"}]
      /\ dead'[p] = "zombie" /\ \A r \in Procs : r # p => dead'[r] = dead[r]
  BY <1>1, <1>4, Zenon
<1> QED
  BY <1>1, <1>3, <1>5, Zenon DEF PipeTyped

\* wait() reaps a child that has ended.
LEMMA Waits ==
    ASSUME PipeTyped, NEW p \in Procs, Wait(p)
    PROVE  /\ PipeTyped' /\ UNCHANGED <<buf, left, out, data, rd, wr>> /\ GoesTo(p, ip[p] + 1)
           /\ \E c \in Procs : /\ dead[c] = "zombie" /\ dead'[c] = "reaped"
                                    /\ \A r \in Procs : r # c => dead'[r] = dead[r]
<1>1. PICK c \in Procs : dead[c] = "zombie" /\ dead' = [dead EXCEPT ![c] = "reaped"]
  BY Zenon DEF Wait
<1>2. Step(p) /\ UNCHANGED <<buf, left, out, data, rd, wr>>
  BY Zenon DEF Wait
<1>3. ip' \in [Procs -> Nat] /\ GoesTo(p, ip[p] + 1)
  BY <1>2, StepsBy1, Zenon
<1>4. dead \in [Procs -> {"no", "zombie", "reaped"}]
  BY Zenon DEF PipeTyped
<1>5. /\ dead' \in [Procs -> {"no", "zombie", "reaped"}]
      /\ dead'[c] = "reaped" /\ \A r \in Procs : r # c => dead'[r] = dead[r]
  BY <1>1, <1>4, Zenon
<1> QED
  BY <1>1, <1>2, <1>3, <1>5, Zenon DEF PipeTyped

\* What one pipe or process does leaves the others alone.
LEMMA Changed ==
    ASSUME NEW D, NEW R, NEW f \in [D -> R], NEW d \in D, NEW v \in R, NEW g, g = [f EXCEPT ![d] = v]
    PROVE  g \in [D -> R] /\ g[d] = v /\ \A e \in D : e # d => g[e] = f[e]
  BY Zenon

\* write(): m bytes go from the buffer to the pipe.
LEMMA Writes ==
    ASSUME PipeTyped, PipesAssumption, NEW p \in Procs, NEW q \in 1..2,
           Arg(p) = q, rd[q] # {}, Write(p)
    PROVE  /\ PipeTyped' /\ UNCHANGED <<left, out, rd, wr, dead>>
           /\ \E m \in 0..Len(buf[p]) :
                /\ data'[q] = data[q] \o SubSeq(buf[p], 1, m)
                /\ buf'[p] = SubSeq(buf[p], m + 1, Len(buf[p]))
                /\ GoesTo(p, IF m = Len(buf[p]) THEN ip[p] + 1 ELSE ip[p])
                /\ Len(buf[p]) <= BUF_SIZE => m = Len(buf[p])
                /\ m = Len(buf[p]) => buf'[p] = << >> /\ data'[q] = data[q] \o buf[p]
           /\ \A i \in 1..2 : i # q => data'[i] = data[i]
           /\ \A r \in Procs : r # p => buf'[r] = buf[r]
<1> DEFINE n == Len(buf[p])
           room == PipeSize - Len(data[q])
           m == IF n <= room THEN n ELSE room
<1>1. /\ m > 0 \/ n = 0
      /\ n <= BUF_SIZE => m = n
      /\ data' = [data EXCEPT ![q] = data[q] \o SubSeq(buf[p], 1, m)]
      /\ buf' = [buf EXCEPT ![p] = SubSeq(buf[p], m + 1, n)]
      /\ IF m = n THEN Step(p) ELSE UNCHANGED ip
      /\ UNCHANGED <<left, out, rd, wr, dead>>
  BY Zenon DEF Write, Fill
<1>2. /\ buf \in [Procs -> Seq(Nat)] /\ data \in [1..2 -> Seq(Nat)] /\ ip \in [Procs -> Nat]
      /\ buf[p] \in Seq(Nat) /\ data[q] \in Seq(Nat)
  BY Zenon DEF PipeTyped
<1>3. n \in Nat /\ room \in Int /\ BUF_SIZE \in Nat
  <2>1. PipeSize \in Int /\ BUF_SIZE \in Nat
    BY SMTT(30) DEF PipesAssumption
  <2> QED
    BY <1>2, <2>1
<1>4. m \in 0..n
  <2> HIDE DEF n, room
  <2> QED
    BY <1>1, <1>3, SMTT(30)
<1> HIDE DEF m
<1>5. SubSeq(buf[p], 1, m) \in Seq(Nat) /\ SubSeq(buf[p], m + 1, n) \in Seq(Nat)
  BY <1>2, <1>4, Divides, Zenon
<1>6. data[q] \o SubSeq(buf[p], 1, m) \in Seq(Nat)
  BY <1>2, <1>5, Joins, Zenon
<1>7. /\ data' \in [1..2 -> Seq(Nat)] /\ data'[q] = data[q] \o SubSeq(buf[p], 1, m)
      /\ \A i \in 1..2 : i # q => data'[i] = data[i]
  BY <1>1, <1>2, <1>6, Changed, Zenon
<1>8. /\ buf' \in [Procs -> Seq(Nat)] /\ buf'[p] = SubSeq(buf[p], m + 1, n)
      /\ \A r \in Procs : r # p => buf'[r] = buf[r]
  BY <1>1, <1>2, <1>5, Changed, Zenon
<1>9. ip' \in [Procs -> Nat] /\ GoesTo(p, IF m = n THEN ip[p] + 1 ELSE ip[p])
  <2>1. CASE m = n
    BY <1>1, <2>1, StepsBy1, Zenon
  <2>2. CASE m # n
    BY <1>1, <1>2, <2>2, Zenon DEF GoesTo
  <2> QED
    BY <2>1, <2>2, Zenon
<1>10. PipeTyped'
  BY <1>1, <1>7, <1>8, <1>9, Zenon DEF PipeTyped
<1>11. m = n => buf'[p] = << >> /\ data'[q] = data[q] \o buf[p]
  <2> SUFFICES ASSUME m = n PROVE SubSeq(buf[p], m + 1, n) = << >> /\ SubSeq(buf[p], 1, m) = buf[p]
    BY <1>7, <1>8, Zenon
  <2>1. /\ Len(SubSeq(buf[p], m + 1, n)) = n - m
        /\ SubSeq(buf[p], 1, m) \o SubSeq(buf[p], m + 1, n) = buf[p]
    BY <1>2, <1>4, Divides, Zenon
  <2>2. Len(SubSeq(buf[p], m + 1, n)) = 0
    <3> HIDE DEF n
    <3> QED
      BY <1>3, <2>1
  <2>3. SubSeq(buf[p], m + 1, n) = << >>
    BY <1>5, <2>2, Nothing, Zenon
  <2> QED
    BY <1>5, <2>1, <2>3, Nothing, Zenon
<1> QED
  BY <1>1, <1>4, <1>7, <1>8, <1>9, <1>10, <1>11, Zenon

\* What a read takes
LEMMA Takes ==
    ASSUME PipeTyped, PipesAssumption, NEW q \in 1..2
    PROVE  /\ \E n \in 0..Len(data[q]) :
                /\ Got(q) = SubSeq(data[q], 1, n) /\ Rest(q) = SubSeq(data[q], n + 1, Len(data[q]))
                /\ Len(data[q]) <= BUF_SIZE => n = Len(data[q])
           /\ Got(q) \in Seq(Nat) /\ Rest(q) \in Seq(Nat) /\ Got(q) \o Rest(q) = data[q]
           /\ Len(Got(q)) <= BUF_SIZE /\ (Got(q) = << >> <=> data[q] = << >>)
           /\ Len(data[q]) <= BUF_SIZE => Got(q) = data[q] /\ Rest(q) = << >>
<1> DEFINE d == data[q]
           n == IF Len(d) < BUF_SIZE THEN Len(d) ELSE BUF_SIZE
<1>1. d \in Seq(Nat) /\ BUF_SIZE \in Nat \ {0}
  BY DEF PipeTyped, PipesAssumption
<1> HIDE DEF d
<1>2. Len(d) \in Nat /\ (Len(d) = 0 <=> d = << >>)
  BY <1>1, Nothing, Zenon
<1>3. n \in 0..Len(d) /\ n <= BUF_SIZE /\ (n = 0 <=> Len(d) = 0) /\ (Len(d) <= BUF_SIZE => n = Len(d))
  BY <1>1, <1>2, SMTT(30)
<1>4. Got(q) = SubSeq(d, 1, n)
  BY Zenon DEF Got, d
<1> HIDE DEF n
<1>5. /\ SubSeq(d, 1, n) \in Seq(Nat) /\ SubSeq(d, n + 1, Len(d)) \in Seq(Nat)
      /\ Len(SubSeq(d, 1, n)) = n /\ Len(SubSeq(d, n + 1, Len(d))) = Len(d) - n
      /\ SubSeq(d, 1, n) \o SubSeq(d, n + 1, Len(d)) = d
  BY <1>1, <1>3, Divides, Zenon
<1>6. Rest(q) = SubSeq(d, n + 1, Len(d))
  BY <1>4, <1>5, Zenon DEF Rest, d
<1>7. Got(q) = << >> <=> d = << >>
  BY <1>2, <1>3, <1>4, <1>5, Nothing, Zenon
<1>8. Len(d) <= BUF_SIZE => Len(Rest(q)) = 0
  BY <1>2, <1>3, <1>5, <1>6, SMTT(30)
<1>9. Len(d) <= BUF_SIZE => Rest(q) = << >>
  BY <1>5, <1>6, <1>8, Nothing, Zenon
<1>10. Len(d) <= BUF_SIZE => Got(q) = d
  BY <1>4, <1>5, <1>6, <1>9, Nothing, Zenon
<1> QED
  BY <1>3, <1>4, <1>5, <1>6, <1>7, <1>9, <1>10, Zenon DEF d

\* read() into the buffer
LEMMA Reads ==
    ASSUME PipeTyped, PipesAssumption, NEW p \in Procs, NEW q \in 1..2, Arg(p) = q, Read(p)
    PROVE  /\ PipeTyped' /\ UNCHANGED <<left, out, rd, wr, dead>> /\ GoesTo(p, ip[p] + 1)
           /\ data[q] # << >> \/ wr[q] = {}
           /\ buf'[p] = Got(q) /\ \A r \in Procs : r # p => buf'[r] = buf[r]
           /\ data'[q] = Rest(q) /\ \A i \in 1..2 : i # q => data'[i] = data[i]
<1>1. /\ data[q] # << >> \/ wr[q] = {}
      /\ buf' = [buf EXCEPT ![p] = Got(q)] /\ data' = [data EXCEPT ![q] = Rest(q)]
      /\ Step(p) /\ UNCHANGED <<left, out, rd, wr, dead>>
  BY Zenon DEF Read, Available, Fill
<1>2. /\ buf \in [Procs -> Seq(Nat)] /\ data \in [1..2 -> Seq(Nat)]
      /\ Got(q) \in Seq(Nat) /\ Rest(q) \in Seq(Nat)
  BY Takes, Zenon DEF PipeTyped
<1>3. ip' \in [Procs -> Nat] /\ GoesTo(p, ip[p] + 1)
  BY <1>1, StepsBy1, Zenon
<1>4. /\ data' \in [1..2 -> Seq(Nat)] /\ data'[q] = Rest(q)
      /\ \A i \in 1..2 : i # q => data'[i] = data[i]
  BY <1>1, <1>2, Changed, Zenon
<1>5. /\ buf' \in [Procs -> Seq(Nat)] /\ buf'[p] = Got(q)
      /\ \A r \in Procs : r # p => buf'[r] = buf[r]
  BY <1>1, <1>2, Changed, Zenon
<1> QED
  BY <1>1, <1>3, <1>4, <1>5, Zenon DEF PipeTyped

\* read() of a line, which is converted
LEMMA ReadsLine ==
    ASSUME PipeTyped, PipesAssumption, NEW p \in Procs, Arg(p) \in Nat, ReadLine(p)
    PROVE  /\ PipeTyped' /\ UNCHANGED <<left, out, rd, wr, dead>>
           /\ data[1] # << >> \/ wr[1] = {}
           /\ buf'[p] = Upper(Got(1)) /\ \A r \in Procs : r # p => buf'[r] = buf[r]
           /\ data'[1] = Rest(1) /\ data'[2] = data[2]
           /\ GoesTo(p, IF data[1] = << >> THEN Arg(p) ELSE ip[p] + 1)
<1>1. /\ data[1] # << >> \/ wr[1] = {}
      /\ buf' = [buf EXCEPT ![p] = Upper(Got(1))] /\ data' = [data EXCEPT ![1] = Rest(1)]
      /\ IF Got(1) = << >> THEN Goto(p, Arg(p)) ELSE Step(p)
      /\ UNCHANGED <<left, out, rd, wr, dead>>
  BY Zenon DEF ReadLine, Available, Fill, Upper
<1>2. 1 \in 1..2 /\ 2 \in 1..2 /\ 2 # 1
  OBVIOUS
<1>3. /\ buf \in [Procs -> Seq(Nat)] /\ data \in [1..2 -> Seq(Nat)]
      /\ Upper(Got(1)) \in Seq(Nat) /\ Rest(1) \in Seq(Nat) /\ (Got(1) = << >> <=> data[1] = << >>)
  BY <1>2, Takes, Capitals, Zenon DEF PipeTyped
<1>4. ip' \in [Procs -> Nat] /\ GoesTo(p, IF data[1] = << >> THEN Arg(p) ELSE ip[p] + 1)
  BY <1>1, <1>3, StepsOn, StepsBy1, Zenon
<1>5. data' \in [1..2 -> Seq(Nat)] /\ data'[1] = Rest(1) /\ data'[2] = data[2]
  BY <1>1, <1>2, <1>3, Changed, Zenon
<1>6. /\ buf' \in [Procs -> Seq(Nat)] /\ buf'[p] = Upper(Got(1))
      /\ \A r \in Procs : r # p => buf'[r] = buf[r]
  BY <1>1, <1>3, Changed, Zenon
<1> QED
  BY <1>1, <1>4, <1>5, <1>6, Zenon DEF PipeTyped

\* A read() and the output of what it got
LEMMA Copies ==
    ASSUME PipeTyped, PipesAssumption, NEW p \in Procs, NEW q \in 1..2, Arg(p) = q, Copy(p)
    PROVE  /\ PipeTyped' /\ UNCHANGED <<buf, left, rd, wr, dead>>
           /\ data[q] # << >> \/ wr[q] = {}
           /\ out' = out \o Got(q)
           /\ data'[q] = Rest(q) /\ \A i \in 1..2 : i # q => data'[i] = data[i]
           /\ GoesTo(p, IF data[q] = << >> THEN ip[p] + 1 ELSE ip[p])
<1>1. /\ data[q] # << >> \/ wr[q] = {}
      /\ out' = out \o Got(q) /\ data' = [data EXCEPT ![q] = Rest(q)]
      /\ IF Got(q) = << >> THEN Step(p) ELSE UNCHANGED ip
      /\ UNCHANGED <<buf, left, rd, wr, dead>>
  BY Zenon DEF Copy, Available
<1>2. /\ out \in Seq(Nat) /\ data \in [1..2 -> Seq(Nat)] /\ ip \in [Procs -> Nat]
      /\ Got(q) \in Seq(Nat) /\ Rest(q) \in Seq(Nat) /\ (Got(q) = << >> <=> data[q] = << >>)
  BY Takes, Zenon DEF PipeTyped
<1>3. ip' \in [Procs -> Nat] /\ GoesTo(p, IF data[q] = << >> THEN ip[p] + 1 ELSE ip[p])
  <2>1. CASE data[q] = << >>
    BY <1>1, <1>2, <2>1, StepsBy1, Zenon
  <2>2. CASE data[q] # << >>
    BY <1>1, <1>2, <2>2, Zenon DEF GoesTo
  <2> QED
    BY <2>1, <2>2, Zenon
<1>4. /\ data' \in [1..2 -> Seq(Nat)] /\ data'[q] = Rest(q)
      /\ \A i \in 1..2 : i # q => data'[i] = data[i]
  BY <1>1, <1>2, Changed, Zenon
<1>5. out' \in Seq(Nat)
  BY <1>1, <1>2, Joins, Zenon
<1> QED
  BY <1>1, <1>3, <1>4, <1>5, Zenon DEF PipeTyped

\* Input: all there is, or a line
LEMMA Gets ==
    ASSUME PipeTyped, PipesAssumption, NEW p \in Procs, Arg(p) \in Nat, Stdin(p)
    PROVE  /\ PipeTyped' /\ UNCHANGED <<out, data, rd, wr, dead>>
           /\ \A r \in Procs : r # p => buf'[r] = buf[r]
           /\ Script(p)[ip[p]].op = "stdin" =>
                 buf'[p] = left /\ left' = << >> /\ GoesTo(p, ip[p] + 1)
           /\ Script(p)[ip[p]].op = "getline" =>
                 \/ left = << >> /\ UNCHANGED <<buf, left>> /\ GoesTo(p, Arg(p))
                 \/ /\ left = buf'[p] \o left' /\ Len(buf'[p]) \in 1..BUF_SIZE
                    /\ GoesTo(p, ip[p] + 1)
<1>1. buf \in [Procs -> Seq(Nat)] /\ left \in Seq(Nat)
  BY Zenon DEF PipeTyped
<1>2. CASE At(p, "stdin") /\ Fill(p, left) /\ left' = << >> /\ Step(p) /\ UNCHANGED <<out, data, rd, wr, dead>>
  <2>1. Script(p)[ip[p]].op = "stdin" /\ buf' = [buf EXCEPT ![p] = left]
    BY <1>2, Zenon DEF At, Fill
  <2>2. ip' \in [Procs -> Nat] /\ GoesTo(p, ip[p] + 1)
    BY <1>2, StepsBy1, Zenon
  <2>3. buf' \in [Procs -> Seq(Nat)] /\ buf'[p] = left /\ \A r \in Procs : r # p => buf'[r] = buf[r]
    BY <1>1, <2>1, Changed, Zenon
  <2>4. left' \in Seq(Nat)
    BY <1>1, <1>2, Nothing, Zenon
  <2>5. PipeTyped'
    BY <1>2, <2>2, <2>3, <2>4, Zenon DEF PipeTyped
  <2> QED
    BY <1>2, <2>1, <2>2, <2>3, <2>5, Zenon
<1>3. ASSUME At(p, "getline"), Step(p), UNCHANGED <<out, data, rd, wr, dead>>, NEW n \in 1..BUF_SIZE,
             n <= Len(left), Fill(p, SubSeq(left, 1, n)), left' = SubSeq(left, n + 1, Len(left))
      PROVE  /\ PipeTyped' /\ \A r \in Procs : r # p => buf'[r] = buf[r]
             /\ Script(p)[ip[p]].op = "getline"
             /\ left = buf'[p] \o left' /\ Len(buf'[p]) \in 1..BUF_SIZE /\ GoesTo(p, ip[p] + 1)
  <2>1. Script(p)[ip[p]].op = "getline" /\ buf' = [buf EXCEPT ![p] = SubSeq(left, 1, n)]
    BY <1>3, Zenon DEF At, Fill
  <2>2. n \in 0..Len(left)
    <3>1. Len(left) \in Nat
      BY <1>1, Nothing, Zenon
    <3> QED
      BY <1>3, <3>1
  <2>3. /\ SubSeq(left, 1, n) \in Seq(Nat) /\ SubSeq(left, n + 1, Len(left)) \in Seq(Nat)
        /\ Len(SubSeq(left, 1, n)) = n /\ SubSeq(left, 1, n) \o SubSeq(left, n + 1, Len(left)) = left
    BY <1>1, <2>2, Divides, Zenon
  <2>4. ip' \in [Procs -> Nat] /\ GoesTo(p, ip[p] + 1)
    BY <1>3, StepsBy1, Zenon
  <2>5. /\ buf' \in [Procs -> Seq(Nat)] /\ buf'[p] = SubSeq(left, 1, n)
        /\ \A r \in Procs : r # p => buf'[r] = buf[r]
    BY <1>1, <2>1, <2>3, Changed, Zenon
  <2>6. PipeTyped'
    BY <1>3, <2>3, <2>4, <2>5, Zenon DEF PipeTyped
  <2> QED
    BY <1>3, <2>1, <2>3, <2>4, <2>5, <2>6, Zenon
<1>4. CASE /\ At(p, "getline") /\ left = << >> /\ Goto(p, Arg(p))
           /\ UNCHANGED <<buf, left>> /\ UNCHANGED <<out, data, rd, wr, dead>>
  <2>1. Script(p)[ip[p]].op = "getline"
    BY <1>4, Zenon DEF At
  <2>2. ip' \in [Procs -> Nat] /\ GoesTo(p, Arg(p))
    BY <1>4, StepsOn, Zenon
  <2>3. PipeTyped'
    BY <1>4, <2>2, Zenon DEF PipeTyped
  <2> QED
    BY <1>4, <2>1, <2>2, <2>3, Zenon
<1>5. UNCHANGED <<out, data, rd, wr, dead>>
  BY Zenon DEF Stdin
<1> QED
  BY <1>2, <1>3, <1>4, <1>5, ZenonT(30) DEF Stdin

\* Output of the buffer
LEMMA Puts ==
    ASSUME PipeTyped, NEW p \in Procs, Stdout(p)
    PROVE  /\ PipeTyped' /\ UNCHANGED <<buf, left, data, rd, wr, dead>>
           /\ out' = out \o buf[p] /\ GoesTo(p, ip[p] + 1)
<1>1. Step(p) /\ out' = out \o buf[p] /\ UNCHANGED <<buf, left, data, rd, wr, dead>>
  BY Zenon DEF Stdout
<1>2. ip' \in [Procs -> Nat] /\ GoesTo(p, ip[p] + 1)
  BY <1>1, StepsBy1, Zenon
<1>3. out' \in Seq(Nat)
  <2>1. out \in Seq(Nat) /\ buf[p] \in Seq(Nat)
    BY Zenon DEF PipeTyped
  <2> QED
    BY <1>1, <2>1, Joins, Zenon
<1> QED
  BY <1>1, <1>2, <1>3, Zenon DEF PipeTyped

\* Work, and jumps
LEMMA Works ==
    ASSUME PipeTyped, NEW p \in Procs, Arg(p) \in Nat, Local(p)
    PROVE  /\ PipeTyped' /\ UNCHANGED <<buf, left, out, data, rd, wr, dead>>
           /\ Script(p)[ip[p]].op = "work" => GoesTo(p, ip[p] + 1)
           /\ Script(p)[ip[p]].op = "goto" => GoesTo(p, Arg(p))
<1>1. UNCHANGED <<buf, left, out, data, rd, wr, dead>>
  BY Zenon DEF Local
<1>2. \/ Script(p)[ip[p]].op = "work" /\ Step(p)
      \/ Script(p)[ip[p]].op = "goto" /\ Goto(p, Arg(p))
  BY Zenon DEF Local, At
<1>3. /\ Step(p) => ip' \in [Procs -> Nat] /\ GoesTo(p, ip[p] + 1)
      /\ Goto(p, Arg(p)) => ip' \in [Procs -> Nat] /\ GoesTo(p, Arg(p))
  BY StepsOn, StepsBy1, Zenon
<1>4. "work" # "goto"
  OBVIOUS
<1>5. ip' \in [Procs -> Nat]
  BY <1>2, <1>3, Zenon
<1> QED
  BY <1>1, <1>2, <1>3, <1>4, <1>5, Zenon DEF PipeTyped

-----------------------------------------------------------------------------
(* Pipes: what a writer w sends through pipe 1 comes out. *)

Feeds(w) == Input = out \o (data[1] \o (buf[w] \o left))

\* It does while nothing moves, ...
LEMMA FeedsStill ==
    ASSUME NEW w, Feeds(w), UNCHANGED <<buf, left, out, data>>
    PROVE  Feeds(w)'
  BY Zenon DEF Feeds

\* ... when the writer gets its input, ...
LEMMA FeedsInput ==
    ASSUME PipeTyped, NEW w \in Procs, Feeds(w), buf[w] = << >>, buf'[w] = left, left' = << >>, UNCHANGED <<out, data>>
    PROVE  Feeds(w)'
<1>1. left \in Seq(Nat)
  BY Zenon DEF PipeTyped
<1>2. buf[w] \o left = buf'[w] \o left'
  BY <1>1, Nothing, Zenon
<1> QED
  BY <1>2, Zenon DEF Feeds

\* ... when it writes a part of it, ...
LEMMA FeedsWrite ==
    ASSUME PipeTyped, NEW w \in Procs, Feeds(w), UNCHANGED <<out, left>>, NEW m \in 0..Len(buf[w]),
           data'[1] = data[1] \o SubSeq(buf[w], 1, m), buf'[w] = SubSeq(buf[w], m + 1, Len(buf[w]))
    PROVE  Feeds(w)'
<1> DEFINE a == SubSeq(buf[w], 1, m)
           b == SubSeq(buf[w], m + 1, Len(buf[w]))
<1>1. 1 \in 1..2
  OBVIOUS
<1>2. buf[w] \in Seq(Nat) /\ left \in Seq(Nat) /\ data[1] \in Seq(Nat)
  BY <1>1, Zenon DEF PipeTyped
<1>3. a \in Seq(Nat) /\ b \in Seq(Nat) /\ a \o b = buf[w]
  BY <1>2, Divides, Zenon
<1> HIDE DEF a, b
<1>4. b \o left \in Seq(Nat)
  BY <1>2, <1>3, Joins, Zenon
<1>5. (a \o b) \o left = a \o (b \o left)
  BY <1>2, <1>3, Regroup, Zenon
<1>6. (data[1] \o a) \o (b \o left) = data[1] \o (a \o (b \o left))
  BY <1>2, <1>3, <1>4, Regroup, Zenon
<1>7. data[1] \o (buf[w] \o left) = data'[1] \o (buf'[w] \o left')
  <2>1. buf[w] \o left = a \o (b \o left)
    BY <1>3, <1>5, Zenon
  <2>2. data'[1] = data[1] \o a /\ buf'[w] = b
    BY Zenon DEF a, b
  <2> QED
    BY <1>6, <2>1, <2>2, Zenon
<1> QED
  BY <1>7, Zenon DEF Feeds

\* ... and when the reader copies what a read returns.
LEMMA FeedsCopy ==
    ASSUME PipeTyped, PipesAssumption, NEW w \in Procs, Feeds(w), UNCHANGED <<buf, left>>,
           out' = out \o Got(1), data'[1] = Rest(1)
    PROVE  Feeds(w)'
<1> DEFINE y == buf[w] \o left
<1>1. 1 \in 1..2
  OBVIOUS
<1>2. buf[w] \in Seq(Nat) /\ left \in Seq(Nat) /\ out \in Seq(Nat)
  BY Zenon DEF PipeTyped
<1>3. y \in Seq(Nat)
  BY <1>2, Joins, Zenon
<1>4. Got(1) \in Seq(Nat) /\ Rest(1) \in Seq(Nat) /\ Got(1) \o Rest(1) = data[1]
  BY <1>1, Takes, Zenon
<1> HIDE DEF y
<1>5. Rest(1) \o y \in Seq(Nat)
  BY <1>3, <1>4, Joins, Zenon
<1>6. (Got(1) \o Rest(1)) \o y = Got(1) \o (Rest(1) \o y)
  BY <1>3, <1>4, Regroup, Zenon
<1>7. (out \o Got(1)) \o (Rest(1) \o y) = out \o (Got(1) \o (Rest(1) \o y))
  BY <1>2, <1>4, <1>5, Regroup, Zenon
<1>8. out \o (data[1] \o y) = out' \o (data'[1] \o y)
  BY <1>4, <1>6, <1>7, Zenon
<1> QED
  BY <1>8, Zenon DEF Feeds, y

\* So far it is the beginning, and at the end all, of the input.
LEMMA FeedsBegin ==
    ASSUME PipeTyped, NEW w \in Procs, Feeds(w)
    PROVE  /\ Len(out) <= Len(Input) /\ out = SubSeq(Input, 1, Len(out))
           /\ data[1] = << >> /\ buf[w] = << >> /\ left = << >> => out = Input
<1>1. 1 \in 1..2
  OBVIOUS
<1>2. buf[w] \in Seq(Nat) /\ left \in Seq(Nat) /\ out \in Seq(Nat) /\ data[1] \in Seq(Nat)
  BY <1>1, Zenon DEF PipeTyped
<1>3. buf[w] \o left \in Seq(Nat)
  BY <1>2, Joins, Zenon
<1>4. data[1] \o (buf[w] \o left) \in Seq(Nat)
  BY <1>2, <1>3, Joins, Zenon
<1>5. Len(out) <= Len(Input) /\ out = SubSeq(Input, 1, Len(out))
  BY <1>2, <1>4, Begins, Zenon DEF Feeds
<1>6. data[1] = << >> /\ buf[w] = << >> /\ left = << >> => out = Input
  BY <1>2, Nothing, Zenon DEF Feeds
<1> QED
  BY <1>5, <1>6, Zenon

-----------------------------------------------------------------------------
(* Pipes: simple_pipe.c *)

\* The parent is 0 and writes, the child is 1 and copies until end-of-file.
SimpleCtl ==
    /\ ip[0] \in 1..7 /\ ip[1] \in 0..4
    /\ \A r \in Procs : r # 0 /\ r # 1 => ip[r] = 0 /\ dead[r] = "no"
    /\ ip[1] = 0 <=> ip[0] = 1
    /\ ip[1] > 2 => ip[0] > 5
    /\ ip[0] = 7 => ip[1] = 4
    /\ dead[0] # "no" => ip[0] = 7
    /\ dead[1] # "no" => ip[1] = 4

SimpleEnds ==
    /\ ip[0] < 2 => 0 \in rd[1]
    /\ ip[0] < 6 => 0 \in wr[1]
    /\ ip[1] \in 1..3 => 1 \in rd[1]

SimpleFlow ==
    /\ Feeds(0)
    /\ ip[0] # 4 => buf[0] = << >>
    /\ ip[0] > 3 => left = << >>
    /\ ip[1] > 2 => data[1] = << >>

Simple == SimpleCtl /\ SimpleEnds /\ SimpleFlow

\* The calls of simple_pipe.c
LEMMA SimpleCalls ==
    ASSUME prog = "simple_pipe"
    PROVE  /\ Script(0) = <<Call("fork", 1), Call("closeR", 1), Call("stdin", 1),
                                 Call("write", 1), Call("closeW", 1), Call("wait", 0), Call("exit", 0)>>
           /\ Script(1) = <<Call("closeW", 1), Call("copy", 1), Call("closeR", 1), Call("exit", 0)>>
<1>1. \A p : Script(p) = simple_pipe(p)
  BY Zenon DEF Script
<1> QED
  BY <1>1 DEF simple_pipe, Parent, fork, closeR, closeW, exit

\* Their names and arguments
LEMMA SimpleParent ==
    ASSUME prog = "simple_pipe"
    PROVE  /\ ip[0] = 1 => Script(0)[ip[0]].op = "fork" /\ Arg(0) = 1
           /\ ip[0] = 2 => Script(0)[ip[0]].op = "closeR" /\ Arg(0) = 1
           /\ ip[0] = 3 => Script(0)[ip[0]].op = "stdin" /\ Arg(0) = 1
           /\ ip[0] = 4 => Script(0)[ip[0]].op = "write" /\ Arg(0) = 1
           /\ ip[0] = 5 => Script(0)[ip[0]].op = "closeW" /\ Arg(0) = 1
           /\ ip[0] = 6 => Script(0)[ip[0]].op = "wait"
           /\ ip[0] = 7 => Script(0)[ip[0]].op = "exit"
  BY SimpleCalls, CallFields, SMTT(30) DEF Arg

LEMMA SimpleChild ==
    ASSUME prog = "simple_pipe"
    PROVE  /\ ip[1] = 1 => Script(1)[ip[1]].op = "closeW" /\ Arg(1) = 1
           /\ ip[1] = 2 => Script(1)[ip[1]].op = "copy" /\ Arg(1) = 1
           /\ ip[1] = 3 => Script(1)[ip[1]].op = "closeR" /\ Arg(1) = 1
           /\ ip[1] = 4 => Script(1)[ip[1]].op = "exit"
  BY SimpleCalls, CallFields, SMTT(30) DEF Arg

\* A step of simple_pipe.c keeps the invariant.
LEMMA SimpleNext ==
    ASSUME PipesAssumption, prog = "simple_pipe", PipeTyped, Simple, NEW p \in Procs, process(p)
    PROVE  PipeTyped' /\ Simple'
<1>1. SimpleCtl /\ SimpleEnds /\ SimpleFlow
  BY Zenon DEF Simple
<1>2. 0 \in Procs /\ 1 \in Procs /\ 1 \in 1..2 /\ 1 \in Nat /\ 0 # 1
  BY Family
<1>3. ip[p] > 0 /\ dead[p] = "no"
  BY Performs, Zenon
<1>4. ASSUME p = 0, ip[0] = 1 PROVE PipeTyped' /\ Simple'
  <2>1. Fork(0) /\ Arg(0) = 1
    BY <1>4, SimpleParent, Performs, Zenon
  <2>2. /\ PipeTyped' /\ UNCHANGED <<buf, left, out, data, dead>>
        /\ ip'[0] = ip[0] + 1 /\ ip'[1] = 1 /\ \A r \in Procs : r # 0 /\ r # 1 => ip'[r] = ip[r]
        /\ rd[1] \subseteq rd'[1] /\ (0 \in rd[1] => 1 \in rd'[1]) /\ wr[1] \subseteq wr'[1]
    BY <1>2, <2>1, Forks, Zenon
  <2>3. SimpleCtl'
    BY <1>1, <1>4, <2>2, SMTT(30) DEF SimpleCtl
  <2>4. SimpleEnds'
    BY <1>1, <1>4, <2>2, SMTT(30) DEF SimpleEnds
  <2>5. SimpleFlow'
    <3>1. Feeds(0)'
      BY <1>1, <2>2, FeedsStill, Zenon DEF SimpleFlow
    <3> QED
      BY <1>1, <1>4, <2>2, <3>1, SMTT(30) DEF SimpleFlow
  <2> QED
    BY <2>2, <2>3, <2>4, <2>5, Zenon DEF Simple
<1>5. ASSUME p = 0, ip[0] = 2 \/ ip[0] = 5 PROVE PipeTyped' /\ Simple'
  <2>1. Arg(0) = 1 /\ (CloseR(0) \/ CloseW(0)) /\ (ip[0] = 2 => CloseR(0))
    BY <1>5, SimpleParent, Performs, Zenon
  <2>2. /\ PipeTyped' /\ UNCHANGED <<buf, left, out, data, dead>> /\ GoesTo(0, ip[0] + 1) /\ OnlyLoses(0)
        /\ (ip[0] = 2 => wr' = wr)
    BY <1>2, <2>1, Closes, Zenon
  <2>3. SimpleCtl'
    BY <1>1, <1>2, <1>5, <2>2, SMTT(30) DEF SimpleCtl, GoesTo
  <2>4. SimpleEnds'
    BY <1>1, <1>2, <1>5, <2>2, SMTT(30) DEF SimpleEnds, GoesTo, OnlyLoses
  <2>5. SimpleFlow'
    <3>1. Feeds(0)'
      BY <1>1, <2>2, FeedsStill, Zenon DEF SimpleFlow
    <3> QED
      BY <1>1, <1>2, <1>5, <2>2, <3>1, SMTT(30) DEF SimpleFlow, SimpleCtl, GoesTo
  <2> QED
    BY <2>2, <2>3, <2>4, <2>5, Zenon DEF Simple
<1>6. ASSUME p = 0, ip[0] = 3 PROVE PipeTyped' /\ Simple'
  <2>1. Stdin(0) /\ Arg(0) \in Nat /\ Script(0)[ip[0]].op = "stdin"
    BY <1>2, <1>6, SimpleParent, Performs, Zenon
  <2>2. /\ PipeTyped' /\ UNCHANGED <<out, data, rd, wr, dead>>
        /\ buf'[0] = left /\ left' = << >> /\ GoesTo(0, ip[0] + 1)
    BY <1>2, <2>1, Gets, Zenon
  <2>3. SimpleCtl'
    BY <1>1, <1>2, <1>6, <2>2, SMTT(30) DEF SimpleCtl, GoesTo
  <2>4. SimpleEnds'
    BY <1>1, <1>2, <1>6, <2>2, SMTT(30) DEF SimpleEnds, GoesTo
  <2>5. SimpleFlow'
    <3>1. Feeds(0) /\ buf[0] = << >>
      BY <1>1, <1>6 DEF SimpleFlow
    <3>2. Feeds(0)'
      BY <1>2, <2>2, <3>1, FeedsInput, Zenon
    <3> QED
      BY <1>1, <1>2, <1>6, <2>2, <3>2, SMTT(30) DEF SimpleFlow, SimpleCtl, GoesTo
  <2> QED
    BY <2>2, <2>3, <2>4, <2>5, Zenon DEF Simple
<1>7. ASSUME p = 0, ip[0] = 4 PROVE PipeTyped' /\ Simple'
  <2>1. Write(0) /\ Arg(0) = 1
    BY <1>7, SimpleParent, Performs, Zenon
  <2>2. 1 \in rd[1]
    BY <1>1, <1>7, SMTT(30) DEF SimpleCtl, SimpleEnds
  <2>3. PICK m \in 0..Len(buf[0]) :
                /\ data'[1] = data[1] \o SubSeq(buf[0], 1, m)
                /\ buf'[0] = SubSeq(buf[0], m + 1, Len(buf[0]))
                /\ GoesTo(0, IF m = Len(buf[0]) THEN ip[0] + 1 ELSE ip[0])
                /\ m = Len(buf[0]) => buf'[0] = << >>
    BY <1>2, <2>1, <2>2, Writes, Zenon
  <2>4. PipeTyped' /\ UNCHANGED <<left, out, rd, wr, dead>>
    BY <1>2, <2>1, <2>2, Writes, Zenon
  <2>5. ip'[1] = ip[1] /\ (ip'[0] = 4 \/ ip'[0] = 5) /\ \A r \in Procs : r # 0 => ip'[r] = ip[r]
    <3>1. ip'[0] = (IF m = Len(buf[0]) THEN ip[0] + 1 ELSE ip[0]) /\ \A r \in Procs : r # 0 => ip'[r] = ip[r]
      BY <2>3, Zenon DEF GoesTo
    <3>2. ip'[0] = 4 \/ ip'[0] = 5
      BY <1>7, <3>1
    <3> QED
      BY <1>2, <3>1, <3>2, Zenon
  <2>6. ip'[0] # 4 => buf'[0] = << >>
    BY <1>7, <2>3, Zenon DEF GoesTo
  <2>7. SimpleCtl'
    BY <1>1, <1>2, <1>7, <2>4, <2>5, SMTT(30) DEF SimpleCtl
  <2>8. SimpleEnds'
    BY <1>1, <1>7, <2>4, <2>5, SMTT(30) DEF SimpleEnds
  <2>9. SimpleFlow'
    <3>1. Feeds(0)'
      BY <1>1, <1>2, <2>3, <2>4, FeedsWrite, Zenon DEF SimpleFlow
    <3>2. ~(ip'[1] > 2)
      BY <1>1, <1>7, <2>5, SMTT(30) DEF SimpleCtl
    <3>3. left' = << >>
      BY <1>1, <1>7, <2>4 DEF SimpleFlow
    <3> QED
      BY <2>6, <3>1, <3>2, <3>3, Zenon DEF SimpleFlow
  <2> QED
    BY <2>4, <2>7, <2>8, <2>9, Zenon DEF Simple
<1>8. ASSUME p = 0, ip[0] = 6 PROVE PipeTyped' /\ Simple'
  <2>1. Wait(0)
    BY <1>8, SimpleParent, Performs, Zenon
  <2>2. /\ PipeTyped' /\ UNCHANGED <<buf, left, out, data, rd, wr>> /\ GoesTo(0, ip[0] + 1)
        /\ \E c \in Procs : /\ dead[c] = "zombie" /\ dead'[c] = "reaped"
                                  /\ \A r \in Procs : r # c => dead'[r] = dead[r]
    BY <1>2, <2>1, Waits, Zenon
  <2>3. PICK c \in Procs : /\ dead[c] = "zombie" /\ dead'[c] = "reaped"
                                /\ \A r \in Procs : r # c => dead'[r] = dead[r]
    BY <2>2, Zenon
  <2>4. c = 1 /\ ip[1] = 4
    BY <1>1, <1>3, <1>8, <2>3, SMTT(30) DEF SimpleCtl
  <2>5. SimpleCtl'
    BY <1>1, <1>2, <1>3, <1>8, <2>2, <2>3, <2>4, SMTT(30) DEF SimpleCtl, GoesTo
  <2>6. SimpleEnds'
    BY <1>1, <1>2, <1>8, <2>2, SMTT(30) DEF SimpleEnds, GoesTo
  <2>7. SimpleFlow'
    <3>1. Feeds(0)'
      BY <1>1, <2>2, FeedsStill, Zenon DEF SimpleFlow
    <3> QED
      BY <1>1, <1>2, <1>8, <2>2, <3>1, SMTT(30) DEF SimpleFlow, GoesTo
  <2> QED
    BY <2>2, <2>5, <2>6, <2>7, Zenon DEF Simple
<1>9. ASSUME p = 0 \/ p = 1, p = 0 => ip[0] = 7, p = 1 => ip[1] = 4 PROVE PipeTyped' /\ Simple'
  <2>1. Exit(p)
    BY <1>9, SimpleParent, SimpleChild, Performs, Zenon
  <2>2. /\ PipeTyped' /\ UNCHANGED <<ip, buf, left, out, data>> /\ OnlyLoses(p)
        /\ \A r \in Procs : r # p => dead'[r] = dead[r]
    BY <2>1, Exits, Zenon
  <2>3. SimpleCtl'
    BY <1>1, <1>2, <1>9, <2>2, SMTT(30) DEF SimpleCtl
  <2>4. SimpleEnds'
    BY <1>1, <1>2, <1>9, <2>2, SMTT(30) DEF SimpleEnds, SimpleCtl, OnlyLoses
  <2>5. SimpleFlow'
    BY <1>1, <2>2, FeedsStill, Zenon DEF SimpleFlow
  <2> QED
    BY <2>2, <2>3, <2>4, <2>5, Zenon DEF Simple
<1>10. ASSUME p = 1, ip[1] = 1 \/ ip[1] = 3 PROVE PipeTyped' /\ Simple'
  <2>1. Arg(1) = 1 /\ (CloseR(1) \/ CloseW(1)) /\ (ip[1] = 1 => CloseW(1))
    BY <1>10, SimpleChild, Performs, Zenon
  <2>2. /\ PipeTyped' /\ UNCHANGED <<buf, left, out, data, dead>> /\ GoesTo(1, ip[1] + 1) /\ OnlyLoses(1)
        /\ (ip[1] = 1 => rd' = rd)
    BY <1>2, <2>1, Closes, Zenon
  <2>3. SimpleCtl'
    BY <1>1, <1>2, <1>10, <2>2, SMTT(30) DEF SimpleCtl, GoesTo
  <2>4. SimpleEnds'
    BY <1>1, <1>2, <1>10, <2>2, SMTT(30) DEF SimpleEnds, GoesTo, OnlyLoses
  <2>5. SimpleFlow'
    <3>1. Feeds(0)'
      BY <1>1, <2>2, FeedsStill, Zenon DEF SimpleFlow
    <3> QED
      BY <1>1, <1>2, <1>10, <2>2, <3>1, SMTT(30) DEF SimpleFlow, GoesTo
  <2> QED
    BY <2>2, <2>3, <2>4, <2>5, Zenon DEF Simple
<1>11. ASSUME p = 1, ip[1] = 2 PROVE PipeTyped' /\ Simple'
  <2>1. Copy(1) /\ Arg(1) = 1
    BY <1>11, SimpleChild, Performs, Zenon
  <2>2. /\ PipeTyped' /\ UNCHANGED <<buf, left, rd, wr, dead>>
        /\ data[1] # << >> \/ wr[1] = {}
        /\ out' = out \o Got(1) /\ data'[1] = Rest(1)
        /\ GoesTo(1, IF data[1] = << >> THEN ip[1] + 1 ELSE ip[1])
    BY <1>2, <2>1, Copies, Zenon
  <2>3. ip'[0] = ip[0] /\ (ip'[1] = 2 \/ ip'[1] = 3) /\ \A r \in Procs : r # 1 => ip'[r] = ip[r]
    BY <1>2, <1>11, <2>2 DEF GoesTo
  <2>4. ip'[1] = 3 => wr[1] = {} /\ data'[1] = << >>
    <3>1. ip'[1] = 3 => data[1] = << >>
      BY <1>11, <2>2, SMTT(30) DEF GoesTo
    <3>2. data[1] = << >> => Rest(1) = << >>
      <4>1. data[1] = << >> => Len(data[1]) <= BUF_SIZE
        BY SMTT(30) DEF PipesAssumption
      <4> QED
        BY <1>2, <4>1, Takes, Zenon
    <3> QED
      BY <2>2, <3>1, <3>2, Zenon
  <2>5. ip'[1] = 3 => ip[0] > 5
    BY <1>1, <2>4, SMTT(30) DEF SimpleEnds, SimpleCtl
  <2>6. SimpleCtl'
    BY <1>1, <1>2, <1>11, <2>2, <2>3, <2>5, SMTT(30) DEF SimpleCtl
  <2>7. SimpleEnds'
    BY <1>1, <1>2, <1>11, <2>2, <2>3, SMTT(30) DEF SimpleEnds
  <2>8. SimpleFlow'
    <3>1. Feeds(0)'
      BY <1>1, <1>2, <2>2, FeedsCopy, Zenon DEF SimpleFlow
    <3>2. ip'[1] > 2 => ip'[1] = 3
      BY <2>3
    <3> QED
      BY <1>1, <2>2, <2>3, <2>4, <3>1, <3>2, Zenon DEF SimpleFlow
  <2> QED
    BY <2>2, <2>6, <2>7, <2>8, Zenon DEF Simple
<1>12. p = 0 \/ p = 1
  BY <1>1, <1>3, SMTT(30) DEF SimpleCtl
<1>13. /\ ip[0] = 1 \/ ip[0] = 2 \/ ip[0] = 3 \/ ip[0] = 4 \/ ip[0] = 5 \/ ip[0] = 6 \/ ip[0] = 7
       /\ ip[1] > 0 => ip[1] = 1 \/ ip[1] = 2 \/ ip[1] = 3 \/ ip[1] = 4
  BY <1>1, SMTT(30) DEF SimpleCtl
<1> QED
  BY <1>2, <1>3, <1>4, <1>5, <1>6, <1>7, <1>8, <1>9, <1>10, <1>11, <1>12, <1>13, Zenon

-----------------------------------------------------------------------------
(* Pipes: pipe_ls_wc.c *)

\* The parent is 0; the children are 1, which writes, and 2, which copies.
LsCtl ==
    /\ ip[0] \in 1..7 /\ ip[1] \in 0..4 /\ ip[2] \in 0..3
    /\ \A r \in Procs : r # 0 /\ r # 1 /\ r # 2 => ip[r] = 0 /\ dead[r] = "no"
    /\ ip[1] = 0 <=> ip[0] = 1
    /\ ip[2] = 0 <=> ip[0] < 3
    /\ ip[2] = 3 => ip[1] = 4
    /\ dead[0] # "no" => ip[0] = 7
    /\ dead[1] # "no" => ip[1] = 4
    /\ dead[2] # "no" => ip[2] = 3
    /\ ip[0] = 6 => dead[1] = "reaped" \/ dead[2] = "reaped"
    /\ ip[0] = 7 => dead[2] = "reaped"

LsEnds ==
    /\ ip[0] < 4 => 0 \in rd[1]
    /\ ip[0] < 5 => 0 \in wr[1]
    /\ ip[1] > 0 /\ dead[1] = "no" => 1 \in wr[1]
    /\ ip[2] > 0 /\ dead[2] = "no" => 2 \in rd[1]

LsFlow ==
    /\ Feeds(1)
    /\ ip[1] # 3 => buf[1] = << >>
    /\ ip[1] > 2 => left = << >>
    /\ ip[2] = 3 => data[1] = << >>

LsWc == LsCtl /\ LsEnds /\ LsFlow

\* The calls of pipe_ls_wc.c
LEMMA LsCalls ==
    ASSUME prog = "pipe_ls_wc"
    PROVE  /\ Script(0) = <<Call("fork", 1), Call("fork", 2), Call("closeR", 1), Call("closeW", 1),
                                 Call("wait", 0), Call("wait", 0), Call("exit", 0)>>
           /\ Script(1) = <<Call("closeR", 1), Call("stdin", 1), Call("write", 1), Call("exit", 0)>>
           /\ Script(2) = <<Call("closeW", 1), Call("copy", 1), Call("exit", 0)>>
<1>1. \A p : Script(p) = pipe_ls_wc(p)
  BY Zenon DEF Script
<1> QED
  BY <1>1 DEF pipe_ls_wc, Parent, fork, closeR, closeW, exit

\* Their names and arguments
LEMMA LsParent ==
    ASSUME prog = "pipe_ls_wc"
    PROVE  /\ ip[0] = 1 => Script(0)[ip[0]].op = "fork" /\ Arg(0) = 1
           /\ ip[0] = 2 => Script(0)[ip[0]].op = "fork" /\ Arg(0) = 2
           /\ ip[0] = 3 => Script(0)[ip[0]].op = "closeR" /\ Arg(0) = 1
           /\ ip[0] = 4 => Script(0)[ip[0]].op = "closeW" /\ Arg(0) = 1
           /\ ip[0] = 5 => Script(0)[ip[0]].op = "wait"
           /\ ip[0] = 6 => Script(0)[ip[0]].op = "wait"
           /\ ip[0] = 7 => Script(0)[ip[0]].op = "exit"
  BY LsCalls, CallFields, SMTT(30) DEF Arg

LEMMA LsChild ==
    ASSUME prog = "pipe_ls_wc"
    PROVE  /\ ip[1] = 1 => Script(1)[ip[1]].op = "closeR" /\ Arg(1) = 1
           /\ ip[1] = 2 => Script(1)[ip[1]].op = "stdin" /\ Arg(1) = 1
           /\ ip[1] = 3 => Script(1)[ip[1]].op = "write" /\ Arg(1) = 1
           /\ ip[1] = 4 => Script(1)[ip[1]].op = "exit"
           /\ ip[2] = 1 => Script(2)[ip[2]].op = "closeW" /\ Arg(2) = 1
           /\ ip[2] = 2 => Script(2)[ip[2]].op = "copy" /\ Arg(2) = 1
           /\ ip[2] = 3 => Script(2)[ip[2]].op = "exit"
  BY LsCalls, CallFields, SMTT(30) DEF Arg

\* A step of pipe_ls_wc.c keeps the invariant.
LEMMA LsNext ==
    ASSUME PipesAssumption, prog = "pipe_ls_wc", PipeTyped, LsWc, NEW p \in Procs, process(p)
    PROVE  PipeTyped' /\ LsWc'
<1>1. LsCtl /\ LsEnds /\ LsFlow
  BY Zenon DEF LsWc
<1>2. 0 \in Procs /\ 1 \in Procs /\ 2 \in Procs /\ 1 \in 1..2 /\ 1 \in Nat /\ 0 # 1 /\ 0 # 2 /\ 1 # 2
  BY Family
<1>3. ip[p] > 0 /\ dead[p] = "no"
  BY Performs, Zenon
<1>4. ASSUME UNCHANGED <<buf, left, out, data>>, ip'[1] > 2 => ip[1] > 2, ip[1] = 3 => ip'[1] = 3, ip'[2] = 3 => ip[2] = 3
      PROVE  LsFlow'
  <2>1. Feeds(1)'
    BY <1>1, <1>4, FeedsStill, Zenon DEF LsFlow
  <2> QED
    BY <1>1, <1>4, <2>1, Zenon DEF LsFlow
<1>5. ASSUME p = 0, NEW c \in 1..2, ip[0] = c PROVE PipeTyped' /\ LsWc'
  <2>1. Fork(0) /\ Arg(0) = c /\ c \in Procs /\ c # 0 /\ (c = 1 \/ c = 2)
    <3>1. c = 1 \/ c = 2
      BY <1>5
    <3> QED
      BY <1>2, <1>5, <3>1, LsParent, Performs, Zenon
  <2>2. /\ PipeTyped' /\ UNCHANGED <<buf, left, out, data, dead>>
        /\ ip'[0] = ip[0] + 1 /\ ip'[c] = 1 /\ \A r \in Procs : r # 0 /\ r # c => ip'[r] = ip[r]
        /\ rd[1] \subseteq rd'[1] /\ (0 \in rd[1] => c \in rd'[1])
        /\ wr[1] \subseteq wr'[1] /\ (0 \in wr[1] => c \in wr'[1])
    BY <1>2, <2>1, Forks, Zenon
  <2>3. LsCtl'
    BY <1>1, <1>2, <1>5, <2>1, <2>2, SMTT(30) DEF LsCtl
  <2>4. LsEnds'
    BY <1>1, <1>2, <1>5, <2>1, <2>2, SMTT(30) DEF LsEnds
  <2>5. LsFlow'
    <3>1. (ip'[1] > 2 => ip[1] > 2) /\ (ip[1] = 3 => ip'[1] = 3) /\ (ip'[2] = 3 => ip[2] = 3)
      BY <1>1, <1>2, <1>5, <2>1, <2>2, SMTT(30) DEF LsCtl
    <3> QED
      BY <1>4, <2>2, <3>1, Zenon
  <2> QED
    BY <2>2, <2>3, <2>4, <2>5, Zenon DEF LsWc
<1>6. ASSUME p = 0, ip[0] = 3 \/ ip[0] = 4 PROVE PipeTyped' /\ LsWc'
  <2>1. Arg(0) = 1 /\ (CloseR(0) \/ CloseW(0)) /\ (ip[0] = 3 => CloseR(0))
    BY <1>6, LsParent, Performs, Zenon
  <2>2. /\ PipeTyped' /\ UNCHANGED <<buf, left, out, data, dead>> /\ GoesTo(0, ip[0] + 1) /\ OnlyLoses(0)
        /\ (ip[0] = 3 => wr' = wr)
    BY <1>2, <2>1, Closes, Zenon
  <2>3. ip'[0] = ip[0] + 1 /\ ip'[1] = ip[1] /\ ip'[2] = ip[2] /\ \A r \in Procs : r # 0 => ip'[r] = ip[r]
    BY <1>2, <2>2, Zenon DEF GoesTo
  <2>4. LsCtl'
    BY <1>1, <1>2, <1>6, <2>2, <2>3, SMTT(30) DEF LsCtl
  <2>5. LsEnds'
    BY <1>1, <1>2, <1>6, <2>2, <2>3, SMTT(30) DEF LsEnds, OnlyLoses
  <2>6. LsFlow'
    BY <1>4, <2>2, <2>3, Zenon
  <2> QED
    BY <2>2, <2>4, <2>5, <2>6, Zenon DEF LsWc
<1>7. ASSUME p = 0, ip[0] = 5 \/ ip[0] = 6 PROVE PipeTyped' /\ LsWc'
  <2>1. Wait(0)
    BY <1>7, LsParent, Performs, Zenon
  <2>2. /\ PipeTyped' /\ UNCHANGED <<buf, left, out, data, rd, wr>> /\ GoesTo(0, ip[0] + 1)
    BY <1>2, <2>1, Waits, Zenon
  <2>3. PICK c \in Procs : /\ dead[c] = "zombie" /\ dead'[c] = "reaped"
                                /\ \A r \in Procs : r # c => dead'[r] = dead[r]
    BY <1>2, <2>1, Waits, Zenon
  <2>4. ip'[0] = ip[0] + 1 /\ ip'[1] = ip[1] /\ ip'[2] = ip[2] /\ \A r \in Procs : r # 0 => ip'[r] = ip[r]
    BY <1>2, <2>2, Zenon DEF GoesTo
  <2>5. c = 1 \/ c = 2
    BY <1>1, <1>3, <1>7, <2>3, SMTT(30) DEF LsCtl
  <2>6. LsCtl'
    BY <1>1, <1>2, <1>3, <1>7, <2>3, <2>4, <2>5, SMTT(30) DEF LsCtl
  <2>7. LsEnds'
    BY <1>1, <1>2, <1>7, <2>2, <2>3, <2>4, <2>5, SMTT(30) DEF LsEnds
  <2>8. LsFlow'
    BY <1>4, <2>2, <2>4, Zenon
  <2> QED
    BY <2>2, <2>6, <2>7, <2>8, Zenon DEF LsWc
<1>8. ASSUME p = 0 \/ p = 1 \/ p = 2, p = 0 => ip[0] = 7, p = 1 => ip[1] = 4, p = 2 => ip[2] = 3 PROVE PipeTyped' /\ LsWc'
  <2>1. Exit(p)
    BY <1>8, LsParent, LsChild, Performs, Zenon
  <2>2. /\ PipeTyped' /\ UNCHANGED <<ip, buf, left, out, data>> /\ OnlyLoses(p)
        /\ dead'[p] = "zombie" /\ \A r \in Procs : r # p => dead'[r] = dead[r]
    BY <2>1, Exits, Zenon
  <2>3. LsCtl'
    BY <1>1, <1>2, <1>3, <1>8, <2>2, SMTT(30) DEF LsCtl
  <2>4. LsEnds'
    BY <1>1, <1>2, <1>8, <2>2, SMTT(30) DEF LsEnds, OnlyLoses
  <2>5. LsFlow'
    BY <1>1, <2>2, FeedsStill, Zenon DEF LsFlow
  <2> QED
    BY <2>2, <2>3, <2>4, <2>5, Zenon DEF LsWc
<1>9. ASSUME p = 1 \/ p = 2, ip[p] = 1 PROVE PipeTyped' /\ LsWc'
  <2>1. Arg(p) = 1 /\ (CloseR(p) \/ CloseW(p)) /\ (p = 1 => CloseR(p)) /\ (p = 2 => CloseW(p))
    BY <1>9, LsChild, Performs, Zenon
  <2>2. /\ PipeTyped' /\ UNCHANGED <<buf, left, out, data, dead>> /\ GoesTo(p, ip[p] + 1) /\ OnlyLoses(p)
        /\ (p = 1 => wr' = wr) /\ (p = 2 => rd' = rd)
    BY <1>2, <2>1, Closes, Zenon
  <2>3. ip'[p] = 2 /\ \A r \in Procs : r # p => ip'[r] = ip[r]
    BY <1>9, <2>2 DEF GoesTo
  <2>4. LsCtl'
    BY <1>1, <1>2, <1>9, <2>2, <2>3, SMTT(30) DEF LsCtl
  <2>5. LsEnds'
    BY <1>1, <1>2, <1>9, <2>2, <2>3, SMTT(30) DEF LsEnds, OnlyLoses
  <2>6. LsFlow'
    <3>1. (ip'[1] > 2 => ip[1] > 2) /\ (ip[1] = 3 => ip'[1] = 3) /\ (ip'[2] = 3 => ip[2] = 3)
      BY <1>2, <1>9, <2>3
    <3> QED
      BY <1>4, <2>2, <3>1, Zenon
  <2> QED
    BY <2>2, <2>4, <2>5, <2>6, Zenon DEF LsWc
<1>10. ASSUME p = 1, ip[1] = 2 PROVE PipeTyped' /\ LsWc'
  <2>1. Stdin(1) /\ Arg(1) \in Nat /\ Script(1)[ip[1]].op = "stdin"
    BY <1>2, <1>10, LsChild, Performs, Zenon
  <2>2. /\ PipeTyped' /\ UNCHANGED <<out, data, rd, wr, dead>>
        /\ buf'[1] = left /\ left' = << >> /\ GoesTo(1, ip[1] + 1)
    BY <1>2, <2>1, Gets, Zenon
  <2>3. ip'[1] = 3 /\ ip'[0] = ip[0] /\ ip'[2] = ip[2] /\ \A r \in Procs : r # 1 => ip'[r] = ip[r]
    BY <1>2, <1>10, <2>2 DEF GoesTo
  <2>4. LsCtl'
    BY <1>1, <1>2, <1>10, <2>2, <2>3, SMTT(30) DEF LsCtl
  <2>5. LsEnds'
    BY <1>1, <1>2, <1>10, <2>2, <2>3, SMTT(30) DEF LsEnds
  <2>6. LsFlow'
    <3>1. Feeds(1) /\ buf[1] = << >> /\ ip[2] # 3
      BY <1>1, <1>10 DEF LsFlow, LsCtl
    <3>2. Feeds(1)'
      BY <1>2, <2>2, <3>1, FeedsInput, Zenon
    <3> QED
      BY <2>2, <2>3, <3>1, <3>2, Zenon DEF LsFlow
  <2> QED
    BY <2>2, <2>4, <2>5, <2>6, Zenon DEF LsWc
<1>11. ASSUME p = 1, ip[1] = 3 PROVE PipeTyped' /\ LsWc'
  <2>1. Write(1) /\ Arg(1) = 1
    BY <1>11, LsChild, Performs, Zenon
  <2>2. rd[1] # {}
    BY <1>1, <1>11, SMTT(30) DEF LsCtl, LsEnds
  <2>3. PICK m \in 0..Len(buf[1]) :
                /\ data'[1] = data[1] \o SubSeq(buf[1], 1, m)
                /\ buf'[1] = SubSeq(buf[1], m + 1, Len(buf[1]))
                /\ GoesTo(1, IF m = Len(buf[1]) THEN ip[1] + 1 ELSE ip[1])
                /\ m = Len(buf[1]) => buf'[1] = << >>
    BY <1>2, <2>1, <2>2, Writes, Zenon
  <2>4. PipeTyped' /\ UNCHANGED <<left, out, rd, wr, dead>>
    BY <1>2, <2>1, <2>2, Writes, Zenon
  <2>5. (ip'[1] = 3 \/ ip'[1] = 4) /\ ip'[0] = ip[0] /\ ip'[2] = ip[2] /\ \A r \in Procs : r # 1 => ip'[r] = ip[r]
    <3>1. ip'[1] = (IF m = Len(buf[1]) THEN ip[1] + 1 ELSE ip[1]) /\ \A r \in Procs : r # 1 => ip'[r] = ip[r]
      BY <2>3, Zenon DEF GoesTo
    <3>2. ip'[1] = 3 \/ ip'[1] = 4
      BY <1>11, <3>1
    <3> QED
      BY <1>2, <3>1, <3>2, Zenon
  <2>6. ip'[1] # 3 => buf'[1] = << >>
    BY <1>11, <2>3, Zenon DEF GoesTo
  <2>7. LsCtl'
    BY <1>1, <1>2, <1>3, <1>11, <2>4, <2>5, SMTT(30) DEF LsCtl
  <2>8. LsEnds'
    BY <1>1, <1>11, <2>4, <2>5, SMTT(30) DEF LsEnds
  <2>9. LsFlow'
    <3>1. Feeds(1)'
      BY <1>1, <1>2, <2>3, <2>4, FeedsWrite, Zenon DEF LsFlow
    <3>2. ip'[2] # 3
      BY <1>1, <1>11, <2>5, SMTT(30) DEF LsCtl
    <3>3. left' = << >>
      BY <1>1, <1>11, <2>4, SMTT(30) DEF LsFlow
    <3> QED
      BY <2>6, <3>1, <3>2, <3>3, Zenon DEF LsFlow
  <2> QED
    BY <2>4, <2>7, <2>8, <2>9, Zenon DEF LsWc
<1>12. ASSUME p = 2, ip[2] = 2 PROVE PipeTyped' /\ LsWc'
  <2>1. Copy(2) /\ Arg(2) = 1
    BY <1>12, LsChild, Performs, Zenon
  <2>2. /\ PipeTyped' /\ UNCHANGED <<buf, left, rd, wr, dead>>
        /\ data[1] # << >> \/ wr[1] = {}
        /\ out' = out \o Got(1) /\ data'[1] = Rest(1)
        /\ GoesTo(2, IF data[1] = << >> THEN ip[2] + 1 ELSE ip[2])
    BY <1>2, <2>1, Copies, Zenon
  <2>3. (ip'[2] = 2 \/ ip'[2] = 3) /\ ip'[0] = ip[0] /\ ip'[1] = ip[1] /\ \A r \in Procs : r # 2 => ip'[r] = ip[r]
    <3>1. ip[2] + 1 = 3
      BY <1>12
    <3> QED
      BY <1>2, <1>12, <2>2, <3>1, Zenon DEF GoesTo
  <2>4. ip'[2] = 3 => wr[1] = {} /\ data'[1] = << >>
    <3>1. ip'[2] = 3 => data[1] = << >>
      BY <1>12, <2>2, SMTT(30) DEF GoesTo
    <3>2. data[1] = << >> => Rest(1) = << >>
      <4>1. data[1] = << >> => Len(data[1]) <= BUF_SIZE
        BY SMTT(30) DEF PipesAssumption
      <4> QED
        BY <1>2, <4>1, Takes, Zenon
    <3> QED
      BY <2>2, <3>1, <3>2, Zenon
  <2>5. ip'[2] = 3 => ip[1] = 4
    BY <1>1, <1>12, <2>4, SMTT(30) DEF LsEnds, LsCtl
  <2>6. LsCtl'
    BY <1>1, <1>2, <1>3, <1>12, <2>2, <2>3, <2>5, SMTT(30) DEF LsCtl
  <2>7. LsEnds'
    BY <1>1, <1>2, <1>12, <2>2, <2>3, SMTT(30) DEF LsEnds
  <2>8. LsFlow'
    <3>1. Feeds(1)'
      BY <1>1, <1>2, <2>2, FeedsCopy, Zenon DEF LsFlow
    <3> QED
      BY <1>1, <2>2, <2>3, <2>4, <3>1, Zenon DEF LsFlow
  <2> QED
    BY <2>2, <2>6, <2>7, <2>8, Zenon DEF LsWc
<1>13. p = 0 \/ p = 1 \/ p = 2
  BY <1>1, <1>3, SMTT(30) DEF LsCtl
<1>14. /\ ip[0] \in 1..2 \/ ip[0] = 3 \/ ip[0] = 4 \/ ip[0] = 5 \/ ip[0] = 6 \/ ip[0] = 7
       /\ ip[1] > 0 => ip[1] = 1 \/ ip[1] = 2 \/ ip[1] = 3 \/ ip[1] = 4
       /\ ip[2] > 0 => ip[2] = 1 \/ ip[2] = 2 \/ ip[2] = 3
  BY <1>1, SMTT(30) DEF LsCtl
<1>15. CASE p = 0
  BY <1>2, <1>5, <1>6, <1>7, <1>8, <1>14, <1>15, Zenon
<1>16. CASE p # 0
  BY <1>2, <1>3, <1>8, <1>9, <1>10, <1>11, <1>12, <1>13, <1>14, <1>16, Zenon
<1> QED
  BY <1>15, <1>16, Zenon

-----------------------------------------------------------------------------
(* Pipes: change_case.c *)

\* The parent is 0 and sends its lines through pipe 1; the child is 1 and
\* answers through pipe 2.
CaseCtl ==
    /\ ip[0] \in 1..9 /\ ip[1] \in 0..6
    /\ \A r \in Procs : r # 0 /\ r # 1 => ip[r] = 0 /\ dead[r] = "no"
    /\ ip[1] = 0 <=> ip[0] = 1
    /\ ip[1] = 4 => ip[0] = 6
    /\ ip[1] = 6 => dead[0] # "no"
    /\ dead[0] # "no" => ip[0] = 9
    /\ dead[1] # "no" => ip[1] = 6

CaseEnds ==
    /\ dead[0] = "no" => 0 \in wr[1] /\ 0 \in rd[2]
    /\ ip[0] = 1 => 0 \in rd[1] /\ 0 \in wr[2]
    /\ ip[1] \in 1..5 => 1 \in rd[1] /\ 1 \in wr[2]

\* One line x at a time is on its way, in one of six places.
Through(x) == Upper(Input) = out \o (x \o Upper(left))
Line(s) == s # << >> /\ Len(s) <= BUF_SIZE

Idle      == ip[0] \notin 5..7 /\ data[1] = << >> /\ data[2] = << >> /\ Through(<< >>)
Ready     == ip[0] = 5 /\ Line(buf[0]) /\ data[1] = << >> /\ data[2] = << >> /\ Through(Upper(buf[0]))
Sent      == ip[0] = 6 /\ ip[1] # 4 /\ Line(data[1]) /\ data[2] = << >> /\ Through(Upper(data[1]))
Converted == ip[0] = 6 /\ ip[1] = 4 /\ Line(buf[1]) /\ data[1] = << >> /\ data[2] = << >> /\ Through(buf[1])
Answered  == ip[0] = 6 /\ ip[1] # 4 /\ Line(data[2]) /\ data[1] = << >> /\ Through(data[2])
Received  == ip[0] = 7 /\ data[1] = << >> /\ data[2] = << >> /\ Through(buf[0])

CaseFlow ==
    /\ Idle \/ Ready \/ Sent \/ Converted \/ Answered \/ Received
    /\ ip[0] = 9 => left = << >>

Case == CaseCtl /\ CaseEnds /\ CaseFlow

\* The calls of change_case.c
LEMMA CaseCalls ==
    ASSUME prog = "change_case"
    PROVE  /\ Script(0) = <<Call("fork", 1), Call("closeR", 1), Call("closeW", 2), Call("getline", 9),
                                 Call("write", 1), Call("read", 2), Call("stdout", 0), Call("goto", 4),
                                 Call("exit", 0)>>
           /\ Script(1) = <<Call("closeW", 1), Call("closeR", 2), Call("readline", 6), Call("write", 2),
                                 Call("goto", 3), Call("exit", 0)>>
<1>1. \A p : Script(p) = change_case(p)
  BY Zenon DEF Script
<1> QED
  BY <1>1 DEF change_case, Parent, fork, closeR, closeW, exit

\* Their names and arguments
LEMMA CaseParent ==
    ASSUME prog = "change_case"
    PROVE  /\ ip[0] = 1 => Script(0)[ip[0]].op = "fork" /\ Arg(0) = 1
           /\ ip[0] = 2 => Script(0)[ip[0]].op = "closeR" /\ Arg(0) = 1
           /\ ip[0] = 3 => Script(0)[ip[0]].op = "closeW" /\ Arg(0) = 2
           /\ ip[0] = 4 => Script(0)[ip[0]].op = "getline" /\ Arg(0) = 9
           /\ ip[0] = 5 => Script(0)[ip[0]].op = "write" /\ Arg(0) = 1
           /\ ip[0] = 6 => Script(0)[ip[0]].op = "read" /\ Arg(0) = 2
           /\ ip[0] = 7 => Script(0)[ip[0]].op = "stdout"
           /\ ip[0] = 8 => Script(0)[ip[0]].op = "goto" /\ Arg(0) = 4
           /\ ip[0] = 9 => Script(0)[ip[0]].op = "exit"
  BY CaseCalls, CallFields, SMTT(30) DEF Arg

LEMMA CaseChild ==
    ASSUME prog = "change_case"
    PROVE  /\ ip[1] = 1 => Script(1)[ip[1]].op = "closeW" /\ Arg(1) = 1
           /\ ip[1] = 2 => Script(1)[ip[1]].op = "closeR" /\ Arg(1) = 2
           /\ ip[1] = 3 => Script(1)[ip[1]].op = "readline" /\ Arg(1) = 6
           /\ ip[1] = 4 => Script(1)[ip[1]].op = "write" /\ Arg(1) = 2
           /\ ip[1] = 5 => Script(1)[ip[1]].op = "goto" /\ Arg(1) = 3
           /\ ip[1] = 6 => Script(1)[ip[1]].op = "exit"
  BY CaseCalls, CallFields, SMTT(30) DEF Arg

\* A line leaves the input, ...
LEMMA ThroughInput ==
    ASSUME PipeTyped, PipeTyped', PipesAssumption, Through(<< >>), out' = out, NEW x \in Seq(Nat), left = x \o left'
    PROVE  Through(Upper(x))'
<1>1. left \in Seq(Nat) /\ left' \in Seq(Nat)
  BY Zenon DEF PipeTyped
<1>2. Upper(left) \in Seq(Nat)
  BY <1>1, Capitals, Zenon
<1>3. << >> \o Upper(left) = Upper(left)
  BY <1>2, Nothing, Zenon
<1>4. Upper(left) = Upper(x) \o Upper(left')
  BY <1>1, CapitalsJoin, Zenon
<1>5. Upper(Input) = out' \o (Upper(x) \o Upper(left'))
  BY <1>3, <1>4, Zenon DEF Through
<1> QED
  BY <1>5, Zenon DEF Through, Upper

\* ... and enters the output.
LEMMA ThroughOutput ==
    ASSUME PipeTyped, NEW x \in Seq(Nat), Through(x), out' = out \o x, left' = left
    PROVE  Through(<< >>)'
<1>1. left \in Seq(Nat) /\ out \in Seq(Nat)
  BY Zenon DEF PipeTyped
<1>2. Upper(left) \in Seq(Nat)
  BY <1>1, Capitals, Zenon
<1>3. << >> \o Upper(left) = Upper(left)
  BY <1>2, Nothing, Zenon
<1>4. (out \o x) \o Upper(left) = out \o (x \o Upper(left))
  BY <1>1, <1>2, Regroup, Zenon
<1>5. Upper(Input) = out' \o (<< >> \o Upper(left))
  BY <1>3, <1>4, Zenon DEF Through
<1>6. Upper(left') = Upper(left) /\ Upper(Input)' = Upper(Input)
  BY Zenon
<1> QED
  BY <1>5, <1>6, Zenon DEF Through

\* On its way, nothing else moves.
LEMMA ThroughStill ==
    ASSUME NEW x, Through(x), UNCHANGED <<out, left>>, NEW y, y = x
    PROVE  Upper(Input) = out' \o (y \o Upper(left'))
  BY Zenon DEF Through

\* A line in capitals is one.
LEMMA LineUpper ==
    ASSUME NEW s \in Seq(Nat), Line(s)
    PROVE  Line(Upper(s))
<1>1. Upper(s) \in Seq(Nat) /\ Len(Upper(s)) = Len(s)
  BY Capitals, Zenon
<1> QED
  BY <1>1, Nothing, Zenon DEF Line

\* A step of change_case.c keeps the invariant.
LEMMA CaseNext ==
    ASSUME PipesAssumption, prog = "change_case", PipeTyped, Case, NEW p \in Procs, process(p)
    PROVE  PipeTyped' /\ Case'
<1>1. CaseCtl /\ CaseEnds /\ CaseFlow
  BY Zenon DEF Case
<1>2. 0 \in Procs /\ 1 \in Procs /\ 1 \in 1..2 /\ 2 \in 1..2 /\ 0 # 1 /\ 1 # 2
  BY Family
<1>3. ip[p] > 0 /\ dead[p] = "no"
  BY Performs, Zenon
<1>4. ASSUME UNCHANGED <<buf, left, out, data>>, ip'[0] = ip[0], ip'[1] = 4 <=> ip[1] = 4
      PROVE  CaseFlow'
  <2>1. (Idle => Idle') /\ (Ready => Ready') /\ (Sent => Sent')
    BY <1>4, Zenon DEF Idle, Ready, Sent, Through
  <2>2. (Converted => Converted') /\ (Answered => Answered') /\ (Received => Received')
    BY <1>4, Zenon DEF Converted, Answered, Received, Through
  <2> QED
    BY <1>1, <1>4, <2>1, <2>2, Zenon DEF CaseFlow
<1>5. ASSUME ip[0] \notin 5..7, UNCHANGED <<left, out>>, data'[1] = data[1], data'[2] = data[2], ip'[0] \notin 5..7,
             ip'[0] = 9 => ip[0] = 9 \/ left = << >>
      PROVE  CaseFlow'
  <2>1. Idle
    BY <1>1, <1>5, SMTT(30) DEF CaseFlow, Ready, Sent, Converted, Answered, Received
  <2>2. Idle'
    BY <1>5, <2>1, Zenon DEF Idle, Through
  <2>3. ip'[0] = 9 => left' = << >>
    BY <1>1, <1>5, Zenon DEF CaseFlow
  <2> QED
    BY <2>2, <2>3, Zenon DEF CaseFlow
<1>6. ASSUME p = 0, ip[0] = 1 PROVE PipeTyped' /\ Case'
  <2>1. Fork(0) /\ Arg(0) = 1
    BY <1>6, CaseParent, Performs, Zenon
  <2>2. /\ PipeTyped' /\ UNCHANGED <<buf, left, out, data, dead>>
        /\ ip'[0] = ip[0] + 1 /\ ip'[1] = 1 /\ \A r \in Procs : r # 0 /\ r # 1 => ip'[r] = ip[r]
        /\ \A q \in 1..2 : /\ rd[q] \subseteq rd'[q] /\ (0 \in rd[q] => 1 \in rd'[q])
                           /\ wr[q] \subseteq wr'[q] /\ (0 \in wr[q] => 1 \in wr'[q])
    BY <1>2, <2>1, Forks, Zenon
  <2>3. CaseCtl'
    BY <1>1, <1>6, <2>2, SMTT(30) DEF CaseCtl
  <2>4. CaseEnds'
    BY <1>1, <1>2, <1>6, <2>2, SMTT(30) DEF CaseEnds
  <2>5. ip[0] \notin 5..7 /\ ip'[0] \notin 5..7 /\ ip'[0] # 9
    BY <1>6, <2>2
  <2>6. CaseFlow'
    BY <1>5, <2>2, <2>5, Zenon
  <2> QED
    BY <2>2, <2>3, <2>4, <2>6, Zenon DEF Case
<1>7. ASSUME p = 0, ip[0] = 2 \/ ip[0] = 3 PROVE PipeTyped' /\ Case'
  <2>1. PICK q \in 1..2 : Arg(0) = q /\ (q = 1 => CloseR(0)) /\ (q = 2 => CloseW(0))
    BY <1>2, <1>7, CaseParent, Performs, Zenon
  <2>2. CloseR(0) \/ CloseW(0)
    BY <2>1
  <2>3. /\ PipeTyped' /\ UNCHANGED <<buf, left, out, data, dead>> /\ GoesTo(0, ip[0] + 1) /\ OnlyLoses(0)
        /\ (q = 1 => wr' = wr) /\ (q = 2 => rd' = rd)
        /\ \A i \in 1..2 : i # q => rd'[i] = rd[i] /\ wr'[i] = wr[i]
    BY <1>2, <2>1, <2>2, Closes, Zenon
  <2>4. ip'[0] = ip[0] + 1 /\ ip'[1] = ip[1] /\ \A r \in Procs : r # 0 => ip'[r] = ip[r]
    BY <1>2, <2>3, Zenon DEF GoesTo
  <2>5. CaseCtl'
    BY <1>1, <1>2, <1>7, <2>3, <2>4, SMTT(30) DEF CaseCtl
  <2>6. wr'[1] = wr[1] /\ rd'[2] = rd[2]
    BY <1>2, <2>1, <2>3
  <2>7. CaseEnds'
    BY <1>1, <1>2, <1>7, <2>3, <2>4, <2>6, SMTT(30) DEF CaseEnds, OnlyLoses
  <2>8. ip[0] \notin 5..7 /\ ip'[0] \notin 5..7 /\ ip'[0] # 9
    BY <1>7, <2>4
  <2>9. CaseFlow'
    BY <1>5, <2>3, <2>8, Zenon
  <2> QED
    BY <2>3, <2>5, <2>7, <2>9, Zenon DEF Case
<1>8. ASSUME p = 0, ip[0] = 4 PROVE PipeTyped' /\ Case'
  <2>1. Stdin(0) /\ Script(0)[ip[0]].op = "getline" /\ Arg(0) = 9 /\ 9 \in Nat
    BY <1>8, CaseParent, Performs, Zenon
  <2>2. /\ PipeTyped' /\ UNCHANGED <<out, data, rd, wr, dead>>
        /\ \/ left = << >> /\ UNCHANGED <<buf, left>> /\ GoesTo(0, 9)
           \/ left = buf'[0] \o left' /\ Len(buf'[0]) \in 1..BUF_SIZE /\ GoesTo(0, ip[0] + 1)
    BY <1>2, <2>1, Gets, Zenon
  <2>3. /\ ip'[0] = 5 \/ ip'[0] = 9
        /\ ip'[1] = ip[1] /\ \A r \in Procs : r # 0 => ip'[r] = ip[r]
    <3>1. ip[0] + 1 = 5
      BY <1>8
    <3> QED
      BY <1>2, <2>2, <3>1, Zenon DEF GoesTo
  <2>4. CaseCtl'
    BY <1>1, <1>2, <1>8, <2>2, <2>3, SMTT(30) DEF CaseCtl
  <2>5. CaseEnds'
    BY <1>1, <1>2, <1>8, <2>2, <2>3, SMTT(30) DEF CaseEnds
  <2>6. Idle
    BY <1>1, <1>8, SMTT(30) DEF CaseFlow, Ready, Sent, Converted, Answered, Received
  <2>7. CASE left = << >> /\ UNCHANGED <<buf, left>> /\ GoesTo(0, 9)
    <3>1. ip[0] \notin 5..7 /\ ip'[0] \notin 5..7
      BY <1>8, <2>7 DEF GoesTo
    <3>2. CaseFlow'
      BY <1>5, <2>2, <2>7, <3>1, Zenon
    <3> QED
      BY <2>2, <2>4, <2>5, <3>2, Zenon DEF Case
  <2>8. CASE left = buf'[0] \o left' /\ Len(buf'[0]) \in 1..BUF_SIZE /\ GoesTo(0, ip[0] + 1)
    <3>1. buf'[0] \in Seq(Nat)
      BY <1>2, <2>2, Zenon DEF PipeTyped
    <3>2. ip'[0] = 5 /\ ip'[0] # 9
      BY <1>8, <2>8 DEF GoesTo
    <3>3. Line(buf'[0])
      <4>1. Len(buf'[0]) <= BUF_SIZE /\ Len(buf'[0]) # 0
        BY <2>8 DEF PipesAssumption
      <4> QED
        BY <3>1, <4>1, Nothing, Zenon DEF Line
    <3>4. Through(Upper(buf[0]))'
      BY <2>2, <2>6, <2>8, <3>1, ThroughInput, Zenon DEF Idle
    <3>5. data'[1] = << >> /\ data'[2] = << >>
      BY <2>2, <2>6, Zenon DEF Idle
    <3>6. Ready'
      BY <3>2, <3>3, <3>4, <3>5, Zenon DEF Ready, Line
    <3>7. CaseFlow'
      BY <3>2, <3>6, Zenon DEF CaseFlow
    <3> QED
      BY <2>2, <2>4, <2>5, <3>7, Zenon DEF Case
  <2> QED
    BY <2>2, <2>7, <2>8, Zenon
<1>9. ASSUME p = 0, ip[0] = 5 PROVE PipeTyped' /\ Case'
  <2>1. Write(0) /\ Arg(0) = 1
    BY <1>9, CaseParent, Performs, Zenon
  <2>2. rd[1] # {} /\ ip[1] # 4
    BY <1>1, <1>3, <1>9, SMTT(30) DEF CaseCtl, CaseEnds
  <2>3. Ready
    BY <1>1, <1>9, SMTT(30) DEF CaseFlow, Idle, Sent, Converted, Answered, Received
  <2>4. PICK m \in 0..Len(buf[0]) :
                /\ GoesTo(0, IF m = Len(buf[0]) THEN ip[0] + 1 ELSE ip[0])
                /\ Len(buf[0]) <= BUF_SIZE => m = Len(buf[0])
                /\ m = Len(buf[0]) => data'[1] = data[1] \o buf[0]
    BY <1>2, <2>1, <2>2, Writes, Zenon
  <2>5. PipeTyped' /\ UNCHANGED <<left, out, rd, wr, dead>> /\ data'[2] = data[2]
    BY <1>2, <2>1, <2>2, Writes, Zenon
  <2>6. buf[0] \in Seq(Nat)
    BY <1>2, Zenon DEF PipeTyped
  <2>7. data'[1] = buf[0] /\ GoesTo(0, ip[0] + 1)
    <3>1. m = Len(buf[0])
      BY <2>3, <2>4, Zenon DEF Ready, Line
    <3>2. << >> \o buf[0] = buf[0]
      BY <2>6, Nothing, Zenon
    <3> QED
      BY <2>3, <2>4, <3>1, <3>2, Zenon DEF Ready
  <2>8. ip'[0] = 6 /\ ip'[0] # 9 /\ ip'[1] = ip[1] /\ \A r \in Procs : r # 0 => ip'[r] = ip[r]
    BY <1>2, <1>9, <2>7 DEF GoesTo
  <2>9. CaseCtl'
    BY <1>1, <1>2, <1>9, <2>5, <2>8, SMTT(30) DEF CaseCtl
  <2>10. CaseEnds'
    BY <1>1, <1>2, <1>9, <2>5, <2>8, SMTT(30) DEF CaseEnds
  <2>11. Upper(Input) = out' \o (Upper(data'[1]) \o Upper(left'))
    BY <2>3, <2>5, <2>7, ThroughStill, Zenon DEF Ready
  <2>12. Sent'
    BY <2>2, <2>3, <2>5, <2>7, <2>8, <2>11, Zenon DEF Sent, Ready, Line, Through, Upper
  <2>13. CaseFlow'
    BY <2>8, <2>12, Zenon DEF CaseFlow
  <2> QED
    BY <2>5, <2>9, <2>10, <2>13, Zenon DEF Case
<1>10. ASSUME p = 0, ip[0] = 6 PROVE PipeTyped' /\ Case'
  <2>1. Read(0) /\ Arg(0) = 2
    BY <1>10, CaseParent, Performs, Zenon
  <2>2. wr[2] # {}
    BY <1>1, <1>3, <1>10, SMTT(30) DEF CaseCtl, CaseEnds
  <2>3. /\ PipeTyped' /\ UNCHANGED <<left, out, rd, wr, dead>> /\ GoesTo(0, ip[0] + 1)
        /\ data[2] # << >> /\ buf'[0] = Got(2) /\ data'[2] = Rest(2) /\ data'[1] = data[1]
    BY <1>2, <2>1, <2>2, Reads, Zenon
  <2>4. Answered
    <3>1. ~Idle /\ ~Ready /\ ~Received
      BY <1>10 DEF Idle, Ready, Received
    <3> QED
      BY <1>1, <2>3, <3>1, Zenon DEF CaseFlow, Sent, Converted
  <2>5. buf'[0] = data[2] /\ data'[2] = << >>
    BY <1>2, <2>3, <2>4, Takes, Zenon DEF Answered, Line
  <2>6. ip'[0] = 7 /\ ip'[0] # 9 /\ ip'[1] = ip[1] /\ \A r \in Procs : r # 0 => ip'[r] = ip[r]
    <3>1. ip'[0] = ip[0] + 1 /\ \A r \in Procs : r # 0 => ip'[r] = ip[r]
      BY <2>3, Zenon DEF GoesTo
    <3>2. ip'[0] = 7 /\ ip'[0] # 9
      BY <1>10, <3>1
    <3> QED
      BY <1>2, <3>1, <3>2, Zenon
  <2>7. CaseCtl'
    BY <1>1, <1>2, <1>10, <2>3, <2>4, <2>6, SMTT(30) DEF CaseCtl, Answered
  <2>8. CaseEnds'
    BY <1>1, <1>2, <1>10, <2>3, <2>6, SMTT(30) DEF CaseEnds
  <2>9. Received'
    BY <2>3, <2>4, <2>5, <2>6, Zenon DEF Received, Answered, Through
  <2>10. CaseFlow'
    BY <2>6, <2>9, Zenon DEF CaseFlow
  <2> QED
    BY <2>3, <2>7, <2>8, <2>10, Zenon DEF Case
<1>11. ASSUME p = 0, ip[0] = 7 PROVE PipeTyped' /\ Case'
  <2>1. Stdout(0)
    BY <1>11, CaseParent, Performs, Zenon
  <2>2. /\ PipeTyped' /\ UNCHANGED <<buf, left, data, rd, wr, dead>>
        /\ out' = out \o buf[0] /\ GoesTo(0, ip[0] + 1)
    BY <1>2, <2>1, Puts, Zenon
  <2>3. Received
    BY <1>1, <1>11, SMTT(30) DEF CaseFlow, Idle, Ready, Sent, Converted, Answered
  <2>4. ip'[0] = 8 /\ ip'[0] # 9 /\ ip'[0] \notin 5..7 /\ ip'[1] = ip[1] /\ \A r \in Procs : r # 0 => ip'[r] = ip[r]
    BY <1>2, <1>11, <2>2 DEF GoesTo
  <2>5. CaseCtl'
    BY <1>1, <1>2, <1>11, <2>2, <2>4, SMTT(30) DEF CaseCtl
  <2>6. CaseEnds'
    BY <1>1, <1>2, <1>11, <2>2, <2>4, SMTT(30) DEF CaseEnds
  <2>7. buf[0] \in Seq(Nat)
    BY <1>2, Zenon DEF PipeTyped
  <2>8. Through(<< >>)'
    BY <2>2, <2>3, <2>7, ThroughOutput, Zenon DEF Received
  <2>9. Idle'
    BY <2>2, <2>3, <2>4, <2>8, Zenon DEF Idle, Received
  <2>10. CaseFlow'
    BY <2>4, <2>9, Zenon DEF CaseFlow
  <2> QED
    BY <2>2, <2>5, <2>6, <2>10, Zenon DEF Case
<1>12. ASSUME p = 0, ip[0] = 8 PROVE PipeTyped' /\ Case'
  <2>1. Local(0) /\ Script(0)[ip[0]].op = "goto" /\ Arg(0) = 4 /\ 4 \in Nat
    BY <1>12, CaseParent, Performs, Zenon
  <2>2. PipeTyped' /\ UNCHANGED <<buf, left, out, data, rd, wr, dead>> /\ GoesTo(0, 4)
    BY <1>2, <2>1, Works, Zenon
  <2>3. ip'[0] = 4 /\ ip'[1] = ip[1] /\ \A r \in Procs : r # 0 => ip'[r] = ip[r]
    BY <1>2, <2>2, Zenon DEF GoesTo
  <2>4. CaseCtl'
    BY <1>1, <1>2, <1>12, <2>2, <2>3, SMTT(30) DEF CaseCtl
  <2>5. CaseEnds'
    BY <1>1, <1>2, <1>12, <2>2, <2>3, SMTT(30) DEF CaseEnds
  <2>6. ip[0] \notin 5..7 /\ ip'[0] \notin 5..7 /\ ip'[0] # 9
    BY <1>12, <2>3
  <2>7. CaseFlow'
    BY <1>5, <2>2, <2>6, Zenon
  <2> QED
    BY <2>2, <2>4, <2>5, <2>7, Zenon DEF Case
<1>13. ASSUME p = 0 \/ p = 1, p = 0 => ip[0] = 9, p = 1 => ip[1] = 6 PROVE PipeTyped' /\ Case'
  <2>1. Exit(p)
    BY <1>13, CaseParent, CaseChild, Performs, Zenon
  <2>2. /\ PipeTyped' /\ UNCHANGED <<ip, buf, left, out, data>> /\ OnlyLoses(p)
        /\ dead'[p] = "zombie" /\ \A r \in Procs : r # p => dead'[r] = dead[r]
    BY <2>1, Exits, Zenon
  <2>3. CaseCtl'
    BY <1>1, <1>2, <1>3, <1>13, <2>2, SMTT(30) DEF CaseCtl
  <2>4. CaseEnds'
    BY <1>1, <1>2, <1>13, <2>2, SMTT(30) DEF CaseCtl, CaseEnds, OnlyLoses
  <2>5. CaseFlow'
    BY <1>4, <2>2, Zenon
  <2> QED
    BY <2>2, <2>3, <2>4, <2>5, Zenon DEF Case
<1>14. ASSUME p = 1, ip[1] = 1 \/ ip[1] = 2 PROVE PipeTyped' /\ Case'
  <2>1. PICK q \in 1..2 : Arg(1) = q /\ (q = 1 => CloseW(1)) /\ (q = 2 => CloseR(1))
    BY <1>2, <1>14, CaseChild, Performs, Zenon
  <2>2. CloseR(1) \/ CloseW(1)
    BY <2>1
  <2>3. /\ PipeTyped' /\ UNCHANGED <<buf, left, out, data, dead>> /\ GoesTo(1, ip[1] + 1) /\ OnlyLoses(1)
        /\ (q = 1 => rd' = rd) /\ (q = 2 => wr' = wr)
        /\ \A i \in 1..2 : i # q => rd'[i] = rd[i] /\ wr'[i] = wr[i]
    BY <1>2, <2>1, <2>2, Closes, Zenon
  <2>4. ip'[0] = ip[0] /\ ip'[1] = ip[1] + 1 /\ \A r \in Procs : r # 1 => ip'[r] = ip[r]
    BY <1>2, <2>3, Zenon DEF GoesTo
  <2>5. CaseCtl'
    BY <1>1, <1>2, <1>14, <2>3, <2>4, SMTT(30) DEF CaseCtl
  <2>6. wr'[2] = wr[2] /\ rd'[1] = rd[1]
    BY <1>2, <2>1, <2>3
  <2>7. CaseEnds'
    BY <1>1, <1>2, <1>14, <2>3, <2>4, <2>6, SMTT(30) DEF CaseCtl, CaseEnds, OnlyLoses
  <2>8. ip'[1] # 4 /\ ip[1] # 4
    BY <1>14, <2>4
  <2>9. CaseFlow'
    BY <1>4, <2>3, <2>4, <2>8, Zenon
  <2> QED
    BY <2>3, <2>5, <2>7, <2>9, Zenon DEF Case
<1>15. ASSUME p = 1, ip[1] = 3 PROVE PipeTyped' /\ Case'
  <2>1. ReadLine(1) /\ Arg(1) = 6 /\ 6 \in Nat
    BY <1>15, CaseChild, Performs, Zenon
  <2>2. /\ PipeTyped' /\ UNCHANGED <<left, out, rd, wr, dead>>
        /\ data[1] # << >> \/ wr[1] = {}
        /\ buf'[1] = Upper(Got(1)) /\ data'[1] = Rest(1) /\ data'[2] = data[2]
        /\ GoesTo(1, IF data[1] = << >> THEN 6 ELSE ip[1] + 1)
    BY <1>2, <2>1, ReadsLine, Zenon
  <2>3. CASE data[1] = << >>
    <3>1. dead[0] # "no" /\ ip[0] = 9
      BY <1>1, <2>2, <2>3, SMTT(30) DEF CaseCtl, CaseEnds
    <3>2. ip'[1] = 6 /\ ip'[0] = ip[0] /\ \A r \in Procs : r # 1 => ip'[r] = ip[r]
      BY <1>2, <2>2, <2>3, Zenon DEF GoesTo
    <3>3. CaseCtl'
      BY <1>1, <1>2, <1>3, <1>15, <2>2, <3>1, <3>2, SMTT(30) DEF CaseCtl
    <3>4. CaseEnds'
      BY <1>1, <1>2, <1>15, <2>2, <3>1, <3>2, SMTT(30) DEF CaseEnds
    <3>5. data'[1] = data[1]
      <4>1. data[1] = << >> => Len(data[1]) <= BUF_SIZE
        BY SMTT(30) DEF PipesAssumption
      <4> QED
        BY <1>2, <2>2, <2>3, <4>1, Takes, Zenon
    <3>6. ip[0] \notin 5..7 /\ ip'[0] \notin 5..7
      BY <3>1, <3>2
    <3>7. CaseFlow'
      BY <1>5, <2>2, <3>1, <3>5, <3>6, Zenon
    <3> QED
      BY <2>2, <3>3, <3>4, <3>7, Zenon DEF Case
  <2>4. CASE data[1] # << >>
    <3>1. Sent
      BY <1>1, <2>4, Zenon DEF CaseFlow, Idle, Ready, Converted, Answered, Received
    <3>2. ip'[1] = 4 /\ ip'[0] = ip[0] /\ ip[0] = 6 /\ ip'[0] # 9 /\ \A r \in Procs : r # 1 => ip'[r] = ip[r]
      <4>1. ip[1] + 1 = 4 /\ 6 # 9
        BY <1>15
      <4> QED
        BY <1>2, <2>2, <2>4, <3>1, <4>1, Zenon DEF GoesTo, Sent
    <3>3. CaseCtl'
      BY <1>1, <1>2, <1>3, <1>15, <2>2, <3>2, SMTT(30) DEF CaseCtl
    <3>4. CaseEnds'
      BY <1>1, <1>2, <1>15, <2>2, <3>2, SMTT(30) DEF CaseEnds
    <3>5. buf'[1] = Upper(data[1]) /\ data'[1] = << >>
      BY <1>2, <2>2, <3>1, Takes, Zenon DEF Sent, Line
    <3>6. data[1] \in Seq(Nat)
      BY <1>2, Zenon DEF PipeTyped
    <3>7. Line(buf'[1])
      BY <3>1, <3>5, <3>6, LineUpper, Zenon DEF Sent
    <3>8. Upper(Input) = out' \o (buf'[1] \o Upper(left'))
      BY <2>2, <3>1, <3>5, ThroughStill, Zenon DEF Sent
    <3>9. Converted'
      BY <2>2, <3>1, <3>2, <3>5, <3>7, <3>8, Zenon DEF Sent, Converted, Through, Line, Upper
    <3>10. CaseFlow'
      BY <3>2, <3>9, Zenon DEF CaseFlow
    <3> QED
      BY <2>2, <3>3, <3>4, <3>10, Zenon DEF Case
  <2> QED
    BY <2>3, <2>4, Zenon
<1>16. ASSUME p = 1, ip[1] = 4 PROVE PipeTyped' /\ Case'
  <2>1. Write(1) /\ Arg(1) = 2
    BY <1>16, CaseChild, Performs, Zenon
  <2>2. rd[2] # {} /\ ip[0] = 6
    BY <1>1, <1>16, SMTT(30) DEF CaseCtl, CaseEnds
  <2>3. Converted
    BY <1>1, <1>16, <2>2, SMTT(30) DEF CaseFlow, Idle, Ready, Sent, Answered, Received
  <2>4. PICK m \in 0..Len(buf[1]) :
                /\ GoesTo(1, IF m = Len(buf[1]) THEN ip[1] + 1 ELSE ip[1])
                /\ Len(buf[1]) <= BUF_SIZE => m = Len(buf[1])
                /\ m = Len(buf[1]) => data'[2] = data[2] \o buf[1]
    BY <1>2, <2>1, <2>2, Writes, Zenon
  <2>5. PipeTyped' /\ UNCHANGED <<left, out, rd, wr, dead>> /\ data'[1] = data[1]
    BY <1>2, <2>1, <2>2, Writes, Zenon
  <2>6. buf[1] \in Seq(Nat)
    BY <1>2, Zenon DEF PipeTyped
  <2>7. data'[2] = buf[1] /\ GoesTo(1, ip[1] + 1)
    <3>1. m = Len(buf[1])
      BY <2>3, <2>4, Zenon DEF Converted, Line
    <3>2. << >> \o buf[1] = buf[1]
      BY <2>6, Nothing, Zenon
    <3> QED
      BY <2>3, <2>4, <3>1, <3>2, Zenon DEF Converted
  <2>8. ip'[1] = 5 /\ ip'[1] # 4 /\ ip'[0] = 6 /\ ip'[0] # 9 /\ \A r \in Procs : r # 1 => ip'[r] = ip[r]
    <3>1. ip'[1] = ip[1] + 1 /\ \A r \in Procs : r # 1 => ip'[r] = ip[r]
      BY <2>7, Zenon DEF GoesTo
    <3>2. ip'[0] = ip[0]
      BY <1>2, <3>1, Zenon
    <3>3. ip'[1] = 5 /\ ip'[1] # 4 /\ ip'[0] = 6 /\ ip'[0] # 9
      BY <1>16, <2>2, <3>1, <3>2
    <3> QED
      BY <3>1, <3>3, Zenon
  <2>9. CaseCtl'
    BY <1>1, <1>2, <1>3, <1>16, <2>2, <2>5, <2>8, SMTT(30) DEF CaseCtl
  <2>10. CaseEnds'
    BY <1>1, <1>2, <1>16, <2>2, <2>5, <2>8, SMTT(30) DEF CaseEnds
  <2>11. Upper(Input) = out' \o (data'[2] \o Upper(left'))
    BY <2>3, <2>5, <2>7, ThroughStill, Zenon DEF Converted
  <2>12. Answered'
    BY <2>3, <2>5, <2>7, <2>8, <2>11, Zenon DEF Converted, Answered, Line, Through, Upper
  <2>13. CaseFlow'
    BY <2>8, <2>12, Zenon DEF CaseFlow
  <2> QED
    BY <2>5, <2>9, <2>10, <2>13, Zenon DEF Case
<1>17. ASSUME p = 1, ip[1] = 5 PROVE PipeTyped' /\ Case'
  <2>1. Local(1) /\ Script(1)[ip[1]].op = "goto" /\ Arg(1) = 3 /\ 3 \in Nat
    BY <1>17, CaseChild, Performs, Zenon
  <2>2. PipeTyped' /\ UNCHANGED <<buf, left, out, data, rd, wr, dead>> /\ GoesTo(1, 3)
    BY <1>2, <2>1, Works, Zenon
  <2>3. ip'[1] = 3 /\ ip'[0] = ip[0] /\ \A r \in Procs : r # 1 => ip'[r] = ip[r]
    BY <1>2, <2>2, Zenon DEF GoesTo
  <2>4. CaseCtl'
    BY <1>1, <1>2, <1>3, <1>17, <2>2, <2>3, SMTT(30) DEF CaseCtl
  <2>5. CaseEnds'
    BY <1>1, <1>2, <1>17, <2>2, <2>3, SMTT(30) DEF CaseEnds
  <2>6. ip'[1] # 4 /\ ip[1] # 4
    BY <1>17, <2>3
  <2>7. CaseFlow'
    BY <1>4, <2>2, <2>3, <2>6, Zenon
  <2> QED
    BY <2>2, <2>4, <2>5, <2>7, Zenon DEF Case
<1>18. p = 0 \/ p = 1
  BY <1>1, <1>3, SMTT(30) DEF CaseCtl
<1>19. /\ ip[0] = 1 \/ ip[0] = 2 \/ ip[0] = 3 \/ ip[0] = 4 \/ ip[0] = 5 \/ ip[0] = 6 \/ ip[0] = 7 \/ ip[0] = 8 \/ ip[0] = 9
       /\ ip[1] > 0 => ip[1] = 1 \/ ip[1] = 2 \/ ip[1] = 3 \/ ip[1] = 4 \/ ip[1] = 5 \/ ip[1] = 6
  BY <1>1, SMTT(30) DEF CaseCtl
<1>20. CASE p = 0
  BY <1>2, <1>6, <1>7, <1>8, <1>9, <1>10, <1>11, <1>12, <1>13, <1>19, <1>20, Zenon
<1>21. CASE p = 1
  BY <1>2, <1>3, <1>13, <1>14, <1>15, <1>16, <1>17, <1>19, <1>21, Zenon
<1> QED
  BY <1>18, <1>20, <1>21, Zenon

-----------------------------------------------------------------------------
(* Pipes: pipe_sync.c *)

\* The children are forked in order; when the parent has read, they are past
\* their work.
SyncCtl ==
    /\ ip[0] \in 1..(NumKids + 3)
    /\ \A k \in Procs : k # 0 => ip[k] \in 0..4 /\ (ip[k] = 0 <=> k > NumKids \/ ip[0] <= k)
    /\ ip[0] > NumKids + 2 => \A k \in Procs : k # 0 /\ k <= NumKids => ip[k] > 2

\* They hold the write end until they have done their work, the parent until
\* it has forked them all; nobody writes.
SyncEnds ==
    /\ ip[0] < NumKids + 2 => 0 \in wr[1]
    /\ \A k \in Procs : k # 0 /\ ip[k] \in 1..3 => k \in wr[1]

SyncFlow == buf[0] = << >> /\ data[1] = << >> /\ out = << >>

Sync == SyncCtl /\ SyncEnds /\ SyncFlow

\* Three calls after others
LEMMA Followed ==
    ASSUME NEW S, NEW s \in Seq(S), NEW a \in S, NEW b \in S, NEW c \in S, NEW n \in Nat, Len(s) = n
    PROVE  /\ \A i \in 1..n : (s \o <<a, b, c>>)[i] = s[i]
           /\ (s \o <<a, b, c>>)[n + 1] = a
           /\ (s \o <<a, b, c>>)[n + 2] = b
           /\ (s \o <<a, b, c>>)[n + 3] = c
<1>1. <<a, b, c>> \in Seq(S) /\ Len(<<a, b, c>>) = 3
  OBVIOUS
<1> QED
  BY <1>1, SMTT(30)

\* The calls of pipe_sync.c
LEMMA SyncCalls ==
    ASSUME PipesAssumption, prog = "pipe_sync"
    PROVE  /\ \A i \in 1..NumKids : Script(0)[i] = Call("fork", i)
           /\ Script(0)[NumKids + 1] = Call("closeW", 1)
           /\ Script(0)[NumKids + 2] = Call("read", 1)
           /\ Script(0)[NumKids + 3] = Call("exit", 0)
           /\ \A k : k # 0 => Script(k) = <<Call("closeR", 1), Call("work", 0),
                                                 Call("closeW", 1), Call("exit", 0)>>
<1>1. NumKids \in Nat
  BY DEF PipesAssumption
<1>2. \A p : Script(p) = pipe_sync(p)
  BY Zenon DEF Script
<1>3. \A k : k # 0 => Script(k) = <<Call("closeR", 1), Call("work", 0),
                                         Call("closeW", 1), Call("exit", 0)>>
  BY <1>2, Zenon DEF pipe_sync, Parent, closeR, closeW, exit
<1>4. Script(0) = [k \in 1..NumKids |-> Call("fork", k)] \o
                         <<Call("closeW", 1), Call("read", 1), Call("exit", 0)>>
  BY <1>2, Zenon DEF pipe_sync, Parent, fork, closeW, exit
<1> DEFINE F == [k \in 1..NumKids |-> Call("fork", k)]
           C == <<Call("closeW", 1), Call("read", 1), Call("exit", 0)>>
           S == {F[k] : k \in 1..NumKids} \cup {C[1], C[2], C[3]}
<1>5. F \in Seq(S) /\ Len(F) = NumKids /\ \A i \in 1..NumKids : F[i] = Call("fork", i)
  <2>1. F \in [1..NumKids -> S]
    BY Zenon
  <2>2. \A i \in 1..NumKids : F[i] = Call("fork", i)
    BY Zenon
  <2> HIDE DEF F, S
  <2> QED
    BY <1>1, <2>1, <2>2
<1>6. Call("closeW", 1) \in S /\ Call("read", 1) \in S /\ Call("exit", 0) \in S
  <2>1. C[1] = Call("closeW", 1) /\ C[2] = Call("read", 1) /\ C[3] = Call("exit", 0)
    OBVIOUS
  <2> QED
    BY <2>1, Zenon
<1> HIDE DEF F, S
<1>7. /\ \A i \in 1..NumKids : (F \o C)[i] = F[i]
      /\ (F \o C)[NumKids + 1] = Call("closeW", 1)
      /\ (F \o C)[NumKids + 2] = Call("read", 1)
      /\ (F \o C)[NumKids + 3] = Call("exit", 0)
  BY <1>1, <1>5, <1>6, Followed
<1>8. Script(0) = F \o C
  BY <1>4, Zenon DEF F, C
<1>9. \A i \in 1..NumKids : Script(0)[i] = Call("fork", i)
  BY <1>5, <1>7, <1>8, Zenon
<1> QED
  BY <1>3, <1>7, <1>8, <1>9, Zenon

\* Their names and arguments
LEMMA SyncParent ==
    ASSUME PipesAssumption, prog = "pipe_sync"
    PROVE  /\ ip[0] \in 1..NumKids => Script(0)[ip[0]].op = "fork" /\ Arg(0) = ip[0]
           /\ ip[0] = NumKids + 1 => Script(0)[ip[0]].op = "closeW" /\ Arg(0) = 1
           /\ ip[0] = NumKids + 2 => Script(0)[ip[0]].op = "read" /\ Arg(0) = 1
           /\ ip[0] = NumKids + 3 => Script(0)[ip[0]].op = "exit"
<1>1. ip[0] \in 1..NumKids => Script(0)[ip[0]] = Call("fork", ip[0])
  BY SyncCalls, Zenon
<1>2. ip[0] = NumKids + 1 => Script(0)[ip[0]] = Call("closeW", 1)
  BY SyncCalls, Zenon
<1>3. ip[0] = NumKids + 2 => Script(0)[ip[0]] = Call("read", 1)
  BY SyncCalls, Zenon
<1>4. ip[0] = NumKids + 3 => Script(0)[ip[0]] = Call("exit", 0)
  BY SyncCalls, Zenon
<1> QED
  BY <1>1, <1>2, <1>3, <1>4, CallFields, SMTT(30) DEF Arg

LEMMA SyncChild ==
    ASSUME PipesAssumption, prog = "pipe_sync", NEW k, k # 0
    PROVE  /\ ip[k] = 1 => Script(k)[ip[k]].op = "closeR" /\ Arg(k) = 1
           /\ ip[k] = 2 => Script(k)[ip[k]].op = "work" /\ Arg(k) = 0
           /\ ip[k] = 3 => Script(k)[ip[k]].op = "closeW" /\ Arg(k) = 1
           /\ ip[k] = 4 => Script(k)[ip[k]].op = "exit"
<1>1. Script(k) = <<Call("closeR", 1), Call("work", 0), Call("closeW", 1), Call("exit", 0)>>
  BY SyncCalls, Zenon
<1> QED
  BY <1>1, CallFields, SMTT(30) DEF Arg

\* A step of pipe_sync.c keeps the invariant.
LEMMA SyncNext ==
    ASSUME PipesAssumption, prog = "pipe_sync", PipeTyped, Sync, NEW p \in Procs, process(p)
    PROVE  PipeTyped' /\ Sync'
<1>1. SyncCtl /\ SyncEnds /\ SyncFlow
  BY Zenon DEF Sync
<1>2. 0 \in Procs /\ 1 \in 1..2 /\ 0 \in Nat /\ NumKids \in Nat /\ Procs \subseteq Nat
  BY Family DEF PipesAssumption
<1>3. ip[p] > 0 /\ dead[p] = "no"
  BY Performs, Zenon
<1>4. ASSUME UNCHANGED <<buf, out, data>> PROVE SyncFlow'
  BY <1>1, <1>4, Zenon DEF SyncFlow
<1>5. ASSUME p = 0, ip[0] \in 1..NumKids PROVE PipeTyped' /\ Sync'
  <2> DEFINE c == ip[0]
  <2>1. Fork(0) /\ Arg(0) = c /\ c \in Procs /\ c # 0
    BY <1>2, <1>5, SyncParent, Performs, Family, Zenon
  <2>2. c \in 1..NumKids
    BY <1>5
  <2>3. /\ PipeTyped' /\ UNCHANGED <<buf, left, out, data, dead>>
        /\ ip'[0] = ip[0] + 1 /\ ip'[c] = 1 /\ \A r \in Procs : r # 0 /\ r # c => ip'[r] = ip[r]
        /\ wr[1] \subseteq wr'[1] /\ (0 \in wr[1] => c \in wr'[1])
    BY <1>2, <2>1, Forks, Zenon
  <2>4. ip[0] = c
    OBVIOUS
  <2> HIDE DEF c
  <2>5. SyncCtl'
    BY <1>1, <1>2, <2>1, <2>2, <2>3, <2>4, SMTT(30) DEF SyncCtl
  <2>6. SyncEnds'
    BY <1>1, <1>2, <2>1, <2>2, <2>3, <2>4, SMTT(30) DEF SyncEnds
  <2> QED
    BY <1>4, <2>3, <2>5, <2>6, Zenon DEF Sync
<1>6. ASSUME p = 0, ip[0] = NumKids + 1 PROVE PipeTyped' /\ Sync'
  <2>1. CloseW(0) /\ Arg(0) = 1
    BY <1>6, SyncParent, Performs, Zenon
  <2>2. PipeTyped' /\ UNCHANGED <<buf, left, out, data, dead>> /\ GoesTo(0, ip[0] + 1) /\ OnlyLoses(0)
    BY <1>2, <2>1, Closes, Zenon
  <2>3. ip'[0] = ip[0] + 1 /\ \A r \in Procs : r # 0 => ip'[r] = ip[r]
    BY <2>2, Zenon DEF GoesTo
  <2>4. SyncCtl'
    BY <1>1, <1>2, <1>6, <2>3, SMTT(30) DEF SyncCtl
  <2>5. \A r \in Procs : r # 0 /\ r \in wr[1] => r \in wr'[1]
    BY <1>2, <2>2, Zenon DEF OnlyLoses
  <2>6. SyncEnds'
    <3>1. ~(ip'[0] < NumKids + 2)
      BY <1>2, <1>6, <2>3
    <3>2. \A k \in Procs : k # 0 /\ ip'[k] \in 1..3 => k \in wr'[1]
      BY <1>1, <2>3, <2>5, Zenon DEF SyncEnds
    <3> QED
      BY <3>1, <3>2, Zenon DEF SyncEnds
  <2> QED
    BY <1>4, <2>2, <2>4, <2>6, Zenon DEF Sync
<1>7. ASSUME p = 0, ip[0] = NumKids + 2 PROVE PipeTyped' /\ Sync'
  <2>1. Read(0) /\ Arg(0) = 1
    BY <1>7, SyncParent, Performs, Zenon
  <2>2. /\ PipeTyped' /\ UNCHANGED <<left, out, rd, wr, dead>> /\ GoesTo(0, ip[0] + 1)
        /\ data[1] # << >> \/ wr[1] = {}
        /\ buf'[0] = Got(1) /\ data'[1] = Rest(1)
    BY <1>2, <2>1, Reads, Zenon
  <2>3. ip'[0] = ip[0] + 1 /\ \A r \in Procs : r # 0 => ip'[r] = ip[r]
    BY <2>2, Zenon DEF GoesTo
  <2>4. data[1] = << >> /\ wr[1] = {}
    BY <1>1, <2>2, Zenon DEF SyncFlow
  <2>5. \A k \in Procs : k # 0 /\ k <= NumKids => ip[k] > 2
    <3> TAKE k \in Procs
    <3> HAVE k # 0 /\ k <= NumKids
    <3>1. ip[k] \in 0..4 /\ (ip[k] = 0 <=> k > NumKids \/ ip[0] <= k)
      BY <1>1, Zenon DEF SyncCtl
    <3>2. ip[k] \notin 1..3
      BY <1>1, <2>4, Zenon DEF SyncEnds
    <3>3. k \in Nat
      BY <1>2, Zenon
    <3> QED
      BY <1>2, <1>7, <3>1, <3>2, <3>3
  <2>6. SyncCtl'
    BY <1>1, <1>2, <1>7, <2>3, <2>5, SMTT(30) DEF SyncCtl
  <2>7. SyncEnds'
    BY <1>1, <1>2, <1>7, <2>2, <2>3, SMTT(30) DEF SyncEnds
  <2>8. Got(1) = << >> /\ Rest(1) = << >>
    <3>1. data[1] = << >> => Len(data[1]) <= BUF_SIZE
      BY SMTT(30) DEF PipesAssumption
    <3> QED
      BY <1>2, <2>4, <3>1, Takes, Zenon
  <2>9. SyncFlow'
    BY <1>1, <2>2, <2>8, Zenon DEF SyncFlow
  <2> QED
    BY <2>2, <2>6, <2>7, <2>9, Zenon DEF Sync
<1>8. ASSUME p = 0 => ip[0] = NumKids + 3, p # 0 => ip[p] = 4 PROVE PipeTyped' /\ Sync'
  <2>1. Exit(p)
    BY <1>8, SyncParent, SyncChild, Performs, Zenon
  <2>2. PipeTyped' /\ UNCHANGED <<ip, buf, left, out, data>> /\ OnlyLoses(p)
    BY <2>1, Exits, Zenon
  <2>3. SyncCtl'
    BY <1>1, <2>2, Zenon DEF SyncCtl
  <2>4. \A r \in Procs : r # p /\ r \in wr[1] => r \in wr'[1]
    BY <1>2, <2>2, Zenon DEF OnlyLoses
  <2>5. ASSUME ip'[0] < NumKids + 2 PROVE 0 \in wr'[1]
    <3>1. ip[0] < NumKids + 2
      BY <2>2, <2>5, Zenon
    <3>2. p # 0
      BY <1>2, <1>8, <3>1
    <3> QED
      BY <1>1, <1>2, <2>4, <3>1, <3>2, Zenon DEF SyncEnds
  <2>6. ASSUME NEW k \in Procs, k # 0, ip'[k] \in 1..3 PROVE k \in wr'[1]
    <3>1. ip[k] \in 1..3
      BY <2>2, <2>6, Zenon
    <3>2. k # p
      BY <1>8, <2>6, <3>1
    <3> QED
      BY <1>1, <2>4, <2>6, <3>1, <3>2, Zenon DEF SyncEnds
  <2>7. SyncEnds'
    BY <2>5, <2>6, Zenon DEF SyncEnds
  <2> QED
    BY <1>4, <2>2, <2>3, <2>7, Zenon DEF Sync
<1>9. ASSUME p # 0, ip[p] = 1 \/ ip[p] = 3 PROVE PipeTyped' /\ Sync'
  <2>1. Arg(p) = 1 /\ (CloseR(p) \/ CloseW(p)) /\ (ip[p] = 1 => CloseR(p))
    BY <1>9, SyncChild, Performs, Zenon
  <2>2. /\ PipeTyped' /\ UNCHANGED <<buf, left, out, data, dead>> /\ GoesTo(p, ip[p] + 1) /\ OnlyLoses(p)
        /\ (ip[p] = 1 => wr' = wr)
    BY <1>2, <2>1, Closes, Zenon
  <2>3. ip'[p] = ip[p] + 1 /\ ip'[0] = ip[0] /\ \A r \in Procs : r # p => ip'[r] = ip[r]
    BY <1>2, <1>9, <2>2, Zenon DEF GoesTo
  <2>4. SyncCtl'
    BY <1>1, <1>2, <1>9, <2>3, SMTT(30) DEF SyncCtl
  <2>5. \A r \in Procs : r # p /\ r \in wr[1] => r \in wr'[1]
    BY <1>2, <2>2, Zenon DEF OnlyLoses
  <2>6. SyncEnds'
    BY <1>1, <1>2, <1>9, <2>2, <2>3, <2>5, SMTT(30) DEF SyncEnds
  <2> QED
    BY <1>4, <2>2, <2>4, <2>6, Zenon DEF Sync
<1>10. ASSUME p # 0, ip[p] = 2 PROVE PipeTyped' /\ Sync'
  <2>1. Local(p) /\ Script(p)[ip[p]].op = "work" /\ Arg(p) \in Nat
    BY <1>2, <1>10, SyncChild, Performs, Zenon
  <2>2. PipeTyped' /\ UNCHANGED <<buf, left, out, data, rd, wr, dead>> /\ GoesTo(p, ip[p] + 1)
    BY <2>1, Works, Zenon
  <2>3. ip'[p] = ip[p] + 1 /\ ip'[0] = ip[0] /\ \A r \in Procs : r # p => ip'[r] = ip[r]
    BY <1>2, <1>10, <2>2, Zenon DEF GoesTo
  <2>4. SyncCtl'
    BY <1>1, <1>2, <1>10, <2>3, SMTT(30) DEF SyncCtl
  <2>5. SyncEnds'
    BY <1>1, <1>2, <1>10, <2>2, <2>3, SMTT(30) DEF SyncEnds
  <2> QED
    BY <1>4, <2>2, <2>4, <2>5, Zenon DEF Sync
<1>11. /\ ip[0] \in 1..NumKids \/ ip[0] = NumKids + 1 \/ ip[0] = NumKids + 2 \/ ip[0] = NumKids + 3
       /\ p # 0 => ip[p] = 1 \/ ip[p] = 2 \/ ip[p] = 3 \/ ip[p] = 4
  BY <1>1, <1>2, <1>3, SMTT(30) DEF SyncCtl
<1> QED
  BY <1>5, <1>6, <1>7, <1>8, <1>9, <1>10, <1>11, Zenon

-----------------------------------------------------------------------------
(* Pipes: the four programs *)

PipeIInv ==
    /\ PipeTyped
    /\ prog \in {"pipe_sync", "simple_pipe", "pipe_ls_wc", "change_case"}
    /\ prog = "pipe_sync" => Sync
    /\ prog = "simple_pipe" => Simple
    /\ prog = "pipe_ls_wc" => LsWc
    /\ prog = "change_case" => Case

\* At the start the parent is alone, and all of the input is to be read.
LEMMA PipeInitIInv == ASSUME PipesAssumption, Init PROVE PipeIInv
<1>1. 0 \in Procs /\ 1 \in Procs /\ 2 \in Procs /\ Procs \subseteq Nat /\ 1 \in 1..2 /\ 2 \in 1..2
  BY Family
<1>2. NumKids \in Nat \ {0} /\ Input \in Seq(Nat) /\ << >> \in Seq(Nat)
  BY DEF PipesAssumption
<1>3. prog \in {"pipe_sync", "simple_pipe", "pipe_ls_wc", "change_case"}
  BY Zenon DEF Init
<1>4. PipeTyped
  <2>1. ip \in [Procs -> Nat]
    BY SMTT(30) DEF Init
  <2>2. buf \in [Procs -> Seq(Nat)] /\ left \in Seq(Nat) /\ out \in Seq(Nat) /\ data \in [1..2 -> Seq(Nat)]
    BY <1>2, Zenon DEF Init
  <2>3. rd \in [1..2 -> SUBSET Procs] /\ wr \in [1..2 -> SUBSET Procs]
    BY <1>1, SMTT(30) DEF Init, Parent
  <2>4. dead \in [Procs -> {"no", "zombie", "reaped"}]
    BY SMTT(30) DEF Init
  <2> QED
    BY <2>1, <2>2, <2>3, <2>4, Zenon DEF PipeTyped
<1>5. ip[0] = 1 /\ \A r \in Procs : r # 0 => ip[r] = 0
  BY <1>1, SMTT(30) DEF Init, Parent
<1>6. \A r \in Procs : dead[r] = "no" /\ buf[r] = << >>
  BY <1>1, Zenon DEF Init
<1>7. left = Input /\ out = << >> /\ data[1] = << >> /\ data[2] = << >>
  BY <1>1, Zenon DEF Init
<1>8. 0 \in rd[1] /\ 0 \in rd[2] /\ 0 \in wr[1] /\ 0 \in wr[2]
  BY <1>1, SMTT(30) DEF Init, Parent
<1>9. Sync
  <2>1. SyncCtl
    BY <1>1, <1>2, <1>5, SMTT(30) DEF SyncCtl
  <2>2. SyncEnds
    <3>1. 0 \notin 1..3
      OBVIOUS
    <3>2. \A k \in Procs : k # 0 => ip[k] \notin 1..3
      BY <1>5, <3>1, Zenon
    <3> QED
      BY <1>8, <3>2, Zenon DEF SyncEnds
  <2> QED
    BY <1>1, <1>6, <1>7, <2>1, <2>2, Zenon DEF Sync, SyncFlow
<1>10. Feeds(0) /\ Feeds(1)
  <2>1. Input = << >> \o Input
    BY <1>2, Nothing, Zenon
  <2> QED
    BY <1>1, <1>6, <1>7, <2>1, Zenon DEF Feeds
<1>11. Simple
  <2>1. SimpleCtl
    BY <1>1, <1>5, <1>6, SMTT(30) DEF SimpleCtl
  <2>2. SimpleEnds
    BY <1>1, <1>5, <1>8, SMTT(30) DEF SimpleEnds
  <2>3. ~(ip[0] > 3) /\ ~(ip[1] > 2)
    BY <1>1, <1>5
  <2> QED
    BY <1>1, <1>6, <1>10, <2>1, <2>2, <2>3, Zenon DEF Simple, SimpleFlow
<1>12. LsWc
  <2>1. LsCtl
    BY <1>1, <1>5, <1>6, SMTT(30) DEF LsCtl
  <2>2. LsEnds
    BY <1>1, <1>5, <1>8, SMTT(30) DEF LsEnds
  <2>3. ~(ip[1] > 2) /\ ip[2] # 3
    BY <1>1, <1>5
  <2> QED
    BY <1>1, <1>6, <1>10, <2>1, <2>2, <2>3, Zenon DEF LsWc, LsFlow
<1>13. Case
  <2>1. CaseCtl
    BY <1>1, <1>5, <1>6, SMTT(30) DEF CaseCtl
  <2>2. CaseEnds
    BY <1>1, <1>5, <1>8, SMTT(30) DEF CaseEnds
  <2>3. ip[0] \notin 5..7 /\ ip[0] # 9
    BY <1>5
  <2>4. Upper(Input) \in Seq(Nat)
    BY <1>2, Capitals, Zenon
  <2>5. << >> \o Upper(Input) = Upper(Input)
    BY <2>4, Nothing, Zenon
  <2>6. Through(<< >>)
    BY <1>7, <2>5, Zenon DEF Through
  <2> QED
    BY <1>7, <2>1, <2>2, <2>3, <2>6, Zenon DEF Case, CaseFlow, Idle
<1> QED
  BY <1>3, <1>4, <1>9, <1>11, <1>12, <1>13, Zenon DEF PipeIInv

LEMMA PipeNextIInv == ASSUME PipesAssumption, PipeIInv, [Next]_(vars) PROVE PipeIInv'
<1>1. CASE UNCHANGED vars
  <2>1. UNCHANGED <<prog, ip, buf, left, out, data, rd, wr, dead>>
    BY <1>1, Zenon DEF vars
  <2>2. PipeTyped'
    BY <2>1, Zenon DEF PipeIInv, PipeTyped
  <2>3. Sync => Sync'
    BY <2>1, Zenon DEF Sync, SyncCtl, SyncEnds, SyncFlow
  <2>4. Simple => Simple'
    BY <2>1, Zenon DEF Simple, SimpleCtl, SimpleEnds, SimpleFlow, Feeds
  <2>5. LsWc => LsWc'
    <3>1. LsCtl => LsCtl'
      BY <2>1, Zenon DEF LsCtl
    <3>2. (LsEnds => LsEnds') /\ (LsFlow => LsFlow')
      BY <2>1, Zenon DEF LsEnds, LsFlow, Feeds
    <3> QED
      BY <3>1, <3>2, Zenon DEF LsWc
  <2>6. Case => Case'
    <3>1. CaseCtl => CaseCtl'
      BY <2>1, Zenon DEF CaseCtl
    <3>2. CaseEnds => CaseEnds'
      BY <2>1, Zenon DEF CaseEnds
    <3>3. (Idle => Idle') /\ (Ready => Ready') /\ (Sent => Sent')
      BY <2>1, Zenon DEF Idle, Ready, Sent, Through
    <3>4. (Converted => Converted') /\ (Answered => Answered') /\ (Received => Received')
      BY <2>1, Zenon DEF Converted, Answered, Received, Through
    <3> QED
      BY <2>1, <3>1, <3>2, <3>3, <3>4, Zenon DEF Case, CaseFlow
  <2> QED
    BY <2>1, <2>2, <2>3, <2>4, <2>5, <2>6, Zenon DEF PipeIInv
<1>2. CASE Next
  <2>1. PICK p \in Procs : process(p)
    BY <1>2, Zenon DEF Next
  <2>2. prog' = prog
    BY <2>1, Zenon DEF process
  <2>3. PipeTyped /\ (prog = "pipe_sync" \/ prog = "simple_pipe" \/ prog = "pipe_ls_wc" \/ prog = "change_case")
    BY Zenon DEF PipeIInv
  <2>4. CASE prog = "pipe_sync"
    <3>1. PipeTyped' /\ Sync'
      BY <2>1, <2>3, <2>4, SyncNext, Zenon DEF PipeIInv
    <3> QED
      BY <2>2, <2>4, <3>1, Zenon DEF PipeIInv
  <2>5. CASE prog = "simple_pipe"
    <3>1. PipeTyped' /\ Simple'
      BY <2>1, <2>3, <2>5, SimpleNext, Zenon DEF PipeIInv
    <3> QED
      BY <2>2, <2>5, <3>1, Zenon DEF PipeIInv
  <2>6. CASE prog = "pipe_ls_wc"
    <3>1. PipeTyped' /\ LsWc'
      BY <2>1, <2>3, <2>6, LsNext, Zenon DEF PipeIInv
    <3> QED
      BY <2>2, <2>6, <3>1, Zenon DEF PipeIInv
  <2>7. CASE prog = "change_case"
    <3>1. PipeTyped' /\ Case'
      BY <2>1, <2>3, <2>7, CaseNext, Zenon DEF PipeIInv
    <3> QED
      BY <2>2, <2>7, <3>1, Zenon DEF PipeIInv
  <2> QED
    BY <2>3, <2>4, <2>5, <2>6, <2>7, Zenon
<1> QED
  BY <1>1, <1>2, Zenon

LEMMA PipeIInvSync == ASSUME PipesAssumption, PipeIInv PROVE SyncAfterAll
<1> SUFFICES ASSUME prog = "pipe_sync", ip[0] > NumKids + 2
             PROVE  /\ buf[0] = << >>
                    /\ \A k \in 1..NumKids : /\ ip[k] > 0
                                             /\ \A i \in ip[k]..Len(Script(k)) : Script(k)[i].op # "work"
  BY Zenon DEF SyncAfterAll, Parent
<1>1. SyncCtl /\ SyncFlow /\ NumKids \in Nat
  BY DEF PipeIInv, Sync, PipesAssumption
<1>2. ASSUME NEW k \in 1..NumKids
      PROVE  ip[k] > 0 /\ \A i \in ip[k]..Len(Script(k)) : Script(k)[i].op # "work"
  <2>1. k \in Procs /\ k # 0 /\ k <= NumKids
    BY <1>1, Family
  <2>2. ip[k] \in 3..4
    BY <1>1, <2>1, SMTT(30) DEF SyncCtl
  <2>3. Script(k) = <<Call("closeR", 1), Call("work", 0), Call("closeW", 1), Call("exit", 0)>>
    BY <2>1, SyncCalls, Zenon
  <2>4. Len(Script(k)) = 4 /\ Script(k)[3].op = "closeW" /\ Script(k)[4].op = "exit"
    BY <2>3, CallFields
  <2>5. \A i \in ip[k]..4 : i = 3 \/ i = 4
    BY <2>2
  <2> QED
    BY <2>2, <2>4, <2>5
<1> QED
  BY <1>1, <1>2, Zenon DEF SyncFlow

\* The output of change_case.c so far
LEMMA ThroughBegin ==
    ASSUME PipeTyped, NEW x \in Seq(Nat), Through(x)
    PROVE  /\ Len(out) <= Len(Upper(Input)) /\ out = SubSeq(Upper(Input), 1, Len(out))
           /\ x = << >> /\ left = << >> => out = Upper(Input)
<1>1. left \in Seq(Nat) /\ out \in Seq(Nat)
  BY Zenon DEF PipeTyped
<1>2. Upper(left) \in Seq(Nat) /\ Len(Upper(left)) = Len(left)
  BY <1>1, Capitals, Zenon
<1>3. x \o Upper(left) \in Seq(Nat)
  BY <1>2, Joins, Zenon
<1>4. Len(out) <= Len(Upper(Input)) /\ out = SubSeq(Upper(Input), 1, Len(out))
  BY <1>1, <1>3, Begins, Zenon DEF Through
<1>5. left = << >> => Upper(left) = << >>
  BY <1>1, <1>2, Nothing, Zenon
<1>6. x = << >> /\ left = << >> => out = Upper(Input)
  BY <1>1, <1>2, <1>5, Nothing, Zenon DEF Through
<1> QED
  BY <1>4, <1>6, Zenon

LEMMA PipeIInvEcho == ASSUME PipesAssumption, PipeIInv PROVE Echo
<1>1. PipeTyped /\ Input \in Seq(Nat) /\ 0 \in Procs /\ 1 \in Procs /\ 1 \in 1..2 /\ 2 \in 1..2
  BY Family DEF PipeIInv, PipesAssumption
<1>2. \A p \in Procs : dead[p] # "SIGPIPE"
  <2>1. dead \in [Procs -> {"no", "zombie", "reaped"}]
    BY <1>1, Zenon DEF PipeTyped
  <2> QED
    BY <2>1
<1>3. prog # "change_case" => Expected = Input
  BY Zenon DEF Expected
<1>4. prog = "change_case" => Expected = Upper(Input)
  BY Zenon DEF Expected, Upper
<1>5. SUFFICES /\ Len(out) <= Len(Expected) /\ out = SubSeq(Expected, 1, Len(out))
               /\ prog # "pipe_sync" /\ dead[0] = "zombie" => out = Expected
  BY <1>2, Zenon DEF Echo, Parent
<1>6. dead[0] = "zombie" => dead[0] # "no"
  OBVIOUS
<1>7. CASE prog = "pipe_sync"
  <2>1. out = << >> /\ Expected = Input
    BY <1>7, <1>3 DEF PipeIInv, Sync, SyncFlow
  <2>2. << >> \in Seq(Nat) /\ << >> \o Input = Input
    BY <1>1, Nothing, Zenon
  <2>3. Len(out) <= Len(Input) /\ out = SubSeq(Input, 1, Len(out))
    BY <1>1, <2>1, <2>2, Begins, Zenon
  <2> QED
    BY <1>7, <2>1, <2>3, Zenon
<1>8. CASE prog = "simple_pipe"
  <2>1. Simple /\ Expected = Input
    BY <1>8, <1>3 DEF PipeIInv
  <2>2. Feeds(0)
    BY <2>1, Zenon DEF Simple, SimpleFlow
  <2>3. dead[0] = "zombie" => data[1] = << >> /\ buf[0] = << >> /\ left = << >>
    <3>1. dead[0] = "zombie" => ip[0] # 4 /\ ip[0] > 3 /\ ip[1] > 2
      BY <2>1, SMTT(30) DEF Simple, SimpleCtl
    <3> QED
      BY <2>1, <3>1, Zenon DEF Simple, SimpleFlow
  <2> QED
    BY <1>1, <2>1, <2>2, <2>3, FeedsBegin, Zenon
<1>9. CASE prog = "pipe_ls_wc"
  <2>1. LsWc /\ Expected = Input
    BY <1>9, <1>3 DEF PipeIInv
  <2>2. Feeds(1)
    BY <2>1, Zenon DEF LsWc, LsFlow
  <2>3. dead[0] = "zombie" => data[1] = << >> /\ buf[1] = << >> /\ left = << >>
    <3>1. dead[0] = "zombie" => ip[1] # 3 /\ ip[1] > 2 /\ ip[2] = 3
      BY <2>1, SMTT(30) DEF LsWc, LsCtl
    <3> QED
      BY <2>1, <3>1, Zenon DEF LsWc, LsFlow
  <2> QED
    BY <1>1, <2>1, <2>2, <2>3, FeedsBegin, Zenon
<1>10. CASE prog = "change_case"
  <2>1. Case /\ Expected = Upper(Input)
    BY <1>10, <1>4, Zenon DEF PipeIInv
  <2>2. buf[0] \in Seq(Nat) /\ buf[1] \in Seq(Nat) /\ data[1] \in Seq(Nat) /\ data[2] \in Seq(Nat) /\ << >> \in Seq(Nat)
    BY <1>1, Nothing, Zenon DEF PipeTyped
  <2>3. Upper(buf[0]) \in Seq(Nat) /\ Upper(data[1]) \in Seq(Nat)
    BY <2>2, Capitals, Zenon
  <2>4. \E x \in Seq(Nat) : Through(x)
    BY <2>1, <2>2, <2>3, Zenon DEF Case, CaseFlow, Idle, Ready, Sent, Converted, Answered, Received
  <2>5. Len(out) <= Len(Upper(Input)) /\ out = SubSeq(Upper(Input), 1, Len(out))
    BY <1>1, <2>4, ThroughBegin, Zenon
  <2>6. dead[0] = "zombie" => Through(<< >>) /\ left = << >>
    <3>1. dead[0] = "zombie" => ip[0] = 9
      BY <2>1, SMTT(30) DEF Case, CaseCtl
    <3>2. ip[0] = 9 => ~Ready /\ ~Sent /\ ~Converted /\ ~Answered /\ ~Received
      BY DEF Ready, Sent, Converted, Answered, Received
    <3> QED
      BY <2>1, <3>1, <3>2, Zenon DEF Case, CaseFlow, Idle
  <2>7. dead[0] = "zombie" => out = Upper(Input)
    BY <1>1, <2>2, <2>6, ThroughBegin, Zenon
  <2> QED
    BY <2>1, <2>5, <2>7, Zenon
<1> QED
  BY <1>7, <1>8, <1>9, <1>10, Zenon DEF PipeIInv
=============================================================================

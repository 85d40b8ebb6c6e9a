------------------------------- MODULE Pipes -------------------------------
(***************************************************************************)
(* pipes/pipe_sync.c, simple_pipe.c, pipe_ls_wc.c and change_case.c.  A    *)
(* process is the list of the calls it makes; a forked child gets a copy   *)
(* of every descriptor its parent has open.  The pipe is the system's      *)
(* (external): a read returns what is there, up to the buffer's size, or   *)
(* end-of-file once no process has the write end open; a write blocks      *)
(* while the pipe is full, and kills its caller if no one can read.  ls    *)
(* and wc stand for a process that writes Input and one that copies all.   *)
(***************************************************************************)
EXTENDS Integers, Sequences

CONSTANTS
    Input,      \* what the first writer of a program has to send
    BUF_SIZE,
    PipeSize,   \* capacity of a pipe
    NumKids     \* pipe_sync: children, one per argument

PipesAssumption == PipeSize \in Nat /\ BUF_SIZE \in 1..PipeSize /\ NumKids \in Nat \ {0} /\ Input \in Seq(Nat)

Parent == 0
Procs  == 0..2 \cup 1..NumKids
toupper(c) == c + 100

Call(op, arg) == [op |-> op, arg |-> arg]
fork(child)   == Call("fork", child)
closeR(q)     == Call("closeR", q)
closeW(q)     == Call("closeW", q)
exit          == Call("exit", 0)

\* Mutant: a child closes the write end before it works.
pipe_sync_Early(p) ==
    IF p = Parent THEN [k \in 1..NumKids |-> fork(k)] \o <<closeW(1), Call("read", 1), exit>>
                  ELSE <<closeR(1), closeW(1), Call("work", 0), exit>>

pipe_sync(p) ==
    IF p = Parent THEN [k \in 1..NumKids |-> fork(k)] \o <<closeW(1), Call("read", 1), exit>>
                  ELSE <<closeR(1), Call("work", 0), closeW(1), exit>>

simple_pipe(p) ==
    IF p = Parent
    THEN <<fork(1), closeR(1), Call("stdin", 1), Call("write", 1), closeW(1), Call("wait", 0), exit>>
    ELSE <<closeW(1), Call("copy", 1), closeR(1), exit>>

\* dup2() and close() leave each child one descriptor, its standard one.
pipe_ls_wc(p) ==
    CASE p = Parent -> <<fork(1), fork(2), closeR(1), closeW(1), Call("wait", 0), Call("wait", 0), exit>>
      [] p = 1 -> <<closeR(1), Call("stdin", 1), Call("write", 1), exit>>
      [] OTHER -> <<closeW(1), Call("copy", 1), exit>>

\* Pipe 1 is outbound, pipe 2 inbound; a read that gets nothing ends the loop.
change_case(p) ==
    IF p = Parent
    THEN <<fork(1), closeR(1), closeW(2), Call("getline", 9), Call("write", 1), Call("read", 2),
           Call("stdout", 0), Call("goto", 4), exit>>
    ELSE <<closeW(1), closeR(2), Call("readline", 6), Call("write", 2), Call("goto", 3), exit>>

VARIABLES
    prog,           \* the program
    ip, buf,        \* per process: the next call (0: not started), and its buffer
    left, out,      \* standard input of the program and its standard output
    data, rd, wr,   \* per pipe: its contents, the processes with each end open
    dead            \* terminated: "no", "zombie", "reaped" or "SIGPIPE"

vars == <<prog, ip, buf, left, out, data, rd, wr, dead>>

Script(p) ==
    CASE prog = "pipe_sync" -> pipe_sync(p) [] prog = "simple_pipe" -> simple_pipe(p)
      [] prog = "pipe_ls_wc" -> pipe_ls_wc(p) [] OTHER -> change_case(p)

Init ==
    /\ prog \in {"pipe_sync", "simple_pipe", "pipe_ls_wc", "change_case"}
    /\ ip = [p \in Procs |-> IF p = Parent THEN 1 ELSE 0] /\ buf = [p \in Procs |-> << >>]
    /\ left = Input /\ out = << >> /\ data = [q \in 1..2 |-> << >>]
    /\ rd = [q \in 1..2 |-> {Parent}] /\ wr = [q \in 1..2 |-> {Parent}]
    /\ dead = [p \in Procs |-> "no"]

-----------------------------------------------------------------------------

At(p, op) == ip[p] > 0 /\ dead[p] = "no" /\ Script(p)[ip[p]].op = op
Arg(p) == Script(p)[ip[p]].arg
Goto(p, i) == ip' = [ip EXCEPT ![p] = i]
Step(p) == Goto(p, ip[p] + 1)
Fill(p, s) == buf' = [buf EXCEPT ![p] = s]

CloseAll(p) == rd' = [q \in 1..2 |-> rd[q] \ {p}] /\ wr' = [q \in 1..2 |-> wr[q] \ {p}]

Fork(p) ==
    /\ At(p, "fork")
    /\ ip' = [ip EXCEPT ![p] = @ + 1, ![Arg(p)] = 1]
    /\ rd' = [q \in 1..2 |-> IF p \in rd[q] THEN rd[q] \cup {Arg(p)} ELSE rd[q]]
    /\ wr' = [q \in 1..2 |-> IF p \in wr[q] THEN wr[q] \cup {Arg(p)} ELSE wr[q]]
    /\ UNCHANGED <<buf, left, out, data, dead>>

CloseR(p) ==
    /\ At(p, "closeR") /\ Step(p)
    /\ rd' = [rd EXCEPT ![Arg(p)] = @ \ {p}]
    /\ UNCHANGED <<buf, left, out, data, wr, dead>>

CloseW(p) ==
    /\ At(p, "closeW") /\ Step(p)
    /\ wr' = [wr EXCEPT ![Arg(p)] = @ \ {p}]
    /\ UNCHANGED <<buf, left, out, data, rd, dead>>

\* A child's work, and the jump back to the top of a loop
Local(p) ==
    /\ \/ At(p, "work") /\ Step(p)
       \/ At(p, "goto") /\ Goto(p, Arg(p))
    /\ UNCHANGED <<buf, left, out, data, rd, wr, dead>>

\* All that is to be sent, or the next line of it; end-of-file ends the loop.
Stdin(p) ==
    /\ \/ At(p, "stdin") /\ Fill(p, left) /\ left' = << >> /\ Step(p)
       \/ /\ At(p, "getline") /\ left # << >> /\ Step(p)
          /\ \E n \in 1..BUF_SIZE :
               n <= Len(left) /\ Fill(p, SubSeq(left, 1, n)) /\ left' = SubSeq(left, n + 1, Len(left))
       \/ At(p, "getline") /\ left = << >> /\ Goto(p, Arg(p)) /\ UNCHANGED <<buf, left>>
    /\ UNCHANGED <<out, data, rd, wr, dead>>

Stdout(p) ==
    /\ At(p, "stdout") /\ Step(p)
    /\ out' = out \o buf[p]
    /\ UNCHANGED <<buf, left, data, rd, wr, dead>>

\* The bytes that there is room for; a write of up to BUF_SIZE is never split.
Write(p) ==
    /\ At(p, "write")
    /\ LET q == Arg(p)  room == PipeSize - Len(data[q])  n == Len(buf[p])
           m == IF n <= room THEN n ELSE room
       IN IF rd[q] = {}
          THEN dead' = [dead EXCEPT ![p] = "SIGPIPE"] /\ CloseAll(p) /\ UNCHANGED <<ip, buf, data>>
          ELSE /\ m > 0 \/ n = 0
               /\ n <= BUF_SIZE => m = n
               /\ data' = [data EXCEPT ![q] = @ \o SubSeq(buf[p], 1, m)]
               /\ Fill(p, SubSeq(buf[p], m + 1, n))
               /\ IF m = n THEN Step(p) ELSE UNCHANGED ip
               /\ UNCHANGED <<dead, rd, wr>>
    /\ UNCHANGED <<left, out>>

\* What a read of pipe q returns, and what it leaves
Available(q) == data[q] # << >> \/ wr[q] = {}
Got(q)  == SubSeq(data[q], 1, IF Len(data[q]) < BUF_SIZE THEN Len(data[q]) ELSE BUF_SIZE)
Rest(q) == SubSeq(data[q], Len(Got(q)) + 1, Len(data[q]))

Read(p) ==
    /\ At(p, "read") /\ Available(Arg(p))
    /\ Fill(p, Got(Arg(p))) /\ data' = [data EXCEPT ![Arg(p)] = Rest(Arg(p))] /\ Step(p)
    /\ UNCHANGED <<left, out, rd, wr, dead>>

\* Mutant: a read returns all there is.
Copy_Once(p) ==
    /\ At(p, "copy") /\ Available(Arg(p))
    /\ out' = out \o Got(Arg(p)) /\ data' = [data EXCEPT ![Arg(p)] = Rest(Arg(p))]
    /\ Step(p)
    /\ UNCHANGED <<buf, left, rd, wr, dead>>

\* The loop of a filter: copy to standard output until end-of-file
Copy(p) ==
    /\ At(p, "copy") /\ Available(Arg(p))
    /\ out' = out \o Got(Arg(p)) /\ data' = [data EXCEPT ![Arg(p)] = Rest(Arg(p))]
    /\ IF Got(Arg(p)) = << >> THEN Step(p) ELSE UNCHANGED ip
    /\ UNCHANGED <<buf, left, rd, wr, dead>>

\* The child of change_case: read from pipe 1, convert; end-of-file ends it.
ReadLine(p) ==
    /\ At(p, "readline") /\ Available(1)
    /\ Fill(p, [i \in DOMAIN Got(1) |-> toupper(Got(1)[i])])
    /\ data' = [data EXCEPT ![1] = Rest(1)]
    /\ IF Got(1) = << >> THEN Goto(p, Arg(p)) ELSE Step(p)
    /\ UNCHANGED <<left, out, rd, wr, dead>>

Exit(p) ==
    /\ At(p, "exit")
    /\ dead' = [dead EXCEPT ![p] = "zombie"]
    /\ CloseAll(p)
    /\ UNCHANGED <<ip, buf, left, out, data>>

Wait(p) ==
    /\ At(p, "wait")
    /\ \E c \in Procs : dead[c] = "zombie" /\ dead' = [dead EXCEPT ![c] = "reaped"]
    /\ Step(p)
    /\ UNCHANGED <<buf, left, out, data, rd, wr>>

process(p) ==
    /\ \/ Fork(p) \/ CloseR(p) \/ CloseW(p) \/ Local(p) \/ Stdin(p) \/ Stdout(p) \/ Write(p)
       \/ Read(p) \/ Copy(p) \/ ReadLine(p) \/ Exit(p) \/ Wait(p)
    /\ UNCHANGED prog

Next == \E p \in Procs : process(p)

Spec == Init /\ [][Next]_vars

-----------------------------------------------------------------------------
(* Properties *)

\* pipe_sync.c:22-25: when the parent sees end-of-file every child has done
\* its work, children forked late included, and it did not read a byte (81).
SyncAfterAll ==
    prog = "pipe_sync" /\ ip[Parent] > NumKids + 2 =>
        /\ buf[Parent] = << >>
        /\ \A k \in 1..NumKids : ip[k] > 0 /\ \A i \in ip[k]..Len(Script(k)) : Script(k)[i].op # "work"

\* What comes out is what went in, in order and in capitals for change_case,
\* whatever the lengths of the reads; and no process is killed by SIGPIPE.
Expected == IF prog = "change_case" THEN [i \in DOMAIN Input |-> toupper(Input[i])] ELSE Input
Echo ==
    /\ Len(out) <= Len(Expected) /\ out = SubSeq(Expected, 1, Len(out))
    /\ prog # "pipe_sync" /\ dead[Parent] = "zombie" => out = Expected
    /\ \A p \in Procs : dead[p] # "SIGPIPE"

\* Every process that was started has ended.
Finished == \A p \in Procs : ip[p] > 0 => dead[p] # "no"
=============================================================================

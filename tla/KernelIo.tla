------------------------------ MODULE KernelIo ------------------------------
(***************************************************************************)
(* Pipes, sockets, epoll and files of the kernel, over the tasks of        *)
(* KernelTasks: the calls of Syscalls that work on descriptors and names,  *)
(* one action each.                                                        *)
(***************************************************************************)
EXTENDS KernelTasks, SequencesExt

CONSTANT PipeCap        \* how much a pipe or a queue holds

Do(t, r) == task' = Put(task, t, r)
Me(t) == task[t]
Held(e) == \E u \in Tasks : Alive(task[u]) /\ e \in task[u].fds
\* The name o is taken; processes that opened an object keep it after unlink().
\* A name that is not in the file system goes with its socket.
Exists(o) ==
    /\ o \in DOMAIN obj /\ "unlinked" \notin DOMAIN obj[o]
    /\ ("ns" \in DOMAIN obj[o] /\ obj[o].ns # "path") => Held(Addr(o))
SetObj(o, val) == obj' = (o :> val) @@ obj

-----------------------------------------------------------------------------
(* Pipes and sockets *)

Peer(e) == <<e[1], CASE e[2] = "r" -> "w" [] e[2] = "w" -> "r" [] e[2] = "a" -> "b" [] e[2] = "b" -> "a">>

\* Someone has end e open: a process, the queue of a listening socket, or a
\* message on its way to a process.
Open(e) ==
    \/ Held(e)
    \/ \E o \in DOMAIN obj :
        \/ obj[o].k = "listen" /\ Held(Addr(o)) /\ \E k \in DOMAIN obj[o].q : obj[o].q[k] = e
        \/ obj[o].k \in {"socket", "pty"} /\ \E k \in DOMAIN obj[o].fly : obj[o].fly[k] = e

Eof(e)      == ~Open(Peer(e)) \/ Peer(e)[2] \in obj[e[1]].shut
Readable(e) == IF obj[e[1]].k \in {"listen", "dgram"} THEN obj[e[1]].q # <<>> ELSE obj[e[1]][e[2]] # <<>> \/ Eof(e)
Writable(e) == ~Open(Peer(e)) \/ Len(obj[e[1]][Peer(e)[2]]) < PipeCap

makes(t) ==
    /\ \/ /\ At(t, "pipe")
          /\ SetObj(Ins(t).a, Pipe)
          /\ Do(t, Return([Me(t) EXCEPT !.fds = @ \cup {R(Ins(t).a), W(Ins(t).a)}], 0))
       \/ /\ At(t, "socketpair")
          /\ SetObj(Ins(t).a, Socket)
          /\ Do(t, Return([Me(t) EXCEPT !.fds = @ \cup {<<Ins(t).a, "a">>, <<Ins(t).a, "b">>}], 0))

\* A pseudoterminal: the slave that nobody has opened yet counts as open, and
\* what is written to the master once it is closed is lost.
opensPt(t) ==
    /\ \/ /\ At(t, "openpt")
          /\ SetObj(Ins(t).a, [Socket EXCEPT !.k = "pty", !.fly = << <<Ins(t).a, "b">> >>])
          /\ Do(t, Return([Me(t) EXCEPT !.fds = @ \cup {<<Ins(t).a, "a">>}], 0))
       \/ /\ At(t, "open_slave")
          /\ SetObj(Ins(t).a, [obj[Ins(t).a] EXCEPT !.fly = <<>>])
          /\ Do(t, Return([Me(t) EXCEPT !.fds = @ \cup {<<Ins(t).a, "b">>}], 0))

reads(t) ==
    /\ At(t, "read")
    /\ LET e == Arg(t, Ins(t).a)
           buf == obj[e[1]][e[2]]
       IN \/ /\ e \in Me(t).fds /\ buf # <<>>
             /\ SetObj(e[1], [obj[e[1]] EXCEPT ![e[2]] = Tail(@)])
             /\ Do(t, ReturnIn(Me(t), Ins(t).b, Head(buf), 1))
          \/ /\ e \in Me(t).fds /\ buf = <<>> /\ Eof(e)
             /\ Do(t, Return(Me(t), 0)) /\ UNCHANGED obj
          \/ /\ e \in Me(t).fds => ~Readable(e) /\ Ins(t).c
             /\ Do(t, Fail(Me(t), IF e \in Me(t).fds THEN "EAGAIN" ELSE "EBADF")) /\ UNCHANGED obj

\* What arrives at the peer of e is new for the epoll instances that watch it,
\* and for the process that asked for SIGIO.
Arrived(e, items) ==
    [o \in DOMAIN obj |->
        IF o = e[1] THEN [obj[o] EXCEPT ![Peer(e)[2]] = @ \o items]
        ELSE IF obj[o].k = "epoll" /\ \E p \in obj[o].on : p[1] = Peer(e)
             THEN [obj[o] EXCEPT !.new = @ \cup {Peer(e)}]
        ELSE obj[o]]
Informed(T, o) ==
    IF obj[o].k = "pipe" /\ obj[o].sigio # 0 THEN [T EXCEPT ![obj[o].sigio] = Post(@, "IO", 0)] ELSE T

Room(e, n) == Len(obj[e[1]][Peer(e)[2]]) + n <= PipeCap

writevs(t) ==
    /\ At(t, "writev")
    /\ LET e == Arg(t, Ins(t).a)
           items == Arg(t, Ins(t).b)
       IN /\ Open(Peer(e)) => Room(e, Len(items))
          /\ obj' = IF Open(Peer(e)) THEN Arrived(e, items) ELSE obj
          /\ Do(t, IF Open(Peer(e)) THEN Return(Me(t), 1) ELSE Fail(Post(Me(t), "PIPE", 0), "EPIPE"))

writes(t) ==
    /\ At(t, "write")
    /\ LET e == Arg(t, Ins(t).a)
           o == e[1]
       IN \/ /\ e \in Me(t).fds /\ Open(Peer(e)) /\ Writable(e)
             /\ obj' = Arrived(e, <<Arg(t, Ins(t).b)>>)
             /\ task' = Informed(Put(task, t, Return(Me(t), 1)), o)
          \/ /\ e \in Me(t).fds /\ ~Open(Peer(e))
             /\ Do(t, IF obj[o].k = "pty" THEN Return(Me(t), 1) ELSE Fail(Post(Me(t), "PIPE", 0), "EPIPE")) /\ UNCHANGED obj
          \/ /\ e \in Me(t).fds => Open(Peer(e)) /\ ~Writable(e) /\ Ins(t).c
             /\ Do(t, Fail(Me(t), IF e \in Me(t).fds THEN "EAGAIN" ELSE "EBADF")) /\ UNCHANGED obj

\* The settings of the terminal; with TCSAFLUSH the input that nobody has read
\* is discarded in the same step.
tcsetattrs(t) ==
    /\ At(t, "tcsetattr")
    /\ obj' = [obj EXCEPT !["tty"].x = Arg(t, Ins(t).b),
                          !["stdin"].r = IF Ins(t).a = "TCSAFLUSH" THEN <<>> ELSE @]
    /\ Do(t, Return(Me(t), 0))

closes(t) ==
    /\ At(t, "close")
    /\ LET e == Arg(t, Ins(t).a) IN
        Do(t, IF e \in Me(t).fds THEN Return([Me(t) EXCEPT !.fds = @ \ {e}], 0) ELSE Fail(Me(t), "EBADF"))
    /\ UNCHANGED obj

closealls(t) == At(t, "closeall") /\ Do(t, Return([Me(t) EXCEPT !.fds = {}], 0)) /\ UNCHANGED obj

cloexecs(t) ==
    /\ At(t, "cloexec")
    /\ Do(t, Return([Me(t) EXCEPT !.cx = @ \cup {Arg(t, Ins(t).a)}], 0))
    /\ UNCHANGED obj

shutdowns(t) ==
    /\ At(t, "shutdown")
    /\ LET e == Arg(t, Ins(t).a) IN SetObj(e[1], [obj[e[1]] EXCEPT !.shut = @ \cup {e[2]}])
    /\ Do(t, Return(Me(t), 0))

Ready(e) == IF e[2] = "w" THEN Writable(e) ELSE Readable(e)
ReadyEnds(t) == {e \in Arg(t, Ins(t).a) : Ready(e)}

selects(t) ==
    /\ At(t, "select")
    /\ \/ ReadyEnds(t) # {} /\ Do(t, ReturnIn(Me(t), Ins(t).b, ReadyEnds(t), 1))
       \/ /\ ReadyEnds(t) = {} /\ (Ins(t).c = "poll" \/ (Ins(t).c = "timed" /\ Me(t).slp))
          /\ Do(t, ReturnIn(Me(t), Ins(t).b, {}, 0))
    /\ UNCHANGED obj

asyncs(t) ==
    /\ At(t, "async")
    /\ LET e == Arg(t, Ins(t).a) IN SetObj(e[1], [obj[e[1]] EXCEPT !.sigio = t])
    /\ Do(t, Return(Me(t), 0))

\* An end in the interest list is reported while it is ready; with EPOLLET
\* once for every time that input arrives.
EpollEvents(o) == {e \in {p[1] : p \in obj[o].on} :
                      Open(e) /\ IF <<e, {"ET"}>> \in obj[o].on THEN e \in obj[o].new ELSE Readable(e)}

epollCtls(t) ==
    /\ At(t, "epoll_ctl")
    /\ LET o == Ins(t).a
           e == Arg(t, Ins(t).b)
       IN SetObj(o, [obj[o] EXCEPT !.on = @ \cup {<<e, Ins(t).c>>},
                                   !.new = IF Readable(e) THEN @ \cup {e} ELSE @])
    /\ Do(t, Return(Me(t), 0))

epollWaits(t) ==
    /\ At(t, "epoll_wait")
    /\ LET o == Ins(t).a
           Event(e) == <<e, IF obj[e[1]].k # "listen" /\ obj[e[1]][e[2]] = <<>> THEN "HUP" ELSE "IN">>
       IN /\ EpollEvents(o) # {}
          /\ SetObj(o, [obj[o] EXCEPT !.new = {}])
          /\ Do(t, ReturnIn(Me(t), Ins(t).b, SetToSeq({Event(e) : e \in EpollEvents(o)}), 1))

sockets(t) ==
    /\ At(t, "socket")
    /\ SetObj(Ins(t).a, Socket)
    /\ Do(t, Return([Me(t) EXCEPT !.fds = @ \cup {<<Ins(t).a, "a">>}], 0))

binds(t) ==
    /\ At(t, "bind")
    /\ LET e == Arg(t, Ins(t).a) IN
        IF Exists(e[1]) THEN Do(t, Fail(Me(t), "EADDRINUSE")) /\ UNCHANGED obj
        ELSE SetObj(e[1], Ins(t).b) /\ Do(t, Return([Me(t) EXCEPT !.fds = @ \cup {e}], 0))

listens(t) ==
    /\ At(t, "listen")
    /\ LET l == Arg(t, Ins(t).a)[1] IN SetObj(l, [obj[l] EXCEPT !.up = TRUE])
    /\ Do(t, Return(Me(t), 0))

Listening(e) == Exists(e[1]) /\ Held(e) /\ obj[e[1]].up
Backlog(e)   == Len(obj[e[1]].q) < PipeCap

connects(t) ==
    /\ At(t, "connect")
    /\ LET e == Arg(t, Ins(t).a) IN
        IF Listening(e)
        THEN /\ Backlog(e)
             /\ SetObj(e[1], [obj[e[1]] EXCEPT !.q = Append(@, <<Ins(t).b, "b">>)])
             /\ Do(t, Return(Me(t), 0))
        ELSE UNCHANGED obj /\ Do(t, Fail(Me(t), IF Exists(e[1]) THEN "ECONNREFUSED" ELSE "ENOENT"))

accepts(t) ==
    /\ At(t, "accept")
    /\ LET e == Arg(t, Ins(t).a)
           l == e[1]
       IN /\ obj[l].q # <<>>
          /\ SetObj(l, [obj[l] EXCEPT !.q = Tail(@)])
          /\ Do(t, ReturnIn([Me(t) EXCEPT !.fds = @ \cup {Head(obj[l].q)}], Ins(t).b, Head(obj[l].q), 1))

\* Datagrams in the UNIX domain wait for room, and a socket with a peer takes
\* them from the peer only; those of the Internet can be lost or duplicated.
Reachable(to) == Exists(to[1]) /\ Held(to)
Welcome(e, to) == obj[to[1]].peer \in {"", e[1]}

sendtos(t) ==
    /\ At(t, "sendto")
    /\ LET e == Arg(t, Ins(t).a)
           to == Arg(t, Ins(t).b)
           m == <<e, Arg(t, Ins(t).c)>>
           inet == obj[e[1]].ns = "inet"
           sent == Return(Me(t), 1)
       IN \/ /\ Reachable(to) /\ Welcome(e, to) /\ Backlog(to)
             /\ obj' = [obj EXCEPT ![to[1]].q = Append(@, m)] /\ Do(t, sent)
          \/ /\ inet /\ Reachable(to) /\ Welcome(e, to) /\ Len(obj[to[1]].q) + 2 <= PipeCap
             /\ obj' = [obj EXCEPT ![to[1]].q = @ \o <<m, m>>] /\ Do(t, sent)
          \/ inet /\ Do(t, sent) /\ UNCHANGED obj
          \/ /\ ~inet /\ ~Reachable(to)
             /\ Do(t, Fail(Me(t), IF Exists(to[1]) THEN "ECONNREFUSED" ELSE "ENOENT")) /\ UNCHANGED obj
          \/ /\ ~inet /\ Reachable(to) /\ ~Welcome(e, to)
             /\ Do(t, Fail(Me(t), "EPERM")) /\ UNCHANGED obj

recvfroms(t) ==
    /\ At(t, "recvfrom")
    /\ LET l == Arg(t, Ins(t).a)[1] IN
        \/ /\ obj[l].q # <<>>
           /\ SetObj(l, [obj[l] EXCEPT !.q = Tail(@)])
           /\ Do(t, ReturnIn(Me(t), Ins(t).b, Head(obj[l].q), 1))
        \/ obj[l].q = <<>> /\ Ins(t).c /\ Do(t, Fail(Me(t), "EAGAIN")) /\ UNCHANGED obj

\* Taking the peer away throws away what it has sent.
dconnects(t) ==
    /\ At(t, "dconnect")
    /\ LET l == Arg(t, Ins(t).a)[1]
           to == Ins(t).b
       IN IF to # "" /\ obj[l].ns # "inet" /\ ~Reachable(Addr(to))
          THEN Do(t, Fail(Me(t), "ECONNREFUSED")) /\ UNCHANGED obj
          ELSE /\ SetObj(l, [obj[l] EXCEPT !.peer = to, !.q = IF obj[l].peer # "" /\ to = "" THEN <<>> ELSE @])
               /\ Do(t, Return(Me(t), 0))

\* Descriptors travel with a message; a process cannot claim another's PID.
sendmsgs(t) ==
    /\ At(t, "sendmsg")
    /\ LET e == Arg(t, Ins(t).a)
           m == Arg(t, Ins(t).b)
           cred == IF m[2] = 0 THEN t ELSE m[2]
       IN \/ /\ cred = t /\ Range(Ins(t).c) \subseteq Me(t).fds
             /\ SetObj(e[1], [obj[e[1]] EXCEPT ![Peer(e)[2]] = Append(@, <<m[1], cred>>), !.fly = @ \o Ins(t).c])
             /\ Do(t, Return(Me(t), 1))
          \/ /\ cred # t \/ ~(Range(Ins(t).c) \subseteq Me(t).fds)
             /\ Do(t, Fail(Me(t), IF cred # t THEN "EPERM" ELSE "EBADF")) /\ UNCHANGED obj

\* x: data, PID and descriptors; those there is no room for are closed.
recvmsgs(t) ==
    /\ At(t, "recvmsg")
    /\ LET e == Arg(t, Ins(t).a)
           o == obj[e[1]]
           got == SubSeq(o.fly, 1, IF Len(o.fly) < Ins(t).c THEN Len(o.fly) ELSE Ins(t).c)
       IN \/ /\ o[e[2]] # <<>>
             /\ SetObj(e[1], [o EXCEPT ![e[2]] = Tail(@), !.fly = <<>>])
             /\ Do(t, ReturnIn([Me(t) EXCEPT !.fds = @ \cup Range(got)], Ins(t).b, Append(Head(o[e[2]]), got), 1))
          \/ o[e[2]] = <<>> /\ Eof(e) /\ Do(t, Return(Me(t), 0)) /\ UNCHANGED obj

-----------------------------------------------------------------------------
(* Names in the file system *)

creates(t) ==
    \/ At(t, "creat") /\ SetObj(Ins(t).a, Ins(t).c) /\ Do(t, Return(Me(t), 0))
    \/ /\ At(t, "create")
       /\ LET f == Ins(t).a IN
        \/ Exists(f) /\ Ins(t).b /\ Do(t, Fail(Me(t), "EEXIST")) /\ UNCHANGED obj
        \/ Exists(f) /\ ~Ins(t).b /\ Do(t, Return(Me(t), 0)) /\ UNCHANGED obj
        \/ ~Exists(f) /\ SetObj(f, Ins(t).c) /\ Do(t, Return(Me(t), 0))

\* Only the session the system starts with has a controlling terminal.
opensTty(t) ==
    /\ At(t, "open_tty")
    /\ Do(t, IF Me(t).sid = 99 THEN Return(Me(t), 0) ELSE Fail(Me(t), "ENXIO"))
    /\ UNCHANGED obj

opens(t) ==
    /\ At(t, "open")
    /\ Do(t, IF Exists(Ins(t).a) THEN Return(Me(t), 0) ELSE Fail(Me(t), "ENOENT"))
    /\ UNCHANGED obj

\* A write at an offset replaces what is there, or extends the file.
fwrites(t) ==
    /\ At(t, "fwrite")
    /\ LET f == Ins(t).a
           e == Arg(t, Ins(t).b)
           x == obj[f].x
           at == IF e = -1 THEN Len(x) ELSE e
       IN SetObj(f, [obj[f] EXCEPT !.x = [j \in 1..(IF at < Len(x) THEN Len(x) ELSE at + 1) |->
                        IF j = at + 1 THEN Arg(t, Ins(t).c) ELSE IF j <= Len(x) THEN x[j] ELSE 0]])
    /\ Do(t, Return(Me(t), 1))

unlinks(t) ==
    /\ At(t, "unlink")
    /\ IF Exists(Ins(t).a)
       THEN /\ SetObj(Ins(t).a, ("unlinked" :> TRUE) @@ obj[Ins(t).a])
            /\ Do(t, Return(Me(t), 0))
       ELSE Do(t, Fail(Me(t), "ENOENT")) /\ UNCHANGED obj

-----------------------------------------------------------------------------
(* Record locks: the set of [t, b, w], task, byte, and for writing or not *)

InTheWay(t) ==
    LET l == Arg(t, Ins(t).b) IN
    {h \in obj[Ins(t).a].held : h.t # t /\ h.b \in l[2] /\ (h.w \/ l[1] = "w") /\ l[1] # "u"}

\* Whom t, if it waits, waits for, directly or through others that wait
WaitsFor(t) == {h.t : h \in InTheWay(t)}
RECURSIVE Behind(_, _)
Behind(S, n) ==
    IF n = 0 THEN S
    ELSE Behind(S \cup UNION {WaitsFor(u) : u \in {u \in S : At(u, "setlk") /\ task[u].slp}}, n - 1)
Deadlocked(t) == Ins(t).c = "wait" /\ t \in Behind(WaitsFor(t), Cardinality(Tasks))

setlks(t) ==
    /\ At(t, "setlk")
    /\ LET f == Ins(t).a
           l == Arg(t, Ins(t).b)
           others == {h \in obj[f].held : h.t # t \/ h.b \notin l[2]}
           mine == IF l[1] = "u" THEN {} ELSE {[t |-> t, b |-> b, w |-> l[1] = "w"] : b \in l[2]}
       IN \/ /\ InTheWay(t) = {}
             /\ SetObj(f, [obj[f] EXCEPT !.held = others \cup mine])
             /\ Do(t, Return(Me(t), 0))
          \/ /\ InTheWay(t) # {} /\ Ins(t).c = ""
             /\ Do(t, Fail(Me(t), "EAGAIN")) /\ UNCHANGED obj
          \/ /\ InTheWay(t) # {} /\ ~Me(t).slp /\ Deadlocked(t)
             /\ Do(t, Fail(Me(t), "EDEADLK")) /\ UNCHANGED obj

\* x: the task of a lock in the way, 0 if there is none
getlks(t) ==
    /\ At(t, "getlk")
    /\ \/ \E h \in InTheWay(t) : Do(t, ReturnIn(Me(t), Ins(t).c, h.t, 0))
       \/ InTheWay(t) = {} /\ Do(t, ReturnIn(Me(t), Ins(t).c, 0, 0))
    /\ UNCHANGED obj
=============================================================================

------------------------------- MODULE Kernel -------------------------------
(***************************************************************************)
(* The system calls of Syscalls, one action each, over the tasks of        *)
(* KernelTasks and the objects obj: pipes, sockets, locks, semaphores,     *)
(* queues and files.                                                       *)
(***************************************************************************)
EXTENDS KernelIo

-----------------------------------------------------------------------------
(* Processes *)

Init ==
    /\ system \in DOMAIN Boot
    /\ \E b \in {Boot[system]}, library \in {Library} :
        /\ machine = [code |-> [f \in Linked(library, Commands \cup {b.tasks[t].f : t \in DOMAIN b.tasks}) |-> library[f]],
                       n |-> b.n]
        /\ obj = b.objs
        /\ task = [t \in Tasks |->
                     IF t \notin DOMAIN b.tasks THEN Free
                     ELSE [Free EXCEPT !.st = "run", !.due = TRUE, !.pg = t, !.sid = 99, !.tg = t, !.mg = t, !.fg = t,
                                      !.sg = t, !.f = b.tasks[t].f, !.i = 1,
                                      !.l = [ret |-> 0, errno |-> "OK"],
                                      !.v = b.tasks[t].v, !.fds = b.tasks[t].fds]]

exits(t) ==
    /\ At(t, "exit")
    /\ task' = Exit(task, t, <<"exit", Arg(t, Ins(t).a)>>)
    /\ obj' = Released(task')

NewTask(t) == [Me(t) EXCEPT !.pend = <<>>, !.tm = <<>>, !.pd = "", !.pt = t, !.sub = FALSE, !.xs = "CHLD", !.out = <<>>, !.slp = FALSE]

\* The child returns 0 from the call, the parent the ID of the child.  A child
\* that shares memory (due) takes its first steps on its own.
ForkTo(t, c, child) ==
    task' = [Put(task, t, Return(Me(t), c)) EXCEPT ![c] = IF child.due THEN child ELSE Run(child)]
resumes(t) ==
    /\ Me(t).st = "run" /\ Me(t).due /\ Deliverable(Me(t)) = {}
    /\ Do(t, Resume(Me(t)))
    /\ UNCHANGED obj

forks(t) ==
    /\ At(t, "fork")
    /\ \/ /\ Unborn # {}
          /\ ForkTo(t, Newest, [NewTask(t) EXCEPT
                !.par = Me(t).tg, !.tg = Newest, !.mg = Newest, !.fg = Newest, !.sg = Newest,
                !.i = @ + 1, !.l = ("ret" :> 0) @@ @])
       \/ /\ Unborn = {}
          /\ Do(t, Fail(Me(t), "EAGAIN"))
    /\ UNCHANGED obj

\* vfork(): the child borrows the memory, the parent waits until it is given back.
vforks(t) ==
    /\ At(t, "vfork") /\ ~Me(t).slp
    /\ task' = [task EXCEPT ![t].slp = TRUE, ![t].l = ("ret" :> Newest) @@ @,
                            ![Newest] = [NewTask(t) EXCEPT !.par = Me(t).tg, !.tg = Newest, !.fg = Newest, !.due = TRUE,
                                                !.sg = Newest, !.i = @ + 1, !.l = ("ret" :> 0) @@ @]]
    /\ UNCHANGED obj

BorrowedBack(t) == LET c == Me(t).l["ret"] IN ~Alive(task[c]) \/ task[c].mg # Me(t).mg

vforkDone(t) ==
    /\ At(t, "vfork") /\ Me(t).slp
    /\ BorrowedBack(t)
    /\ Do(t, Return(Me(t), Me(t).l["ret"]))
    /\ UNCHANGED obj

\* clone(): a child that starts in a function and shares what the flags say.
clones(t) ==
    /\ At(t, "clone") /\ Unborn # {}
    /\ LET flags == Arg(t, Ins(t).a)
           shared(flag, g) == IF flag \in flags THEN g ELSE Newest
       IN ForkTo(t, Newest, [NewTask(t) EXCEPT !.par = Me(t).tg, !.tg = Newest, !.mg = shared("VM", @),
                !.fg = shared("FILES", @), !.sg = shared("SIGHAND", @), !.xs = Ins(t).b,
                !.f = Ins(t).c, !.i = 1, !.stk = <<>>, !.due = "VM" \in flags])
    /\ UNCHANGED obj

\* execve(): caught signals go back to the default, the memory is new.
execs(t) ==
    /\ At(t, "execve")
    /\ Do(t, IF Arg(t, Ins(t).a) \in DOMAIN Code
             THEN Resume([Me(t) EXCEPT !.f = Arg(t, Ins(t).a), !.i = 1, !.stk = <<>>, !.mg = t, !.sg = t,
                    !.fg = t, !.fds = @ \ Me(t).cx, !.cx = {},
                    !.disp = [s \in {s \in DOMAIN @ : @[s].h = "IGN"} |-> @[s]]])
             ELSE Fail(Me(t), "ENOENT"))
    /\ UNCHANGED obj

\* Children a wait() could report on, and those it can report on now
Waitable(t) ==
    LET e == Arg(t, Ins(t).a) IN
    {c \in Child(task, Me(t).tg) : e \in {-1, c} /\ (task[c].xs = "CHLD" \/ "CLONE" \in Ins(t).b)}
Reportable(t) ==
    {c \in Waitable(t) : \/ task[c].st = "zombie"
                         \/ task[c].rep = "stopped" /\ "UNTRACED" \in Ins(t).b
                         \/ task[c].rep = "continued" /\ "CONTINUED" \in Ins(t).b}

waits(t) ==
    /\ At(t, "wait")
    /\ \/ \E c \in Reportable(t) :
            LET dead == task[c].st = "zombie"
                ws == IF dead THEN task[c].ws ELSE <<"job", task[c].rep>>
            IN task' = [Put(task, t, ReturnIn(Me(t), "status", ws, c)) EXCEPT
                            ![c].st = IF dead THEN "gone" ELSE @, ![c].rep = ""]
       \/ Waitable(t) = {} /\ Do(t, Fail(Me(t), "ECHILD"))
       \/ Waitable(t) # {} /\ Reportable(t) = {} /\ "NOHANG" \in Ins(t).b /\ Do(t, Return(Me(t), 0))
    /\ UNCHANGED obj

setpgids(t) ==
    /\ At(t, "setpgid")
    /\ LET c == Arg(t, Ins(t).a)
           u == IF c = 0 THEN t ELSE c
       IN task' = [Put(task, t, Return(Me(t), 0)) EXCEPT ![u].pg = u]
    /\ UNCHANGED obj

setsids(t) ==
    /\ At(t, "setsid")
    /\ Do(t, IF Me(t).pg = t THEN Fail(Me(t), "EPERM")
             ELSE Return([Me(t) EXCEPT !.pg = t, !.sid = t], t))
    /\ UNCHANGED obj

InitPid == 99
getppids(t) ==
    /\ At(t, "getppid")
    /\ Do(t, Return(Me(t), IF Me(t).par = 0 THEN InitPid ELSE Me(t).par))
    /\ UNCHANGED obj
getpids(t)  == At(t, "getpid") /\ Do(t, Return(Me(t), Me(t).tg)) /\ UNCHANGED obj
yields(t)   == At(t, "yield") /\ Do(t, Return(Me(t), 0)) /\ UNCHANGED obj
subreapers(t) == At(t, "subreaper") /\ Do(t, Return([Me(t) EXCEPT !.sub = TRUE], 0)) /\ UNCHANGED obj
pdeathsigs(t) == At(t, "pdeathsig") /\ Do(t, Return([Me(t) EXCEPT !.pd = Ins(t).a], 0)) /\ UNCHANGED obj

pthreadCreates(t) ==
    /\ At(t, "pthread_create") /\ Unborn # {}
    /\ task' = [Put(task, t, ReturnIn(Me(t), "tid", Newest, 0)) EXCEPT
                    ![Newest] = Thread(Me(t), Ins(t).a, Arg(t, Ins(t).b))]
    /\ UNCHANGED obj

pthreadJoins(t) ==
    /\ At(t, "pthread_join") /\ ~Alive(task[Arg(t, Ins(t).a)])
    /\ Do(t, Return(Me(t), 0))
    /\ UNCHANGED obj

pthreadExits(t) ==
    /\ At(t, "pthread_exit")
    /\ LET others == {u \in Tasks \ {t} : Alive(task[u]) /\ task[u].tg = Me(t).tg} IN
        task' = IF others = {} THEN Exit(task, t, <<"exit", 0>>)
                ELSE [u \in Tasks |->
                        IF u = t THEN [Me(t) EXCEPT !.st = "gone"]
                        ELSE IF u \in Child(task, Me(t).tg) /\ task[u].pt = t
                             THEN Bereft(task[u], CHOOSE o \in others : TRUE)
                        ELSE task[u]]
    /\ obj' = Released(task')

-----------------------------------------------------------------------------
(* Signals *)

sigactions(t) ==
    /\ At(t, "sigaction")
    /\ LET s == Ins(t).a
           new == Arg(t, Ins(t).b)
           r == [Me(t) EXCEPT !.disp = IF new.h = "" THEN @ ELSE (s :> new) @@ @,
                              !.pend = IF new.h = "IGN" \/ (new.h = "DFL" /\ s \in Ignored)
                                       THEN Without(@, {s}) ELSE @]
       IN Do(t, IF Ins(t).c = "" THEN Return(r, 0) ELSE ReturnIn(r, Ins(t).c, Disp(Me(t), s), 0))
    /\ UNCHANGED obj

sigprocmasks(t) ==
    /\ At(t, "sigprocmask")
    /\ LET m == Arg(t, Ins(t).b)
           r == [Me(t) EXCEPT !.mask = CASE Ins(t).a = "BLOCK" -> @ \cup m
                                         [] Ins(t).a = "UNBLOCK" -> @ \ m
                                         [] Ins(t).a = "SETMASK" -> m]
       IN Do(t, IF Ins(t).c = "" THEN Return(r, 0) ELSE ReturnIn(r, Ins(t).c, Me(t).mask, 0))
    /\ UNCHANGED obj

sigpendings(t) ==
    /\ At(t, "sigpending")
    /\ Do(t, ReturnIn(Me(t), Ins(t).a, {Me(t).pend[k].s : k \in DOMAIN Me(t).pend}, 0))
    /\ UNCHANGED obj

Leaders == {u \in Tasks : task[u].tg = u /\ task[u].st \in {"run", "stop", "zombie"}}

kills(t) ==
    /\ At(t, "kill")
    /\ LET e == Arg(t, Ins(t).a)
           to == {u \in Leaders : \/ e > 0 /\ u = e
                                  \/ e = 0 /\ task[u].pg = Me(t).pg
                                  \/ e < 0 /\ task[u].pg = -e}
           T == [u \in Tasks |-> IF u \in to /\ Ins(t).b # "0" THEN Post(task[u], Ins(t).b, Arg(t, Ins(t).c)) ELSE task[u]]
       IN IF to = {} THEN Do(t, Fail(Me(t), IF e = InitPid THEN "EPERM" ELSE "ESRCH")) ELSE task' = Put(T, t, Return(T[t], 0))
    /\ UNCHANGED obj

\* An instruction faults: the signal cannot be held back, and the instruction
\* is executed again after the handler; c: what the handler must run on.
faults(t) ==
    /\ At(t, "fault")
    /\ LET s == Ins(t).a
           a == Disp(Me(t), s)
       IN task' = IF s \in Me(t).mask \/ a.h = "IGN" \/ ~(Ins(t).b \subseteq a.fl)
                  THEN Exit(task, t, <<"sig", s>>)
                  ELSE [task EXCEPT ![t] = [Post(@, s, 0) EXCEPT !.due = TRUE]]
    /\ obj' = Released(task')

raises(t) == At(t, "raise") /\ Do(t, Return(Post(Me(t), Ins(t).a, 0), 0)) /\ UNCHANGED obj

Awaited(t) == {k \in DOMAIN Me(t).pend : Me(t).pend[k].s \in Ins(t).a}

sigwaits(t) ==
    /\ At(t, "sigwait")
    /\ \E k \in Awaited(t) :
        /\ \A j \in Awaited(t) : k <= j
        /\ Do(t, ReturnIn([Me(t) EXCEPT !.pend = [j \in 1..Len(@) - 1 |-> IF j < k THEN @[j] ELSE @[j + 1]]],
                          Ins(t).b, Me(t).pend[k], 1))
    /\ UNCHANGED obj

timers(t) ==
    /\ At(t, "timer")
    /\ Do(t, Return([Me(t) EXCEPT !.tm = (Ins(t).a :> [n |-> Ins(t).b, h |-> Ins(t).c]) @@ @], 0))
    /\ UNCHANGED obj
sleeps(t) == At(t, "sleep") /\ Me(t).slp /\ Do(t, Return(Me(t), 0)) /\ UNCHANGED obj

-----------------------------------------------------------------------------
(* Shared memory, semaphores, mutexes, condition variables, POSIX message  *)
(* queues and files                                                        *)

loads(t)  == At(t, "load") /\ Do(t, ReturnIn(Me(t), Ins(t).b, obj[Ins(t).a].x, 0)) /\ UNCHANGED obj
stores(t) == /\ At(t, "store")
             /\ SetObj(Ins(t).a, [obj[Ins(t).a] EXCEPT !.x = Arg(t, Ins(t).b)])
             /\ Do(t, Return(Me(t), 0))

\* A System V semaphore ends with its removal, a POSIX one with its last user.
SemRemoved(t) == Ins(t).c = "sv" /\ ~Exists(Ins(t).a)

\* semop(): a decrease waits until the value is large enough, 0 until it is 0.
SemReady(t) ==
    LET n == Arg(t, Ins(t).b)
        x == obj[Ins(t).a].x
    IN ~SemRemoved(t) /\ IF n = 0 THEN x = 0 ELSE x + n >= 0

semops(t) ==
    /\ At(t, "semop")
    /\ \/ /\ SemReady(t)
          /\ SetObj(Ins(t).a, [obj[Ins(t).a] EXCEPT !.x = @ + Arg(t, Ins(t).b)])
          /\ Do(t, Return(Me(t), 0))
       \/ ~SemReady(t) /\ Ins(t).c = "nowait" /\ Do(t, Fail(Me(t), "EAGAIN")) /\ UNCHANGED obj
       \/ Ins(t).c = "timed" /\ Me(t).slp /\ Do(t, Fail(Me(t), "ETIMEDOUT")) /\ UNCHANGED obj
       \/ SemRemoved(t) /\ Do(t, Fail(Me(t), "EIDRM")) /\ UNCHANGED obj

MutexFree(m) == obj[m].owner = 0

locks(t) ==
    /\ At(t, "lock")
    /\ MutexFree(Ins(t).a)
    /\ SetObj(Ins(t).a, [obj[Ins(t).a] EXCEPT !.owner = t])
    /\ Do(t, Return(Me(t), 0))

unlocks(t) ==
    /\ At(t, "unlock")
    /\ SetObj(Ins(t).a, [obj[Ins(t).a] EXCEPT !.owner = IF @ = t THEN 0 ELSE @])
    /\ Do(t, Return(Me(t), 0))

Waits(t, c) == \E k \in DOMAIN obj[c].q : obj[c].q[k] = t

\* cond_wait(): gives the mutex away and joins the queue in one step; once
\* out of the queue it takes the mutex again.
condWaits(t) ==
    /\ At(t, "cond_wait")
    /\ LET c == Ins(t).a
           m == Ins(t).b
       IN \/ /\ ~Me(t).slp
             /\ obj' = (c :> [obj[c] EXCEPT !.q = Append(@, t)]) @@ (m :> [obj[m] EXCEPT !.owner = 0]) @@ obj
             /\ task' = [task EXCEPT ![t].slp = TRUE]
          \/ /\ Me(t).slp /\ ~Waits(t, c) /\ MutexFree(m)
             /\ SetObj(m, [obj[m] EXCEPT !.owner = t])
             /\ Do(t, Return(Me(t), 0))

condSignals(t) ==
    /\ At(t, "cond_signal")
    /\ LET c == Ins(t).a IN SetObj(c, [obj[c] EXCEPT !.q = IF @ = <<>> THEN @ ELSE Tail(@)])
    /\ Do(t, Return(Me(t), 0))

\* The message goes behind those of its priority or a higher one.  On an
\* empty queue it uses up the registration for a notification.
mqSends(t) ==
    /\ At(t, "mq_send")
    /\ LET q == Ins(t).a
           m == Arg(t, Ins(t).b)
           old == obj[q].q
           k == CHOOSE n \in 0..Len(old) : /\ \A j \in 1..n : old[j][1] >= m[1]
                                           /\ \A j \in n + 1..Len(old) : old[j][1] < m[1]
           own == obj[q].owner
           tell == old = <<>> /\ own # 0
           how == obj[q].how
           T == Put(task, t, Return(Me(t), 0))
       IN \/ /\ Len(old) = PipeCap /\ Ins(t).c
             /\ Do(t, Fail(Me(t), "EAGAIN")) /\ UNCHANGED obj
          \/ /\ Len(old) < PipeCap
             /\ SetObj(q, [obj[q] EXCEPT !.q = SubSeq(old, 1, k) \o <<m>> \o SubSeq(old, k + 1, Len(old)),
                                         !.owner = IF tell THEN 0 ELSE @])
             /\ task' = IF ~tell THEN T
                        ELSE IF how \in DOMAIN Code THEN [T EXCEPT ![Newest] = Thread(T[own], how, 0)]
                        ELSE [T EXCEPT ![own] = Post(@, how, 0)]

mqNotifies(t) ==
    /\ At(t, "mq_notify")
    /\ LET q == Ins(t).a
           busy == obj[q].owner # 0
       IN /\ obj' = IF busy THEN obj ELSE [obj EXCEPT ![q].owner = Me(t).tg, ![q].how = Ins(t).b]
          /\ Do(t, IF busy THEN Fail(Me(t), "EBUSY") ELSE Return(Me(t), 0))

mqReceives(t) ==
    /\ At(t, "mq_receive")
    /\ LET q == Ins(t).a IN
        \/ /\ obj[q].q # <<>>
           /\ SetObj(q, [obj[q] EXCEPT !.q = Tail(@)])
           /\ Do(t, ReturnIn(Me(t), Ins(t).b, Head(obj[q].q), 1))
        \/ obj[q].q = <<>> /\ Ins(t).c /\ Do(t, Fail(Me(t), "EAGAIN")) /\ UNCHANGED obj

\* System V queues.  A message is picked by its type: the first one, the first
\* of a type, of any other (EXCEPT), or of the lowest type up to a limit.
Selected(q, sel) ==
    LET k == sel.type
        ok == {j \in DOMAIN q : \/ k = 0
                                \/ k > 0 /\ (q[j][1] = k) = ("EXCEPT" \notin sel.flags)
                                \/ k < 0 /\ q[j][1] <= -k /\ \A i \in DOMAIN q : q[i][1] >= q[j][1]}
    IN {j \in ok : \A i \in ok : j <= i}

msgSends(t) ==
    /\ At(t, "msgsnd")
    /\ LET q == Ins(t).a IN
        \/ /\ Exists(q) /\ Len(obj[q].q) < PipeCap
           /\ SetObj(q, [obj[q] EXCEPT !.q = Append(@, Arg(t, Ins(t).b))])
           /\ Do(t, Return(Me(t), 0))
        \/ Exists(q) /\ Len(obj[q].q) = PipeCap /\ Ins(t).c /\ Do(t, Fail(Me(t), "EAGAIN")) /\ UNCHANGED obj
        \/ ~Exists(q) /\ Do(t, Fail(Me(t), "EIDRM")) /\ UNCHANGED obj

msgReceives(t) ==
    /\ At(t, "msgrcv")
    /\ LET q == Ins(t).a
           S == Selected(obj[q].q, Ins(t).c)
       IN \/ \E k \in S : /\ Exists(q)
                          /\ SetObj(q, [obj[q] EXCEPT !.q = SubSeq(@, 1, k - 1) \o SubSeq(@, k + 1, Len(@))])
                          /\ Do(t, ReturnIn(Me(t), Ins(t).b, obj[q].q[k], 1))
          \/ Exists(q) /\ S = {} /\ "NOWAIT" \in Ins(t).c.flags /\ Do(t, Fail(Me(t), "ENOMSG")) /\ UNCHANGED obj
          \/ ~Exists(q) /\ Do(t, Fail(Me(t), "EIDRM")) /\ UNCHANGED obj

\* seccomp: the caller waits until the supervisor has answered its notification,
\* or has closed the descriptor.  A signal takes the notification back.
Outstanding(o, id) ==
    LET n == obj[o] IN n.id = id /\ n.st \in {"new", "received"} /\ At(n.t, "notified") /\ task[n.t].slp

notifies(t) ==
    /\ At(t, "notified")
    /\ LET o == Ins(t).a
           n == obj[o]
       IN \/ /\ ~Me(t).slp /\ Open(Addr(o))
             /\ SetObj(o, [n EXCEPT !.st = "new", !.id = @ + 1, !.t = t, !.x = Arg(t, Ins(t).b)])
             /\ task' = [task EXCEPT ![t].slp = TRUE]
          \/ Me(t).slp /\ n.st = "answered" /\ Do(t, IF n.x[1] = -1 THEN Fail(Me(t), n.x[2]) ELSE Return(Me(t), n.x[1])) /\ UNCHANGED obj
          \/ ~Open(Addr(o)) /\ (Me(t).slp => n.st # "answered") /\ Do(t, Fail(Me(t), "ENOSYS")) /\ UNCHANGED obj

notifRecvs(t) ==
    /\ At(t, "notif_recv")
    /\ LET o == Arg(t, Ins(t).a)[1] IN
        /\ obj[o].st = "new" /\ Outstanding(o, obj[o].id)
        /\ SetObj(o, [obj[o] EXCEPT !.st = "received"])
        /\ Do(t, ReturnIn(Me(t), Ins(t).b, <<obj[o].id, obj[o].x>>, 0))

notifValids(t) ==
    /\ At(t, "notif_valid")
    /\ Do(t, IF Outstanding(Arg(t, Ins(t).a)[1], Arg(t, Ins(t).b)) THEN Return(Me(t), 0) ELSE Fail(Me(t), "ENOENT"))
    /\ UNCHANGED obj

notifSends(t) ==
    /\ At(t, "notif_send")
    /\ LET o == Arg(t, Ins(t).a)[1]
           d == Arg(t, Ins(t).b)
       IN IF Outstanding(o, d[1])
          THEN SetObj(o, [obj[o] EXCEPT !.st = "answered", !.x = d[2]]) /\ Do(t, Return(Me(t), 0))
          ELSE Do(t, Fail(Me(t), "ENOENT")) /\ UNCHANGED obj

-----------------------------------------------------------------------------
(* Calls that have to wait *)

Completes(t) ==
    LET c == Ins(t) IN
    CASE c.op \in {"pause", "sleep", "sigsuspend"} -> FALSE
      [] c.op = "vfork" -> Me(t).slp => BorrowedBack(t)
      [] c.op = "cond_wait" -> Me(t).slp => ~Waits(t, c.a) /\ MutexFree(c.b)
      [] c.op = "wait" -> Reportable(t) # {} \/ Waitable(t) = {} \/ "NOHANG" \in c.b
      [] c.op = "pthread_join" -> ~Alive(task[Arg(t, c.a)])
      [] c.op = "sigwait" -> Awaited(t) # {}
      [] c.op = "read" -> Arg(t, c.a) \notin Me(t).fds \/ Readable(Arg(t, c.a)) \/ c.c
      [] c.op = "write" -> Arg(t, c.a) \notin Me(t).fds \/ Writable(Arg(t, c.a)) \/ c.c
      [] c.op = "writev" -> ~Open(Peer(Arg(t, c.a))) \/ Room(Arg(t, c.a), Len(Arg(t, c.b)))
      [] c.op = "select" -> ReadyEnds(t) # {} \/ c.c = "poll"
      [] c.op = "epoll_wait" -> EpollEvents(c.a) # {}
      [] c.op = "accept" -> obj[Arg(t, c.a)[1]].q # <<>>
      [] c.op = "connect" -> Listening(Arg(t, c.a)) => Backlog(Arg(t, c.a))
      [] c.op = "sendto" -> LET e == Arg(t, c.a) to == Arg(t, c.b) IN
                            obj[e[1]].ns = "inet" \/ ~(Reachable(to) /\ Welcome(e, to)) \/ Backlog(to)
      [] c.op = "recvfrom" -> obj[Arg(t, c.a)[1]].q # <<>> \/ c.c
      [] c.op = "recvmsg" -> Readable(Arg(t, c.a))
      [] c.op = "setlk" -> InTheWay(t) = {} \/ c.c = "" \/ (~Me(t).slp /\ Deadlocked(t))
      [] c.op = "semop" -> SemReady(t) \/ c.c = "nowait" \/ SemRemoved(t)
      [] c.op = "msgsnd" -> ~Exists(c.a) \/ Len(obj[c.a].q) < PipeCap \/ c.c
      [] c.op = "msgrcv" -> ~Exists(c.a) \/ Selected(obj[c.a].q, c.c) # {} \/ "NOWAIT" \in c.c.flags
      [] c.op = "notified" -> Me(t).slp => obj[c.a].st = "answered" \/ ~Open(Addr(c.a))
      [] c.op = "notif_recv" -> LET o == Arg(t, c.a)[1] IN obj[o].st = "new" /\ Outstanding(o, obj[o].id)
      [] c.op = "lock" -> MutexFree(c.a)
      [] c.op = "mq_send" -> Len(obj[c.a].q) < PipeCap \/ c.c
      [] c.op = "mq_receive" -> obj[c.a].q # <<>> \/ c.c
      [] OTHER -> TRUE

blocks(t) ==
    /\ task[t].st = "run" /\ ~Me(t).due /\ ~Me(t).slp /\ ~Completes(t)
    /\ task' = IF Ins(t).op = "sigsuspend"
               THEN [task EXCEPT ![t].slp = TRUE, ![t].old = Me(t).mask, ![t].mask = Arg(t, Ins(t).a)]
               ELSE [task EXCEPT ![t].slp = TRUE]
    /\ UNCHANGED obj

\* A signal interrupts a call that is still waiting.
delivers(t) ==
    /\ Me(t).slp => ~Completes(t) /\ Ins(t).op \notin {"vfork", "cond_wait"}
    /\ Deliver(t)

\* AtRest(t): no step of t changes anything unless others do something, that is
\* ~ENABLED <<Step(t) \/ Tick(t)>>_vars.
TimesOut(t) ==
    /\ Me(t).slp
    /\ \/ Ins(t).op = "sleep"
       \/ Ins(t).op \in {"select", "semop"} /\ Ins(t).c = "timed"
Asleep(t) == /\ Me(t).slp /\ ~Completes(t) /\ ~TimesOut(t)
             /\ Deliverable(Me(t)) = {} \/ Ins(t).op \in {"vfork", "cond_wait"}
\* A loop without a system call that changes nothing, until a signal comes
Spins(t) == At(t, "yield") /\ Deliverable(Me(t)) = {} /\ Return(Me(t), 0) = Me(t)
TimersRest(t) == \A id \in DOMAIN Me(t).tm :
                    Me(t).tm[id].n = 0 \/ (BySignal(Me(t).tm[id].h) /\ Overrun(Counted(t, id), id) = Me(t))
AtRest(t) ==
    CASE Me(t).st = "run"  -> (Asleep(t) \/ Spins(t)) /\ TimersRest(t)
      [] Me(t).st = "stop" -> (~\E k \in Deliverable(Me(t)) : Me(t).pend[k].s = "KILL") /\ TimersRest(t)
      [] OTHER -> TRUE
Quiet == \A t \in Tasks : AtRest(t)

ProcessCall(t) == \/ exits(t) \/ forks(t) \/ vforks(t) \/ vforkDone(t) \/ clones(t) \/ execs(t) \/ waits(t)
                  \/ setpgids(t) \/ setsids(t) \/ getppids(t) \/ getpids(t) \/ yields(t) \/ pdeathsigs(t) \/ subreapers(t)
                  \/ pthreadCreates(t) \/ pthreadJoins(t) \/ pthreadExits(t) \/ resumes(t)
SignalCall(t)  == \/ sigactions(t) \/ sigprocmasks(t) \/ sigpendings(t) \/ kills(t) \/ raises(t) \/ faults(t) \/ sigwaits(t)
                  \/ timers(t) \/ sleeps(t) \/ sigreturn(t)
FileCall(t)    == \/ makes(t) \/ opensPt(t) \/ fwrites(t) \/ reads(t) \/ writes(t) \/ writevs(t) \/ asyncs(t) \/ epollCtls(t) \/ epollWaits(t) \/ opensTty(t)
                  \/ tcsetattrs(t) \/ closes(t) \/ cloexecs(t) \/ shutdowns(t) \/ selects(t)
                  \/ sockets(t) \/ binds(t) \/ listens(t) \/ connects(t) \/ accepts(t) \/ sendtos(t) \/ recvfroms(t)
                  \/ dconnects(t) \/ sendmsgs(t) \/ recvmsgs(t) \/ setlks(t) \/ getlks(t) \/ closealls(t) \/ creates(t) \/ opens(t) \/ unlinks(t)
IpcCall(t)     == \/ loads(t) \/ stores(t) \/ semops(t) \/ locks(t) \/ unlocks(t) \/ condWaits(t)
                  \/ condSignals(t) \/ mqSends(t) \/ mqNotifies(t) \/ mqReceives(t)
                  \/ msgSends(t) \/ msgReceives(t) \/ notifies(t) \/ notifRecvs(t) \/ notifValids(t) \/ notifSends(t)

Step(t) == (ProcessCall(t) \/ SignalCall(t) \/ FileCall(t) \/ IpcCall(t) \/ blocks(t) \/ delivers(t))
           /\ UNCHANGED <<system, machine>>
Tick(t) == (\E id \in DOMAIN task[t].tm : Expire(t, id)) /\ UNCHANGED <<system, machine>>

Next == \E t \in Tasks : Step(t) \/ Tick(t)

\* The scheduler runs every task that can run, and every timer expires: unless
\* all comes to rest, a task infinitely often is at rest or moves on.  A task
\* that keeps changing anything keeps changing its own state, so that this
\* follows from WF_vars(Step(t) \/ Tick(t)) for every t.  A task may spin for ever.
Fairness == <>[]Quiet \/ \A t \in Tasks : []<><<AtRest(t) \/ task'[t] # task[t]>>_vars

Spec == Init /\ [][Next]_vars /\ Fairness

=============================================================================

----------------------------- MODULE KernelTasks -----------------------------
(***************************************************************************)
(* Processes, threads, signals and timers of the Linux kernel, as the      *)
(* programs of the repository use them; nothing here is code of the        *)
(* repository.  A task executes the calls of a function of Code.           *)
(*                                                                         *)
(* Statements that stay inside a process are executed together with the    *)
(* system call before them.  A call that cannot complete puts the task to  *)
(* sleep (slp) until it can, or until a signal interrupts it.  A signal    *)
(* can be delivered at every moment; on return from a system call of the   *)
(* task itself it is delivered at once (due).                              *)
(***************************************************************************)
EXTENDS Syscalls, FiniteSets, TLC

CONSTANTS Library,      \* all functions: name -> sequence of calls
          Tasks,        \* process and thread IDs
          Boot,         \* the systems: name -> [tasks, objs, n], what runs at the start
          Commands      \* functions that every system has

VARIABLES system,       \* a name of Boot
          machine,      \* what it never changes: its programs, and how many processes it may have
          task, obj

vars == <<system, machine, task, obj>>

Code == machine.code

\* The functions that a call of a program names, and with those they name the
\* functions a system has
Named(c) ==
    CASE c.op \in {"call", "pthread_create"} -> {c.a}
      [] c.op = "execve" /\ c.a[1] = "k" -> {c.a[2]}
      [] c.op \in {"clone", "timer"} -> {c.c}
      [] c.op = "sigaction" /\ c.b[1] = "k" -> {c.b[2].h}
      [] c.op = "mq_notify" -> {c.b}
      [] OTHER -> {}
RECURSIVE Linked(_, _)
Linked(library, F) ==
    LET named == UNION {UNION {Named(library[f][i]) : i \in DOMAIN library[f]} : f \in F}
    IN UNION {IF G = F THEN F ELSE Linked(library, G) : G \in {F \cup (named \cap DOMAIN library)}}

-----------------------------------------------------------------------------
(* A task.  par: parent; pg, sid: process group, session; tg: thread group;*)
(* mg, fg, sg: whose memory (v), descriptors (fds) and dispositions (disp) *)
(* it shares; f, i: where it is; stk: interrupted frames; l: its stack;    *)
(* ws, rep: status for wait(); xs: exit signal; pd: parent-death signal;   *)
(* pt: the thread that counts as the parent for it; sub: a subreaper;      *)
(* cx: close-on-exec descriptors; tm: its timers, id -> [n, h], the number *)
(* of expirations that are left and whom they notify.                      *)

Free == [st |-> "free", par |-> 0, pg |-> 0, sid |-> 0, tg |-> 0, mg |-> 0, fg |-> 0, sg |-> 0,
         f |-> "", i |-> 0, stk |-> <<>>, slp |-> FALSE, due |-> FALSE, v |-> <<>>, l |-> <<>>,
         out |-> <<>>, mask |-> {}, old |-> {}, pend |-> <<>>, disp |-> <<>>, fds |-> {},
         ws |-> <<>>, rep |-> "", xs |-> "CHLD", pd |-> "", pt |-> 0, sub |-> FALSE,
         cx |-> {}, tm |-> <<>>]

Alive(r) == r.st \in {"run", "stop"}
Child(T, t) == {u \in Tasks : T[u].par = t /\ T[u].st \in {"run", "stop", "zombie"}}

RECURSIVE Eval(_, _)
Eval(r, e) ==
    CASE e[1] = "k" -> e[2]
      [] e[1] = "v" -> IF e[2] \in DOMAIN r.l THEN r.l[e[2]] ELSE r.v[e[2]]
      [] e[1] = "plus" -> Eval(r, e[2]) + Eval(r, e[3])
      [] e[1] = "minus" -> Eval(r, e[2]) - Eval(r, e[3])
      [] e[1] = "fld" -> Eval(r, e[2])[e[3]]
      [] e[1] = "app" -> e[2][Eval(r, e[3])]
      [] e[1] = "app2" -> Eval(r, e[2])[Eval(r, e[3])]
      [] e[1] = "pair" -> <<Eval(r, e[2]), Eval(r, e[3])>>
      [] e[1] = "len" -> Len(Eval(r, e[2]))

Target(f, l) == CHOOSE i \in DOMAIN Code[f] : Code[f][i].op = "label" /\ Code[f][i].a = l

Deliverable(r) == {k \in DOMAIN r.pend : r.pend[k].s \notin r.mask \ {"KILL", "STOP"}}

\* From where it stands, the task runs to its next system call.
RECURSIVE Run(_)
Run(r) ==
    LET c == Code[r.f][r.i]
        x == Eval(r, c.a)
        y == Eval(r, c.b)
        top == r.stk[Len(r.stk)]
        To(f, l) == [r EXCEPT !.f = f, !.i = Target(f, l)]
        next == [r EXCEPT !.i = @ + 1]
    IN IF c.op \notin InProcess \/ (c.op = "return" /\ ~top.call) THEN r ELSE Run(
         CASE c.op = "label" -> next
           [] c.op = "goto" -> To(r.f, c.a)
           [] c.op = "set" -> [next EXCEPT !.v = (c.a :> y) @@ @]
           [] c.op = "let" -> [next EXCEPT !.l = (c.a :> y) @@ @]
           [] c.op = "when" -> IF x \in c.b THEN To(r.f, c.c) ELSE next
           [] c.op = "less" -> IF x < y THEN To(r.f, c.c) ELSE next
           [] c.op = "say" -> [next EXCEPT !.out = Append(@, x)]
           [] c.op = "call" -> [r EXCEPT !.f = c.a, !.i = 1, !.stk = Append(@, [f |-> r.f, i |-> r.i + 1, call |-> TRUE])]
           [] c.op = "return" -> [r EXCEPT !.f = top.f, !.i = top.i, !.stk = SubSeq(@, 1, Len(@) - 1)]
           [] c.op = "longjmp" -> [To(c.a, c.b) EXCEPT !.stk = <<>>, !.mask = IF c.c = "" THEN @ ELSE r.l[c.c]])

\* Back from the kernel, a task first handles the signals that are due.
Resume(r) == IF Deliverable(r) = {} THEN Run([r EXCEPT !.due = FALSE]) ELSE [r EXCEPT !.due = TRUE]

\* The call of r returns val, with errno err when it fails.
Fail(r, err) ==
    LET f == [r EXCEPT !.l = ("ret" :> -1) @@ ("errno" :> err) @@ @, !.slp = FALSE]
    IN Resume(IF Code[r.f][r.i].dies THEN [f EXCEPT !.f = "systmErr", !.i = 1] ELSE [f EXCEPT !.i = @ + 1])
Return(r, val) == Resume([r EXCEPT !.i = @ + 1, !.l = ("ret" :> val) @@ @, !.slp = FALSE])
ReturnIn(r, x, d, val) == Return([r EXCEPT !.l = (x :> d) @@ @], val)

\* t becomes r, and with it whatever other tasks share with it.
Put(T, t, r) ==
    [u \in Tasks |-> IF u = t THEN r
                     ELSE IF ~Alive(T[u]) THEN T[u]
                     ELSE [T[u] EXCEPT !.v = IF T[u].mg = r.mg THEN r.v ELSE @,
                                       !.fds = IF T[u].fg = r.fg THEN r.fds ELSE @,
                                       !.disp = IF T[u].sg = r.sg THEN r.disp ELSE @]]

-----------------------------------------------------------------------------
(* Signals *)

StopSignals == {"STOP", "TSTP", "TTIN", "TTOU"}
RealTime    == {"RTMIN", "RTMAX"}
Ignored     == {"CHLD", "CONT", "WINCH", "URG"}          \* by default

Disp(r, s) == IF s \in DOMAIN r.disp THEN r.disp[s] ELSE SIG_DFL
Ignores(r, s) == Disp(r, s).h = "IGN" \/ (Disp(r, s).h = "DFL" /\ s \in Ignored)

Without(q, S) == SelectSeq(q, LAMBDA e : e.s \notin S)

\* Signal s, with data d, is generated for r: queued if it is a realtime
\* signal, otherwise at most once; thrown away if it is ignored.
Post(r, s, d) ==
    LET c == IF s = "CONT"
             THEN [r EXCEPT !.st = "run", !.pend = Without(@, StopSignals),
                            !.rep = IF r.st = "stop" THEN "continued" ELSE @]
             ELSE IF s \in StopSignals THEN [r EXCEPT !.pend = Without(@, {"CONT"})] ELSE r
    IN IF ~Alive(r) THEN r
       ELSE IF s \notin r.mask /\ Ignores(r, s) THEN c
       ELSE IF s \notin RealTime /\ \E k \in DOMAIN c.pend : c.pend[k].s = s THEN c
       ELSE [c EXCEPT !.pend = Append(@, [s |-> s, d |-> d])]

PostAll(T, U, s) == [u \in Tasks |-> IF u \in U THEN Post(T[u], s, 0) ELSE T[u]]

\* A group none of whose members has a parent in another group of the session
Members(T, g) == {u \in Tasks : Alive(T[u]) /\ T[u].pg = g}
Orphaned(T, g) ==
    \A u \in Members(T, g) : LET p == T[u].par IN
        p = 0 \/ T[p].pg = g \/ T[p].sid # T[u].sid \/ ~Alive(T[p])

\* Who adopts the children of p: the nearest subreaper above it, or init
RECURSIVE Reaper(_, _)
Reaper(T, p) == IF p = 0 \/ (T[p].sub /\ Alive(T[p])) THEN p ELSE Reaper(T, T[p].par)

\* c loses the task that counted as its parent.
Bereft(c, pt) == LET o == [c EXCEPT !.pt = pt] IN IF o.pd = "" THEN o ELSE Post(o, o.pd, 0)

\* The thread group of t ends: children are adopted, the parent is told, and
\* groups orphaned by it that have stopped members get SIGHUP and SIGCONT.
Exit(T, t, status) ==
    LET L == T[t].tg
        p == T[L].par
        q == Reaper(T, p)
        reaped == p = 0 \/ (T[L].xs = "CHLD" /\ Disp(T[p], "CHLD").h = "IGN")
        Dead(r, st) == [Free EXCEPT !.st = st, !.par = r.par, !.pg = r.pg, !.sid = r.sid, !.tg = r.tg,
                                    !.xs = r.xs, !.v = r.v, !.out = r.out, !.ws = status]
        T1 == [u \in Tasks |->
                 IF u = L THEN Dead(T[u], IF reaped THEN "gone" ELSE "zombie")
                 ELSE IF Alive(T[u]) /\ T[u].tg = L THEN Dead(T[u], "gone")
                 ELSE IF u \in Child(T, L)
                      THEN Bereft([T[u] EXCEPT !.par = q, !.st = IF @ = "zombie" /\ q = 0 THEN "gone" ELSE @], q)
                 ELSE T[u]]
        T2 == IF p = 0 THEN T1 ELSE [T1 EXCEPT ![p] = Post(@, T[L].xs, 0)]
        hup == {g \in {T2[u].pg : u \in {w \in Tasks : T2[w].st = "stop"}} : ~Orphaned(T, g) /\ Orphaned(T2, g)}
        left == {u \in Tasks : Alive(T2[u]) /\ T2[u].pg \in hup}
    IN PostAll(PostAll(T2, left, "HUP"), left, "CONT")

\* A process that ends gives up the locks it holds and its queue registration.
Released(T) ==
    [o \in DOMAIN obj |->
        IF "held" \in DOMAIN obj[o] THEN [obj[o] EXCEPT !.held = {h \in @ : Alive(T[h.t])}]
        ELSE IF "owner" \in DOMAIN obj[o] /\ obj[o].owner \in Tasks /\ ~Alive(T[obj[o].owner])
        THEN [obj[o] EXCEPT !.owner = 0] ELSE obj[o]]

Ins(t) == Code[task[t].f][task[t].i]
\* t can execute a call of kind o.
At(t, o) == task[t].st = "run" /\ ~task[t].due /\ Ins(t).op = o
Arg(t, e) == Eval(task[t], e)

\* Calls that SA_RESTART does not restart
NoRestart(c) == \/ c.op \in {"pause", "sigsuspend", "sleep", "sigwait", "select", "epoll_wait"}
                \/ c.op = "semop" /\ c.c \notin {"posix", "timed"}

\* Signals are delivered in any order, but equal realtime signals in theirs.
Deliver(t) ==
    /\ Alive(task[t])
    /\ \E k \in Deliverable(task[t]) :
        LET r == task[t]
            s == r.pend[k].s
            a == Disp(r, s)
            rest == [r EXCEPT !.pend = [j \in 1..Len(@) - 1 |-> IF j < k THEN @[j] ELSE @[j + 1]]]
            again == ~r.slp \/ ("RESTART" \in a.fl /\ ~NoRestart(Ins(t)))
            back == IF again THEN [r EXCEPT !.slp = FALSE]
                    ELSE IF Ins(t).dies THEN [r EXCEPT !.f = "systmErr", !.i = 1]
                    ELSE [r EXCEPT !.i = @ + 1, !.l = ("ret" :> -1) @@ ("errno" :> "EINTR") @@ @]
            frame == [f |-> back.f, i |-> back.i, call |-> FALSE, l |-> back.l, eintr |-> ~again,
                      mask |-> IF r.slp /\ Ins(t).op = "sigsuspend" THEN r.old ELSE r.mask]
            handling == [rest EXCEPT !.f = a.h, !.i = 1, !.stk = Append(@, frame), !.slp = FALSE,
                                     !.l = ("sig" :> s) @@ ("si_value" :> r.pend[k].d) @@ back.l,
                                     !.mask = @ \cup a.m \cup (IF "NODEFER" \in a.fl THEN {} ELSE {s}),
                                     !.disp = IF "RESETHAND" \in a.fl THEN (s :> SIG_DFL) @@ @ ELSE @]
        IN /\ \A j \in 1..k - 1 : r.pend[j].s # s
           /\ r.st = "stop" => s = "KILL"
           /\ task' = CASE a.h \notin {"DFL", "IGN"} -> Put(task, t, Resume(handling))
                        [] a.h = "IGN" \/ (a.h = "DFL" /\ s \in Ignored) ->
                              Put(task, t, IF r.due THEN Resume(rest) ELSE rest)
                        [] a.h = "DFL" /\ s \in StopSignals ->
                              LET next == IF r.due THEN Resume(rest) ELSE rest
                                  T == Put(task, t, [next EXCEPT !.st = "stop", !.rep = "stopped"])
                              IN IF s # "STOP" /\ Orphaned(task, r.pg) THEN Put(task, t, next)
                                 ELSE IF r.par = 0 \/ "NOCLDSTOP" \in Disp(task[r.par], "CHLD").fl THEN T ELSE [T EXCEPT ![r.par] = Post(@, "CHLD", 0)]
                        [] OTHER -> Exit(task, t, <<"sig", s>>)
    /\ obj' = Released(task')

\* Return from a handler
sigreturn(t) ==
    /\ At(t, "return")
    /\ LET r == task[t]
           n == Len(r.stk)
           b == r.stk[n]
           kept == [x \in DOMAIN b.l |-> IF x = "errno" /\ ~b.eintr THEN r.l["errno"] ELSE b.l[x]]
       IN task' = Put(task, t, Resume([r EXCEPT !.f = b.f, !.i = b.i, !.mask = b.mask, !.l = kept,
                                             !.stk = SubSeq(@, 1, n - 1)]))
    /\ UNCHANGED obj

\* A new thread in the process of r
Thread(r, f, e) == [r EXCEPT !.st = "run", !.f = f, !.i = 1, !.stk = <<>>, !.slp = FALSE, !.pend = <<>>,
                             !.due = TRUE, !.tm = <<>>, !.out = <<>>, !.l = [ret |-> 0, errno |-> "OK", arg |-> e]]
Unborn == {c \in Tasks : task[c].st = "free" /\ c <= machine.n}
Newest == CHOOSE c \in Unborn : \A d \in Unborn : c <= d

MaxOverrun == 3

\* The signal of timer id, for r: with the ID and the overrun, which counts the
\* expirations that find the signal of the timer still pending.
Overrun(r, id) ==
    LET h == r.tm[id].h
        same == {k \in DOMAIN r.pend : r.pend[k].s = h /\ r.pend[k].d \in {<<id, n>> : n \in 0..MaxOverrun}}
    IN IF same = {} THEN Post(r, h, <<id, 0>>)
       ELSE [r EXCEPT !.pend[CHOOSE k \in same : TRUE].d[2] = IF @ = MaxOverrun THEN @ ELSE @ + 1]

\* Timer id of t expires: it makes a descriptor readable, starts a thread, or
\* sends a signal.
Counted(t, id) == [task[t] EXCEPT !.tm[id].n = IF @ = Periodic THEN @ ELSE @ - 1]
BySignal(h) == h # "fd" /\ h \notin DOMAIN Code
Expire(t, id) ==
    /\ Alive(task[t]) /\ task[t].tm[id].n > 0
    /\ LET h == task[t].tm[id].h
           r == Counted(t, id)
       IN \/ /\ h = "fd"
             /\ task' = [task EXCEPT ![t] = r]
             /\ obj' = [obj EXCEPT ![id].r = IF @ = <<>> THEN <<1>> ELSE <<@[1] + 1>>]
          \/ /\ h # "fd" /\ h \in DOMAIN Code
             /\ task' = [task EXCEPT ![t] = r, ![Newest] = Thread(r, h, id)]
             /\ UNCHANGED obj
          \/ /\ BySignal(h)
             /\ task' = [task EXCEPT ![t] = Overrun(r, id)]
             /\ UNCHANGED obj
=============================================================================

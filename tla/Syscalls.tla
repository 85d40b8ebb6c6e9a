------------------------------ MODULE Syscalls ------------------------------
(***************************************************************************)
(* The vocabulary in which the programs of the repository are written down *)
(* for the kernel of module Kernel: a C function is a sequence of calls,   *)
(* in the order of its statements.  A system call is written as the call   *)
(* itself and stands for the call and for the check that follows it: when  *)
(* it returns -1 the program ends in systmErr(), as it does throughout the *)
(* repository.  try(c) is the call whose result the program looks at       *)
(* itself: it is left in the variables "ret" and "errno".                  *)
(*                                                                         *)
(* Operands are constants, K(c), variables, V(x), and terms over them.     *)
(***************************************************************************)
EXTENDS Integers, Sequences

K(c)        == <<"k", c>>
V(x)        == <<"v", x>>
plus(d, e)  == <<"plus", d, e>>
minus(d, e) == <<"minus", d, e>>
fld(e, n)   == <<"fld", e, n>>
app(f, e)   == <<"app", f, e>>
app2(d, e)  == <<"app2", d, e>>
pair(d, e)  == <<"pair", d, e>>
len(e)      == <<"len", e>>

Local(o, x, y, z) == [op |-> o, a |-> x, b |-> y, c |-> z, dies |-> FALSE]
Sys(o, x, y, z)   == [op |-> o, a |-> x, b |-> y, c |-> z, dies |-> TRUE]
try(call)         == [call EXCEPT !.dies = FALSE]

-----------------------------------------------------------------------------
(* Statements that stay inside the process.  set() writes memory, which    *)
(* clone(CLONE_VM) and threads share; let() a variable on the own stack.   *)

label(l)      == Local("label", l, 0, 0)
goto(l)       == Local("goto", l, 0, 0)
set(x, e)     == Local("set", x, e, 0)
let(x, e)     == Local("let", x, e, 0)
when(e, s, l) == Local("when", e, s, l)          \* if e is in the set s, go to l
less(d, e, l) == Local("less", d, e, l)          \* if d < e, go to l
say(e)        == Local("say", e, 0, 0)           \* an output the program is judged by
call(f)       == Local("call", f, 0, 0)
return        == Local("return", 0, 0, 0)
longjmp(f, l, m) == Local("longjmp", f, l, m)    \* to l in f; m: the saved mask, or ""
InProcess == {"label", "goto", "set", "let", "when", "less", "say", "call", "return", "longjmp"}

-----------------------------------------------------------------------------
(* Processes *)

exit(e)              == Sys("exit", e, 0, 0)
fork                 == Sys("fork", 0, 0, 0)
clone(flags, sig, f) == Sys("clone", flags, sig, f)
vfork                == Sys("vfork", 0, 0, 0)
execve(e)            == Sys("execve", e, 0, 0)
waitpid(e, options)  == Sys("wait", e, options, 0)
wait                 == Sys("wait", K(-1), {}, 0)
setpgid(e)           == Sys("setpgid", e, 0, 0)
setsid               == Sys("setsid", 0, 0, 0)
getppid              == Sys("getppid", 0, 0, 0)
getpid               == Sys("getpid", 0, 0, 0)
prctl_pdeathsig(s)   == Sys("pdeathsig", s, 0, 0)
prctl_subreaper      == Sys("subreaper", 0, 0, 0)
sched_yield          == Sys("yield", 0, 0, 0)

pthread_create(f, e) == Sys("pthread_create", f, e, 0)
pthread_join(e)      == Sys("pthread_join", e, 0, 0)
pthread_exit         == Sys("pthread_exit", 0, 0, 0)

-----------------------------------------------------------------------------
(* Signals and timers.  act() is a struct sigaction; x, where it is not "",*)
(* the variable that gets the previous setting.                            *)

act(handler, flags, sa_mask) == [h |-> handler, fl |-> flags, m |-> sa_mask]
SIG_DFL == act("DFL", {}, {})
SIG_IGN == act("IGN", {}, {})
query   == K(act("", {}, {}))                       \* NULL: ask, change nothing

sigaction(s, e, x)      == Sys("sigaction", s, e, x)
signal(s, h)            == Sys("sigaction", s, K(act(h, {"RESTART"}, {})), "")
sigprocmask(how, e, x)  == Sys("sigprocmask", how, e, x)
sigpending(x)           == Sys("sigpending", x, 0, 0)
kill(e, s)              == Sys("kill", e, s, K(0))
sigqueue(e, s, d)       == Sys("kill", e, s, d)
fault(s, flags)         == Sys("fault", s, flags, 0)
raise(s)                == Sys("raise", s, 0, 0)
pause                   == try(Sys("pause", 0, 0, 0))
sigsuspend(e)           == try(Sys("sigsuspend", e, 0, 0))
sigwaitinfo(s, x)       == Sys("sigwait", s, x, 0)
alarm(n)                == Sys("timer", "alarm", n, "ALRM")  \* n expirations from now on
Periodic                == 99                         \* no end of expirations
timer_settime(id, n, h) == Sys("timer", id, n, h)     \* h: a signal, or a thread's function
sleep                   == try(Sys("sleep", 0, 0, 0))

-----------------------------------------------------------------------------
(* Descriptors.  An end of a pipe or of a socket is a pair: the object and *)
(* the side; what is written to a side is read from its peer.              *)

R(p) == <<p, "r">>
W(p) == <<p, "w">>
stdin == R("stdin")

pipe(p)          == Sys("pipe", p, 0, 0)
socketpair(p)    == Sys("socketpair", p, 0, 0)
read(e, x)       == Sys("read", e, x, FALSE)
read_nb(e, x)    == Sys("read", e, x, TRUE)          \* O_NONBLOCK
write(e, d)      == Sys("write", e, d, FALSE)
write_nb(e, d)   == Sys("write", e, d, TRUE)
writev(e, d)     == Sys("writev", e, d, 0)           \* a sequence, in one piece
close(e)         == Sys("close", e, 0, 0)
fd_cloexec(e)    == Sys("cloexec", e, 0, 0)
shutdown(e)      == Sys("shutdown", e, 0, 0)
select(e, x)     == Sys("select", e, x, "")
select_to(e, x)  == Sys("select", e, x, "timed")     \* with a timeout
poll(e, x)       == Sys("select", e, x, "poll")      \* with timeout 0
Having(e, ends)  == {S \in SUBSET ends : e \in S}     \* FD_ISSET
fcntl_async(e)   == Sys("async", e, 0, 0)            \* O_ASYNC: SIGIO on input
epoll_create(o)  == Sys("create", o, FALSE, [k |-> "epoll", on |-> {}, new |-> {}])
epoll_ctl(o, e, flags) == Sys("epoll_ctl", o, e, flags)
epoll_wait(o, x) == Sys("epoll_wait", o, x, 0)       \* x: a sequence of pairs <<end, event>>
timerfd_create(p) == Sys("pipe", p, 0, 0)            \* expirations are read like input
timerfd_settime(p, n) == Sys("timer", p, n, "fd")
open_tty         == Sys("open_tty", 0, 0, 0)
posix_openpt(p)  == Sys("openpt", p, 0, 0)           \* the master <<p, "a">>
open_slave(p)    == Sys("open_slave", p, 0, 0)       \* the slave <<p, "b">>
tcgetattr(x)     == Sys("load", "tty", x, 0)         \* the flags that are on
tcsetattr(how, e) == Sys("tcsetattr", how, e, 0)     \* TCSAFLUSH discards unread input
closeall         == Sys("closeall", 0, 0, 0)         \* every descriptor there is

\* Sockets.  An address is the end <<name, "l">>; a stream socket that
\* connects is the end <<p, "a">>, the one that accepts gets its peer.
Addr(l)          == <<l, "l">>
socket(p)        == Sys("socket", p, 0, 0)
connect(e, p)    == Sys("connect", e, p, 0)          \* socket p, to the address e
bind(e, o)       == Sys("bind", e, o, 0)
listen(e)        == Sys("listen", e, 0, 0)
accept(e, x)     == Sys("accept", e, x, 0)
sendto(e, to, d) == Sys("sendto", e, to, d)          \* from the datagram socket bound to e
recvfrom(e, x)   == Sys("recvfrom", e, x, FALSE)     \* x: the pair of sender and message
recvfrom_nb(e, x) == Sys("recvfrom", e, x, TRUE)     \* MSG_DONTWAIT
dconnect(e, to)  == Sys("dconnect", e, to, 0)        \* a peer for a datagram socket
sendmsg(e, d, ends) == Sys("sendmsg", e, d, ends)    \* with descriptors; d: data, claimed PID
recvmsg(e, x, n) == Sys("recvmsg", e, x, n)          \* with room for n descriptors

\* The objects these calls work on, as they are created
Pipe     == [k |-> "pipe", r |-> <<>>, shut |-> {}, sigio |-> 0]
Socket   == [k |-> "socket", a |-> <<>>, b |-> <<>>, shut |-> {}, fly |-> <<>>]
Listener(space) == [k |-> "listen", q |-> <<>>, up |-> FALSE, ns |-> space]
Dgram(space)    == [k |-> "dgram", q |-> <<>>, peer |-> "", ns |-> space]
Cell(c)  == [k |-> "cell", x |-> c]
Sem(n)   == [k |-> "sem", x |-> n]
Mutex    == [k |-> "mutex", owner |-> 0]
Cond     == [k |-> "cond", q |-> <<>>]
Mqueue   == [k |-> "mqueue", q |-> <<>>, owner |-> 0, how |-> ""]
Msgq     == [k |-> "msgq", q |-> <<>>]
Notif    == [k |-> "notif", st |-> "", id |-> 0, t |-> 0, x |-> <<>>]
File(c)  == [k |-> "file", x |-> c]
LockFile == [k |-> "file", x |-> 0, held |-> {}]

-----------------------------------------------------------------------------
(* Memory shared by processes, locks, semaphores, queues and files *)

load(o, x)         == Sys("load", o, x, 0)
store(o, e)        == Sys("store", o, e, 0)
svsemop(o, n)      == Sys("semop", o, n, "sv")
sem_wait(o)        == Sys("semop", o, K(-1), "posix")
sem_trywait(o)     == Sys("semop", o, K(-1), "nowait")
sem_timedwait(o)   == Sys("semop", o, K(-1), "timed")
sem_post(o)        == Sys("semop", o, K(1), "")
lock(m)            == Sys("lock", m, 0, 0)
unlock(m)          == Sys("unlock", m, 0, 0)
cond_wait(c, m)    == Sys("cond_wait", c, m, 0)
cond_signal(c)     == Sys("cond_signal", c, 0, 0)
mq_notify(q, h)    == Sys("mq_notify", q, h, 0)      \* a signal, or a thread's function
mq_send(q, e)      == Sys("mq_send", q, e, FALSE)    \* the pair of priority and message
mq_send_nb(q, e)   == Sys("mq_send", q, e, TRUE)
mq_receive(q, x)   == Sys("mq_receive", q, x, FALSE)
mq_receive_nb(q, x) == Sys("mq_receive", q, x, TRUE)
msgsnd(q, e)       == Sys("msgsnd", q, e, FALSE)     \* the pair of type and text
msgsnd_nb(q, e)    == Sys("msgsnd", q, e, TRUE)
msgrcv(q, x, sel)  == Sys("msgrcv", q, x, sel)       \* sel: [type, flags]
create(f, excl, o) == Sys("create", f, excl, o)      \* O_CREAT, and O_EXCL or not
creat(f, o)        == Sys("creat", f, FALSE, o)      \* O_CREAT | O_TRUNC
open(f)            == Sys("open", f, 0, 0)
fwrite(f, e, d)    == Sys("fwrite", f, e, d)         \* at offset e; -1: O_APPEND
unlink(f)          == Sys("unlink", f, 0, 0)
\* Locks on the bytes of a file: l is the pair of type ("r", "w", "u") and bytes.
fcntl_setlk(f, l)  == Sys("setlk", f, l, "")
fcntl_setlkw(f, l) == Sys("setlk", f, l, "wait")
fcntl_getlk(f, l, x) == Sys("getlk", f, l, x)
flock(f, l)        == Sys("setlk", f, l, "flock")
flock_nb(f, l)     == Sys("setlk", f, l, "")
\* A system call that seccomp hands over to the supervisor on the descriptor
\* Addr(o), and what the supervisor does with the notification
notified(o, e)     == Sys("notified", o, e, 0)
notif_recv(e, x)   == Sys("notif_recv", e, x, 0)     \* x: the pair of ID and argument
notif_valid(e, d)  == Sys("notif_valid", e, d, 0)
notif_send(e, d)   == Sys("notif_send", e, d, 0)     \* d: the pair of ID and result
=============================================================================

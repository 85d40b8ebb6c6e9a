------------------------------- MODULE PosixIpc -------------------------------
(***************************************************************************)
(* The programs of src/pmsg, src/psem and src/pshm: POSIX message queues,  *)
(* semaphores and shared memory.  The queue is "mq", the semaphore "sem".  *)
(***************************************************************************)
EXTENDS Syscalls

pmsg_create_main(flags) == <<
    IF "CREAT" \in flags THEN create("mq", "EXCL" \in flags, Mqueue) ELSE open("mq"), exit(K(0)) >>

pmsg_getattr_main == << open("mq"), exit(K(0)) >>

pmsg_receive_main(nonblock) == <<
    open("mq"), IF nonblock THEN mq_receive_nb("mq", "buffer") ELSE mq_receive("mq", "buffer"),
    say(V("buffer")), exit(K(0)) >>

pmsg_send_main(nonblock, msg, prio) == <<
    open("mq"), IF nonblock THEN mq_send_nb("mq", K(<<prio, msg>>)) ELSE mq_send("mq", K(<<prio, msg>>)),
    exit(K(0)) >>

pmsg_unlink_main == << unlink("mq"), exit(K(0)) >>

-----------------------------------------------------------------------------
(* Notification.  A registration is used up by the message that arrives on *)
(* an empty queue: it is renewed first, the queue drained after that.      *)

Receive == <<
    label("drain"), try(mq_receive_nb("mq", "buffer")), when(V("ret"), {-1}, "drained"),
    say(fld(V("buffer"), 2)), goto("drain"),
    label("drained") >>
ElseFail(l) == << when(V("errno"), {"EAGAIN"}, l), exit(K(1)) >>

mq_notify_sig_handler == << return >>

\* The queue is drained before the registration is renewed.
mq_notify_sig_main_late ==
    << open("mq"),
       sigprocmask("BLOCK", K({"USR1"}), ""),
       sigaction("USR1", K(act("mq_notify_sig_handler", {}, {})), ""),
       mq_notify("mq", "USR1"),
       label("for"), sigsuspend(K({})) >> \o Receive \o << mq_notify("mq", "USR1"), goto("for") >>

mq_notify_sig_main ==
    << open("mq"),
       sigprocmask("BLOCK", K({"USR1"}), ""),
       sigaction("USR1", K(act("mq_notify_sig_handler", {}, {})), ""),
       mq_notify("mq", "USR1"),
       label("for"), sigsuspend(K({})),
       mq_notify("mq", "USR1") >> \o Receive \o ElseFail("for")

\* gotSig is 1 at the start: the first round registers and drains the queue.
gotSignal == << set("gotSig", K(1)), return >>
checksGotSig(handler, flags) ==
    << set("gotSig", K(1)), open("mq"),
       sigaction("USR1", K(act(handler, flags, {})), ""),
       label("for"), when(V("gotSig"), {0}, "work"), set("gotSig", K(0)),
       mq_notify("mq", "USR1") >> \o Receive \o ElseFail("work")
    \o << label("work"), sleep, goto("for") >>

mq_notify_via_signal_handler == gotSignal
mq_notify_via_signal_main    == checksGotSig("mq_notify_via_signal_handler", {})
mq_notify_siginfo_handler    == gotSignal
mq_notify_siginfo_main       == checksGotSig("mq_notify_siginfo_handler", {"SIGINFO"})

mq_notify_sigwaitinfo_main ==
    << open("mq"),
       sigprocmask("BLOCK", K({"RTMIN"}), ""),
       mq_notify("mq", "RTMIN"),
       label("for"), sigwaitinfo({"RTMIN"}, "si"),
       mq_notify("mq", "RTMIN") >> \o Receive \o ElseFail("for")

notifySetup(threadFunc) == << mq_notify("mq", threadFunc), return >>

mq_notify_thread_threadFunc ==
    << call("notifySetup") >> \o Receive \o ElseFail("return") \o << label("return"), pthread_exit >>

mq_notify_thread_main == << open("mq"), call("notifySetup"), pause, exit(K(0)) >>

drainQueue == Receive \o ElseFail("return") \o << label("return"), return >>

via_thread_notifySetup == << mq_notify("mq", "via_thread_threadFunc"), return >>

via_thread_threadFunc == << call("via_thread_notifySetup"), call("drainQueue"), pthread_exit >>

mq_notify_via_thread_main == <<
    open("mq"), call("via_thread_notifySetup"), call("drainQueue"), pause, exit(K(0)) >>

-----------------------------------------------------------------------------
(* Semaphores *)

psem_create_main(flags, value) == <<
    IF "CREAT" \in flags THEN create("sem", "EXCL" \in flags, Sem(value)) ELSE open("sem"), exit(K(0)) >>

psem_getvalue_main == << open("sem"), load("sem", "value"), say(V("value")), exit(K(0)) >>
psem_post_main     == << open("sem"), sem_post("sem"), exit(K(0)) >>
psem_trywait_main  == << open("sem"), sem_trywait("sem"), exit(K(0)) >>
psem_unlink_main   == << unlink("sem"), exit(K(0)) >>
psem_wait_main     == << open("sem"), sem_wait("sem"), say(K("succeeded")), exit(K(0)) >>

\* A signal handler ends the wait: EINTR is an error here.
psem_timedwait_main == << open("sem"), sem_timedwait("sem"), say(K("succeeded")), exit(K(0)) >>

exr5302_main == <<
    open("sem"),
    label("while"), try(sem_timedwait("sem")), when(V("ret"), {0}, "succeeded"),
    when(V("errno"), {"EINTR"}, "while"), exit(K(1)),
    label("succeeded"), say(K("succeeded")), exit(K(0)) >>

ypsem_timedwait_handler == <<
    try(sem_post("sem")), when(V("ret"), {-1}, "failed"), return,
    label("failed"), exit(K(1)) >>

ypsem_timedwait_main == <<
    create("sem", FALSE, Sem(0)),
    sigaction("ALRM", K(act("ypsem_timedwait_handler", {"RESTART"}, {})), ""),
    alarm(1),
    label("while"), try(sem_timedwait("sem")), when(V("ret"), {0}, "succeeded"),
    when(V("errno"), {"EINTR"}, "while"), say(K("timed out")), exit(K(1)),
    label("succeeded"), exit(K(0)) >>

\* The wrappers end the program when the call fails, as every call here does.
Sem_Open(name, flags, value) == IF "CREAT" \in flags THEN create(name, "EXCL" \in flags, Sem(value)) ELSE open(name)
Sem_Unlink(name)    == unlink(name)
Sem_Wait(sem)       == sem_wait(sem)
Sem_Trywait(sem)    == sem_trywait(sem)
Sem_Timedwait(sem)  == sem_timedwait(sem)
Sem_Post(sem)       == sem_post(sem)
Sem_Getvalue(sem, x) == load(sem, x)
Sem_Init(sem, value) == create(sem, FALSE, Sem(value))
Sem_Destroy(sem)    == unlink(sem)

thread_incr_psem_threadFunc(loops) == <<
    let("j", K(0)),
    label("for"), less(V("j"), K(loops), "body"), pthread_exit,
    label("body"), sem_wait("sem"),
    load("glob", "loc"), let("loc", plus(V("loc"), K(1))), store("glob", V("loc")),
    sem_post("sem"), let("j", plus(V("j"), K(1))), goto("for") >>

thread_incr_psem_main == <<
    create("glob", FALSE, Cell(0)), create("sem", FALSE, Sem(1)),
    pthread_create("thread_incr_psem", K(0)), let("t1", V("tid")),
    pthread_create("thread_incr_psem", K(0)), let("t2", V("tid")),
    pthread_join(V("t1")), pthread_join(V("t2")),
    load("glob", "glob"), say(V("glob")), exit(K(0)) >>

threadRoutine(iterNum) == <<
    let("i", K(0)),
    label("for"), less(V("i"), K(iterNum), "body"), pthread_exit,
    label("body"), Sem_Wait("sem"),
    load("glob", "loc"), let("loc", plus(V("loc"), K(1))), store("glob", V("loc")),
    Sem_Post("sem"), let("i", plus(V("i"), K(1))), goto("for") >>

ythread_incr_psem_main(iterNum) == <<
    create("glob", FALSE, Cell(0)), Sem_Init("sem", 1),
    pthread_create("threadRoutine", K(0)), let("tid1", V("tid")),
    pthread_create("threadRoutine", K(0)), let("tid2", V("tid")),
    pthread_join(V("tid1")), pthread_join(V("tid2")),
    load("glob", "glob"), say(V("glob")), exit(K(0)) >>

-----------------------------------------------------------------------------
(* Shared memory: the object "shm" holds its size and its bytes.           *)

pshm_create_main(flags, size) == <<
    IF "CREAT" \in flags THEN create("shm", "EXCL" \in flags, Cell(<<0, "">>)) ELSE open("shm"),
    load("shm", "obj"), store("shm", pair(K(size), fld(V("obj"), 2))), exit(K(0)) >>

pshm_read_main == <<
    open("shm"), load("shm", "sb"), load("shm", "addr"),
    say(pair(fld(V("sb"), 1), fld(V("addr"), 2))), exit(K(0)) >>

pshm_unlink_main == << unlink("shm"), exit(K(0)) >>

pshm_write_main(len_, string) == <<
    open("shm"), load("shm", "obj"), store("shm", pair(K(len_), fld(V("obj"), 2))),
    store("shm", K(<<len_, string>>)), exit(K(0)) >>
=============================================================================

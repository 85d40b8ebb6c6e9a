-------------------------------- MODULE Altio --------------------------------
(***************************************************************************)
(* The programs of src/altio: select(), poll(), epoll, signal-driven I/O   *)
(* and the self-pipe trick.                                                *)
(***************************************************************************)
EXTENDS Syscalls

sigioHandler == << set("gotSigio", K(1)), return >>

\* The flag cleared when the input has been drained
demo_sigio_main_late == <<
    set("gotSigio", K(0)),
    sigaction("IO", K(act("sigioHandler", {"RESTART"}, {})), ""),
    fcntl_async(K(stdin)), call("ttySetCbreak"), when(V("ret"), {-1}, "failed"),
    let("done", K(FALSE)),
    label("for"), when(V("done"), {TRUE}, "end"),
    sched_yield, when(V("gotSigio"), {0}, "for"),
    label("while"), try(read_nb(K(stdin), "ch")), when(V("ret"), {-1, 0}, "drained"),
    when(V("done"), {TRUE}, "drained"),
    say(V("ch")), when(V("ch"), {"#"}, "hash"), goto("while"),
    label("hash"), let("done", K(TRUE)), goto("while"),
    label("drained"), sched_yield, set("gotSigio", K(0)), goto("for"),
    label("end"), tcsetattr("TCSAFLUSH", V("userTermios")), exit(K(0)), label("failed"), exit(K(1)) >>

\* The flag is cleared before the input is drained, so that input that comes
\* in meanwhile raises it again.  The handler may run before the loop looks at
\* the flag and before it clears it.
demo_sigio_main == <<
    set("gotSigio", K(0)),
    sigaction("IO", K(act("sigioHandler", {"RESTART"}, {})), ""),
    fcntl_async(K(stdin)), call("ttySetCbreak"), when(V("ret"), {-1}, "failed"),
    let("done", K(FALSE)),
    label("for"), when(V("done"), {TRUE}, "end"),
    sched_yield, when(V("gotSigio"), {0}, "for"),
    sched_yield, set("gotSigio", K(0)),
    label("while"), try(read_nb(K(stdin), "ch")), when(V("ret"), {-1, 0}, "for"),
    when(V("done"), {TRUE}, "for"),
    say(V("ch")), when(V("ch"), {"#"}, "hash"), goto("while"),
    label("hash"), let("done", K(TRUE)), goto("while"),
    label("end"), tcsetattr("TCSAFLUSH", V("userTermios")), exit(K(0)), label("failed"), exit(K(1)) >>

\* args: useOneEpollFD, readData, eventsMask and useLoop; the FIFO is open.
epoll_flags_fork_child(args) == <<
    when(K(args.useOneEpollFD), {TRUE}, "do"),
    epoll_create("epfd"), epoll_ctl("epfd", K(R("fifo")), args.eventsMask),
    label("do"), epoll_wait("epfd", "rev"), say(K("ready")),
    when(K(args.readData), {FALSE}, "while"),
    sleep, try(read_nb(K(R("fifo")), "buf")), when(V("ret"), {0}, "break"),
    label("while"), when(K(args.useLoop), {TRUE}, "do"),
    label("break"), return >>

epoll_flags_fork_main(args, childMax) == <<
    when(K(args.useOneEpollFD), {FALSE}, "start"),
    epoll_create("epfd"), epoll_ctl("epfd", K(R("fifo")), args.eventsMask),
    label("start"), let("childNum", K(0)),
    label("for"), less(V("childNum"), K(childMax), "fork"),
    sleep, let("childNum", K(0)),
    label("wait"), less(V("childNum"), K(childMax), "reap"), exit(K(0)),
    label("reap"), try(wait), let("childNum", plus(V("childNum"), K(1))), goto("wait"),
    label("fork"), fork, when(V("ret"), {0}, "child"),
    let("childNum", plus(V("childNum"), K(1))), goto("for"),
    label("child"), call("epoll_flags_fork_child"), exit(K(0)) >>

\* A descriptor is closed only once EPOLLHUP comes without EPOLLIN.
epoll_input_main(fds) == <<
    epoll_create("epfd"), let("j", K(1)),
    label("open"), less(K(Len(fds)), V("j"), "opened"),
    epoll_ctl("epfd", app(fds, V("j")), {}), let("j", plus(V("j"), K(1))), goto("open"),
    label("opened"), let("numOpenFds", K(Len(fds))),
    label("while"), less(K(0), V("numOpenFds"), "epoll"), exit(K(0)),
    label("epoll"), try(epoll_wait("epfd", "evlist")), when(V("ret"), {-1}, "failed"),
    let("j", K(1)),
    label("for"), less(len(V("evlist")), V("j"), "while"),
    let("ev", app2(V("evlist"), V("j"))), let("j", plus(V("j"), K(1))),
    when(fld(V("ev"), 2), {"HUP"}, "hup"),
    read(fld(V("ev"), 1), "buf"), say(V("buf")), goto("for"),
    label("hup"), close(fld(V("ev"), 1)), let("numOpenFds", minus(V("numOpenFds"), K(1))), goto("for"),
    label("failed"), when(V("errno"), {"EINTR"}, "epoll"), exit(K(1)) >>

multithread_epoll_wait_threadFunc == << epoll_wait("epfd", "evlist"), say(K("ready")), pthread_exit >>

multithread_epoll_wait_main(epollet, threads) == <<
    epoll_create("epfd"), pipe("pipe1"), epoll_ctl("epfd", K(R("pipe1")), epollet),
    let("j", K(0)),
    label("for"), less(V("j"), K(threads), "create"),
    sleep, try(write(K(W("pipe1")), K("x"))), sleep, exit(K(0)),
    label("create"), pthread_create("multithread_epoll_wait_threadFunc", V("j")),
    let("j", plus(V("j"), K(1))), goto("for") >>

\* chosen: the pipes random() picks for the writes
poll_pipes_main(pfds, chosen) == <<
    let("j", K(1)),
    pipe(pfds[1]), pipe(pfds[2]),
    label("write"), less(K(Len(chosen)), V("j"), "poll"),
    write(app(chosen, V("j")), K("a")), let("j", plus(V("j"), K(1))), goto("write"),
    label("poll"), poll(K({R(pfds[1]), R(pfds[2])}), "revents"), say(V("revents")), exit(K(0)) >>

\* Queue identifier, then text: the parent takes them from the pipe in two reads.
childMon(msqid) == <<
    label("for"), mq_receive(msqid, "pmsg"),
    writev(K(W("pfd")), pair(K(msqid), V("pmsg"))), goto("for") >>

select_mq_main(msqids) == <<
    pipe("pfd"), let("j", K(1)),
    label("fork"), less(K(Len(msqids)), V("j"), "for"),
    try(fork), when(V("ret"), {0}, "child"), when(V("ret"), {-1}, "failed"),
    let("j", plus(V("j"), K(1))), goto("fork"),
    label("failed"), try(kill(K(0), "TERM")), exit(K(1)),
    label("child"), when(V("j"), {2}, "second"), call("childMon1"),
    label("second"), call("childMon2"),
    label("for"), select(K({stdin, R("pfd")}), "readfds"),
    when(V("readfds"), Having(stdin, {stdin, R("pfd")}), "stdin"), goto("queue"),
    label("stdin"), read(K(stdin), "buf"), when(V("ret"), {0}, "queue"), say(V("buf")),
    label("queue"), when(V("readfds"), Having(R("pfd"), {stdin, R("pfd")}), "pipe"), goto("for"),
    label("pipe"), read(K(R("pfd")), "msqid"), when(V("ret"), {0}, "eof"),
    read(K(R("pfd")), "mtext"), when(V("ret"), {0}, "eof"),
    say(pair(V("msqid"), V("mtext"))), goto("for"),
    label("eof"), exit(K(1)) >>

self_pipe_handler == <<
    let("savedErrno", V("errno")),
    try(write_nb(K(W("pfd")), K("x"))), when(V("ret"), {1}, "ok"),
    when(V("errno"), {"EAGAIN"}, "ok"), exit(K(1)),
    label("ok"), let("errno", V("savedErrno")), return >>

\* pto: without a timeout (FALSE) or with one
self_pipe_main(pto) ==
    LET both == {stdin, R("pfd")} IN <<
    pipe("pfd"),
    sigaction("INT", K(act("self_pipe_handler", {"RESTART"}, {})), ""),
    label("select"), try(IF pto THEN select_to(K(both), "readfds") ELSE select(K(both), "readfds")),
    when(V("ret"), {-1}, "failed"),
    when(V("readfds"), Having(R("pfd"), both), "signal"), goto("report"),
    label("failed"), when(V("errno"), {"EINTR"}, "select"), exit(K(1)),
    label("signal"), say(K("signal")),
    label("drain"), try(read_nb(K(R("pfd")), "ch")), when(V("ret"), {-1}, "empty"), goto("drain"),
    label("empty"), when(V("errno"), {"EAGAIN"}, "report"), exit(K(1)),
    label("report"), say(V("readfds")), exit(K(0)) >>

\* fds: the descriptors of readfds and writefds
t_select_main(fds, pto) == <<
    IF pto THEN select_to(K(fds), "ready") ELSE select(K(fds), "ready"), say(V("ready")), exit(K(0)) >>
=============================================================================

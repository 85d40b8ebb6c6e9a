----------------------------- MODULE MCPrograms -----------------------------
(***************************************************************************)
(* Small systems of the programs of the script modules, for TLC: Programs  *)
(* gives every C function its name in Code, Systems says which programs    *)
(* run together, on which objects, and how many processes there may be.    *)
(* Programs that drive them (a user at the keyboard, a sender, a shell)    *)
(* are defined here.                                                       *)
(***************************************************************************)
EXTENDS Kernel, Procexec, Signals, Pgsjc, Altio, PosixIpc, Timers, Daemons, Sockets,
        Files, Terminals, SvIpc, Namespaces, Seccomp, Strerror

\* Programs of the environment
systmErr  == << exit(K(1)) >>
shellExit3 == << sleep, exit(K(3)) >>
printer   == << say(V("argv")), say(V("environ")), exit(K(0)) >>
lister    == << try(write(K(W("stdout")), K("ls"))), say(V("errno")), exit(K(0)) >>
reapingCaller == << set("numLiveChildren", K(0)), sigaction("CHLD", K(act("sigchldHandler", {}, {})), ""),
                    set("command", K("sh3")), call("system"), say(V("status")), exit(K(0)) >>
shellAsker == << set("command", K("NULL")), call("system"), say(V("status")), exit(K(0)) >>
userINT   == << sleep, try(kill(K(-1), "INT")), exit(K(0)) >>
userJob   == << sleep, try(kill(K(2), "STOP")), sleep, try(kill(K(2), "CONT")), sleep,
                try(kill(K(2), "TERM")), exit(K(0)) >>

ProcexecCode == [
    t_fork |-> t_fork_main, t_vfork |-> t_vfork_main, vfork_fd_test |-> vfork_fd_test_main,
    fork_file_sharing |-> fork_file_sharing_main, fork_stdio_buf |-> fork_stdio_buf_main,
    fork_whos_on_first |-> fork_whos_on_first_main(2), footprint |-> footprint_main,
    footprint_func |-> footprint_func(7), make_zombie |-> make_zombie_main, orphan |-> orphan_main(1),
    multi_wait |-> multi_wait_main(3), multi_SIGCHLD |-> multi_SIGCHLD_main(4),
    sigchldHandler |-> multi_SIGCHLD_sigchldHandler, printWaitStatus |-> printWaitStatus,
    child_status |-> child_status_main(-1), child_status5 |-> child_status_main(5),
    fork_sig_sync |-> fork_sig_sync_main, fork_sig_sync_handler |-> fork_sig_sync_handler,
    system |-> system_system, t_system |-> t_system_main("system"), simple_system |-> simple_system_system, t_simple_system |-> t_system_main("simple_system"),
    envargs |-> envargs_main, t_execve |-> t_execve_main("envargs"), t_execle |-> t_execle_main("envargs"),
    t_execlp |-> t_execlp_main("envargs"), t_execl |-> t_execl_main, closeonexec |-> closeonexec_main(2),
    t_clone_childFunc |-> t_clone_childFunc, t_clone |-> t_clone_main({"FILES"}),
    demo_clone_childFunc |-> demo_clone_childFunc({"FILES", "FS", "VM", "SIGHAND"}), grimReaper |-> demo_clone_grimReaper,
    demo_clone |-> demo_clone_main({"FILES", "FS", "VM", "SIGHAND"}),
    pdeath_handler |-> pdeath_handler, createOrphanChild |-> pdeath_createOrphanChild(2),
    performPerThreadSteps |-> pdeath_performPerThreadSteps(1), threadStartFunc |-> pdeath_threadStartFunc,
    createThreads |-> pdeath_createThreads([a \in 1..1 |-> 2], [a \in 1..1 |-> 1]),
    createAncestor |-> pdeath_createAncestor({1}), pdeath |-> pdeath_main(1)]

sigs == <<"INT", "USR1", "RTMIN">>
SignalsCode == [
    printSigset |-> printSigset, printSigMask |-> printSigMask, printPendingSigs |-> printPendingSigs,
    send2USR1 |-> sig_sender_main(1, 2, "USR1", "INT"), ysend2USR1 |-> ysig_sender_main(1, 2, "USR1", "INT"),
    sendINT |-> sig_sender_main(1, 1, "INT", "0"), sendINTQUIT |-> sig_sender_main(1, 1, "INT", "QUIT"),
    send2INT |-> sig_sender_main(1, 2, "INT", "0"),
    queue2 |-> t_sigqueue_main(1, "RTMIN", 7, 2), t_kill0 |-> t_kill_main(1, "0"), t_killTERM |-> yt_kill_main(1, "TERM"),
    sig_receiver |-> sig_receiver_main(sigs, 2), sig_receiver_handler |-> sig_receiver_handler,
    ysig_receiver |-> ysig_receiver_main(sigs, 2), ysig_receiver_sighandler |-> ysig_receiver_sighandler,
    exr2001 |-> exr2001_main(sigs, 2), exr2001_handler |-> exr2001_handler,
    catch_rtsigs |-> catch_rtsigs_main(sigs, 2), catch_rtsigs_siginfoHandler |-> catch_rtsigs_siginfoHandler,
    t_sigwaitinfo |-> t_sigwaitinfo_main({"INT", "USR1", "RTMIN"}), signalfd_sigval |-> signalfd_sigval_main({"RTMIN"}),
    intquit |-> intquit_main, intquit_sigHandler |-> intquit_sigHandler,
    yintquit |-> yintquit_main, yintquit_handler |-> yintquit_handler,
    ouch |-> ouch_main, ouch_sigHandler |-> ouch_sigHandler, youch |-> youch_main, youch_sigHandler |-> youch_sigHandler,
    t_sigsuspend |-> t_sigsuspend_main, t_sigsuspend_handler |-> t_sigsuspend_handler,
    sig_speed |-> sig_speed_main(2), sig_speed_handler |-> sig_speed_handler,
    listing_2204 |-> listing_2204_sandbox, listing_2005 |-> listing_2005_sanbox,
    exr2002 |-> exr2002_main, exr2002_handler |-> exr2002_handler,
    ignore_pending_sig |-> ignore_pending_sig_main, ignore_pending_sig_handler |-> ignore_pending_sig_handler,
    nodefer |-> exr2003_nodefer_main(1), defer |-> exr2003_nodefer_main(0), exr2003_nodefer_handler |-> exr2003_nodefer_handler,
    resethand |-> exr2003_resethand_main, exr2003_resethand_handler |-> exr2003_resethand_handler,
    y_siginterrupt |-> y_siginterrupt("INT", 1), siginterrupt |-> siginterrupt("INT", 0), exr2004_handler |-> exr2004_handler,
    exr2004 |-> exr2004_main("y_siginterrupt"), exr2004restart |-> exr2004_main("siginterrupt"),
    sigsegv_handler |-> sigsegv_handler, overflowStack |-> overflowStack, t_sigaltstack |-> t_sigaltstack_main,
    sigfpeCatcher |-> sigfpeCatcher, demo_SIGFPE |-> demo_SIGFPE_main(FALSE, TRUE), demo_SIGFPEcatch |-> demo_SIGFPE_main(FALSE, FALSE),
    sigmask_longjmp |-> sigmask_longjmp_main("senv"), sigmask_longjmp_handler |-> sigmask_longjmp_handler("senv"),
    yabort |-> yabort, exr2101_handlerjmp |-> exr2101_handlerjmp, exr2101_handler |-> exr2101_handler,
    exr2101_test1 |-> exr2101_test_main(1), exr2101_test2 |-> exr2101_test_main(2),
    exr2101_test3 |-> exr2101_test_main(3), exr2101_test4 |-> exr2101_test_main(4),
    nonatomic_uint64 |-> nonatomic_uint64_main, nonatomic_handler |-> nonatomic_handler,
    nonreentrant |-> nonreentrant_main, nonreentrant_handler |-> nonreentrant_handler]

EnvCode == [stdoutReader |-> << label("for"), read(K(R("stdout")), "buf"), when(V("ret"), {0}, "end"), say(V("buf")), goto("for"), label("end"), exit(K(0)) >>,
            systmErr |-> systmErr, sh3 |-> shellExit3, printenv |-> printer, ls |-> lister,
            reapingCaller |-> reapingCaller, shellAsker |-> shellAsker, userINT |-> userINT, userJob |-> userJob, typist |-> << sleep, try(kill(K(1), "INT")), write(K(W("stdin")), K("text")), exit(K(0)) >>]

shell(prog) == << fork, when(V("ret"), {0}, "child"), wait, say(V("status")), exit(K(0)),
                  label("child"), setpgid(K(0)), execve(K(prog)) >>
\* A shell that stops its job twice, and each time waits to see it stopped
tstpShell == << fork, when(V("ret"), {0}, "child"), let("job", V("ret")), try(setpgid(V("job"))), sleep,
                kill(V("job"), "TSTP"), waitpid(V("job"), {"UNTRACED"}), say(V("status")), kill(V("job"), "CONT"),
                kill(V("job"), "TSTP"), waitpid(V("job"), {"UNTRACED"}), say(V("status")), kill(V("job"), "KILL"),
                wait, exit(K(0)),
                label("child"), setpgid(K(0)), execve(K("handling_SIGTSTP")) >>
disconnect == << sleep, try(kill(K(-1), "HUP")), exit(K(0)) >>
\* A user who types x at any moment and notes the settings of the terminal
\* before, and the items once process 1 has changed the settings
typingAt(x, items) == <<
    tcgetattr("seen"), say(V("seen")), write(K(W("stdin")), K(x)),
    label("look"), try(kill(K(1), "0")), when(V("ret"), {-1}, "gone"), tcgetattr("t"), when(V("t"), {Cooked}, "look") >> \o
    [k \in 1..Len(items) |-> write(K(W("stdin")), K(items[k]))] \o << label("gone"), exit(K(0)) >>
typing(items) == [k \in 1..Len(items) |-> write(K(W("stdin")), K(items[k]))] \o << exit(K(0)) >>

PgsjcCode == [
    catch_SIGHUP_handler |-> catch_SIGHUP_handler, catch_SIGHUP |-> catch_SIGHUP_main(2),
    disc_SIGHUP_handler |-> disc_SIGHUP_handler, disc_SIGHUP |-> disc_SIGHUP_main(<<"d", "s">>),
    tstpHandler |-> tstpHandler, handling_SIGTSTP |-> handling_SIGTSTP_main, tstpShell |-> tstpShell,
    job_mon_handler |-> job_mon_handler, job_mon1 |-> job_mon_main(<<"tty">>, W("p")), job_mon2 |-> job_mon_main(R("p"), <<"tty">>),
    orphaned_pgrp_SIGHUP_handler |-> orphaned_pgrp_SIGHUP_handler,
    orphaned_pgrp_SIGHUP |-> orphaned_pgrp_SIGHUP_main(<<"s", "p">>), orphaned |-> shell("orphaned_pgrp_SIGHUP"),
    t_setsid |-> t_setsid_main, disconnect |-> disconnect]

AltioCode == [
    sigioHandler |-> sigioHandler, demo_sigio |-> demo_sigio_main, typeHash |-> typingAt("a", <<"b", "#">>),
    epoll_flags_fork_child |-> epoll_flags_fork_child([useOneEpollFD |-> TRUE, readData |-> TRUE, eventsMask |-> {"ET"}, useLoop |-> FALSE]),
    epoll_flags_fork |-> epoll_flags_fork_main([useOneEpollFD |-> TRUE, readData |-> TRUE, eventsMask |-> {"ET"}, useLoop |-> FALSE], 2),
    typeB |-> typingAt("a", <<"b">>), typeQ |-> typing(<<"a", "q">>), type1 |-> typing(<<"a">>), type2 |-> typing(<<"a", "b">>), toFifo |-> << write(K(W("fifo")), K("a")), sleep, exit(K(0)) >>,
    epoll_input |-> epoll_input_main(<<R("stdin"), R("fifo")>>),
    inputs |-> << write(K(W("fifo")), K("x")), write(K(W("stdin")), K("a")), write(K(W("stdin")), K("b")), exit(K(0)) >>,
    multithread_epoll_wait_threadFunc |-> multithread_epoll_wait_threadFunc,
    multithread_epoll_wait |-> multithread_epoll_wait_main({}, 2), multithread_epoll_et |-> multithread_epoll_wait_main({"ET"}, 2),
    poll_pipes |-> poll_pipes_main(<<"p1", "p2">>, <<W("p2")>>),
    childMon1 |-> childMon("q1"), childMon2 |-> childMon("q2"), select_mq |-> select_mq_main(<<"q1", "q2">>),
    senders |-> << mq_send("q1", K(<<1, "m1">>)), mq_send("q2", K(<<1, "m2">>)), mq_send("q1", K(<<1, "m3">>)), pause, exit(K(0)) >>,
    self_pipe_handler |-> self_pipe_handler, self_pipe |-> self_pipe_main(FALSE), self_pipe_to |-> self_pipe_main(TRUE),
    t_select |-> t_select_main({R("stdin")}, TRUE)]

PosixIpcCode == [
    pmsg_create |-> pmsg_create_main({"CREAT", "EXCL"}), pmsg_open |-> pmsg_create_main({}), pmsg_getattr |-> pmsg_getattr_main,
    pmsg_receive |-> pmsg_receive_main(FALSE), pmsg_receive_nb |-> pmsg_receive_main(TRUE),
    pmsg_send |-> pmsg_send_main(FALSE, "msg", 0), pmsg_send_nb |-> pmsg_send_main(TRUE, "urgent", 1), pmsg_unlink |-> pmsg_unlink_main,
    mq_notify_sig_handler |-> mq_notify_sig_handler, mq_notify_sig |-> mq_notify_sig_main,
    mq_notify_via_signal_handler |-> mq_notify_via_signal_handler, mq_notify_via_signal |-> mq_notify_via_signal_main,
    mq_notify_siginfo_handler |-> mq_notify_siginfo_handler, mq_notify_siginfo |-> mq_notify_siginfo_main, mq_notify_sigwaitinfo |-> mq_notify_sigwaitinfo_main,
    notifySetup |-> notifySetup("mq_notify_thread_threadFunc"), mq_notify_thread_threadFunc |-> mq_notify_thread_threadFunc,
    mq_notify_thread |-> mq_notify_thread_main, drainQueue |-> drainQueue, via_thread_notifySetup |-> via_thread_notifySetup,
    via_thread_threadFunc |-> via_thread_threadFunc, mq_notify_via_thread |-> mq_notify_via_thread_main,
    send3 |-> << mq_send("mq", K(<<0, "m1">>)), mq_send("mq", K(<<0, "m2">>)), sleep, mq_send("mq", K(<<0, "m3">>)), exit(K(0)) >>,
    send2 |-> << mq_send("mq", K(<<0, "m1">>)), sleep, mq_send("mq", K(<<0, "m2">>)), exit(K(0)) >>,
    psem_create |-> psem_create_main({"CREAT", "EXCL"}, 0), psem_getvalue |-> psem_getvalue_main, psem_post |-> psem_post_main,
    psem_trywait |-> psem_trywait_main, psem_unlink |-> psem_unlink_main, psem_wait |-> psem_wait_main, psem_timedwait |-> psem_timedwait_main,
    exr5302 |-> exr5302_main, ypsem_timedwait_handler |-> ypsem_timedwait_handler, ypsem_timedwait |-> ypsem_timedwait_main,
    thread_incr_psem |-> thread_incr_psem_threadFunc(2), thread_incr_psem_main |-> thread_incr_psem_main,
    threadRoutine |-> threadRoutine(1), ythread_incr_psem |-> ythread_incr_psem_main(1),
    wrapped |-> << Sem_Open("sem", {"CREAT", "EXCL"}, 2), Sem_Trywait("sem"), Sem_Timedwait("sem"), Sem_Getvalue("sem", "sval"), say(V("sval")),
                   Sem_Unlink("sem"), Sem_Init("sem", 0), Sem_Destroy("sem"), exit(K(0)) >>,
    pshm_create |-> pshm_create_main({"CREAT"}, 5), pshm_read |-> pshm_read_main, pshm_write |-> pshm_write_main(3, "abc"), pshm_unlink |-> pshm_unlink_main]

TimersCode == [
    ptmr_null_evp_handler |-> ptmr_null_evp_handler, ptmr_null_evp |-> ptmr_null_evp_main(3),
    ptmr_sigev_signal_handler |-> ptmr_sigev_signal_handler, ptmr_sigev_signal |-> ptmr_sigev_signal_main(<<1, 2>>),
    ptmr_sigev_thread_threadFunc |-> ptmr_sigev_thread_threadFunc, ptmr_sigev_thread |-> ptmr_sigev_thread_main(2),
    real_timer_sigalrmHandler |-> real_timer_sigalrmHandler, real_timer |-> real_timer_main(TRUE),
    demo_timerfd |-> demo_timerfd_main(3, 2), t_nanosleep_sigintHandler |-> t_nanosleep_sigintHandler, t_nanosleep |-> t_nanosleep_main,
    t_clock_nanosleep_sigintHandler |-> t_clock_nanosleep_sigintHandler, t_clock_nanosleep |-> t_clock_nanosleep_main,
    timed_read_handler |-> timed_read_handler, timed_read |-> timed_read_main(2)]

DaemonsCode == [
    becomeDaemon |-> becomeDaemon({}), test_become_daemon |-> test_become_daemon_main, logOpen |-> logOpen, logClose |-> logClose,
    readConfigFile |-> readConfigFile, sighupHandler |-> sighupHandler, daemon_SIGHUP |-> daemon_SIGHUP_main,
    admin |-> << store("conf", K("new")), try(kill(K(3), "HUP")), exit(K(0)) >>,
    createPidFile |-> createPidFile("pidfile", {"CLOEXEC"}),
    instance |-> << call("createPidFile"), say(K("running")), sleep, exit(K(0)) >>,
    locker |-> << lockRegionWait("file", K(<<"w", {0}>>)), say(V("ret")), sleep, exit(K(0)) >>,
    prober |-> << regionIsLocked("file", K(<<"w", {0}>>), "pid"), say(V("pid")), lockRegionWait("file", K(<<"w", {0}>>)), say(V("ret")), exit(K(0)) >>,
    locking1 |-> i_fcntl_locking_main("file", R("in1")), locking2 |-> i_fcntl_locking_main("file", R("in2")),
    flockSh |-> t_flock_main("r", FALSE), flockEx |-> t_flock_main("w", FALSE), flockExNb |-> t_flock_main("w", TRUE)]

host == <<Addr("v6"), Addr("v4")>>
SocketsCode == [
    unixConnect |-> unixConnect(SV_SOCK_PATH, "c1"), unixBind |-> unixBind(SV_SOCK_PATH, Listener("path")),
    yunixconnect |-> yunixconnect(SV_SOCK_PATH, "c1"), yunixbind |-> yunixbind(SV_SOCK_PATH, Listener("path")),
    yunixAconnect |-> yunixAconnect(SV_SOCK_PATH, "c1"), yunixAbind |-> yunixAbind(SV_SOCK_PATH, Listener("abstract")),
    yunixbind_cl |-> yunixbind("c1", Dgram("path")), yunixbind_dgram |-> yunixbind(SV_SOCK_PATH, Dgram("path")),
    inetConnect |-> inetConnect(host, "c1"), inetConnect2 |-> inetConnect(host, "c2"),
    inetListen |-> inetListen(host), inetBind |-> inetBind(<<Addr("echo")>>),
    readLine |-> readLine(2), yreadLine |-> yreadLine(2), readLineBuf |-> readLineBuf(2), readLineBufInit |-> readLineBufInit,
    ybio_init |-> ybio_init, ybio_read |-> ybio_read, ybio_readl |-> ybio_readl(2), readn |-> readn(2), writen |-> writen(2),
    us_xfr_cl |-> us_xfr_cl_main("c1"), us_xfr_cl2 |-> us_xfr_cl_main("c2"), us_xfr_sv |-> us_xfr_sv_main,
    yus_xfr_cl |-> yus_xfr_cl_main("c1"), yus_xfr_sv |-> yus_xfr_sv_main,
    us_xfr_v2_cl |-> us_xfr_v2_cl_main, us_xfr_v2_sv |-> us_xfr_v2_sv_main,
    exr5903_us_xfr_cl |-> exr5903_us_xfr_cl_main, exr5903_us_xfr_sv |-> exr5903_us_xfr_sv_main,
    exr5903_a_us_xfr_cl |-> exr5903_a_us_xfr_cl_main, exr5903_a_us_xfr_sv |-> exr5903_a_us_xfr_sv_main,
    exr5702_cl |-> exr5702_cl_main("c1"), exr5702_sv |-> exr5702_sv_main, us_abstract_bind |-> us_abstract_bind_main,
    SANBOX |-> us_socket_SANBOX, us_socket |-> << call("SANBOX"), exit(K(0)) >>,
    ud_ucase_cl |-> ud_ucase_cl_main("c1", <<"a", "b">>), ud_ucase_cl2 |-> ud_ucase_cl_main("c2", <<"c">>), ud_ucase_sv |-> ud_ucase_sv_main,
    yud_ucase_cl |-> yud_ucase_cl_main("c1", <<"a">>), yud_ucase_sv |-> yud_ucase_sv_main,
    exr5903_ud_ucase_cl |-> exr5903_ud_ucase_cl_main("c1", <<"a">>), exr5903_ud_ucase_sv |-> exr5903_ud_ucase_sv_main,
    i6d_ucase_cl |-> i6d_ucase_cl_main("p1", <<"a", "b">>), i6d_ucase_sv |-> i6d_ucase_sv_main,
    yi6d_ucase_cl |-> yi6d_ucase_cl_main("p1", <<"a">>), yi6d_ucase_sv |-> yi6d_ucase_sv_main,
    exr5701_cl |-> exr5701_cl_main("c1"), exr5701_sv |-> exr5701_sv_main(3),
    exr5704_a |-> exr5704_a_main(R("in1")), exr5704_b |-> exr5704_b_main, exr5704_c |-> exr5704_c_main(R("in2")),
    is_seqnum_cl |-> is_seqnum_cl_main("inetConnect", 1), is_seqnum_cl2 |-> is_seqnum_v2_cl_main("inetConnect2", 2),
    is_seqnum_bad |-> is_seqnum_cl_main("inetConnect2", -1), is_seqnum_sv |-> is_seqnum_sv_main(0), is_seqnum_v2_sv |-> is_seqnum_v2_sv_main(0),
    yis_seqnum_cl |-> yis_seqnum_cl_main("inetConnect", 1), yis_seqnum_sv |-> yis_seqnum_sv_main(0),
    exr5901_cl |-> exr5901_cl_main("inetConnect", 1), exr5901_sv |-> exr5901_sv_main(0),
    exr5902_cl |-> exr5902_cl_main("inetConnect2", 2), exr5902_sv |-> exr5902_sv_main(0),
    is_echo_grimReaper |-> is_echo_grimReaper, handleRequest |-> handleRequest, is_echo_sv |-> is_echo_sv_main,
    is_echo_v2_sv |-> is_echo_v2_sv_main(FALSE, stdin), is_echo_v2_inetd |-> is_echo_v2_sv_main(TRUE, <<"c1", "b">>),
    is_echo_inetd_sv |-> is_echo_inetd_sv_main(<<"c1", "b">>), is_echo_cl |-> is_echo_cl_main("inetConnect"),
    caller |-> << call("inetConnect"), exit(K(0)) >>, caller2 |-> << call("inetConnect2"), exit(K(0)) >>,
    echoed |-> << write(K(<<"c1", "a">>), K("x")), shutdown(K(<<"c1", "a">>)), read(K(<<"c1", "a">>), "buf"), say(V("buf")), exit(K(0)) >>,
    id_echo_sv |-> id_echo_sv_main, id_echo_cl |-> id_echo_cl_main("p1", <<"a", "b">>), socknames |-> socknames_main("c1"),
    unixConnect_scm |-> unixConnect(SOCK_PATH, "c1"), unixBind_scm |-> unixBind(SOCK_PATH, Listener("path")),
    sendfd |-> sendfd(<<R("file")>>), recvfd |-> recvfd,
    sendsFd |-> << let("sockfd", K(<<"c1", "a">>)), call("sendfd"), exit(K(0)) >>,
    recvsFd |-> << let("sockfd", K(<<"c1", "b">>)), call("recvfd"), say(V("fd")), exit(K(0)) >>,
    scm_rights_send |-> scm_rights_send_main(R("file")), scm_rights_recv |-> scm_rights_recv_main,
    scm_cred_send |-> scm_cred_send_main(0), scm_cred_send1 |-> scm_cred_send_main(1), scm_cred_recv |-> scm_cred_recv_main,
    scm_multi_send |-> scm_multi_send_main(<<R("file"), R("file2")>>, 0, TRUE), scm_multi_recv |-> scm_multi_recv_main(2),
    reader |-> << sigaction("INT", K(act("ignoring", {}, {})), ""), let("fd", K(R("in"))), call("readn"), say(V("ret")), exit(K(0)) >>,
    ignoring |-> << return >>,
    writer |-> << let("fd", K(W("in"))), call("writen"), say(V("ret")), exit(K(0)) >>,
    lineReader |-> << let("fd", K(R("in"))), call("readLineBufInit"), label("for"), call("readLineBuf"), say(V("ret")),
                      when(V("ret"), {0}, "end"), goto("for"), label("end"), exit(K(0)) >>]

FilesCode == [
    bad_exclusive_open |-> bad_exclusive_open_main(FALSE), bad_exclusive_slow |-> bad_exclusive_open_main(TRUE),
    ybadoexcl1 |-> ybadoexcl_main("a"), ybadoexcl2 |-> ybadoexcl_main("b"), yoexcl1 |-> yoexcl_main("a"), yoexcl2 |-> yoexcl_main("b"),
    append1 |-> atomic_append_main(2, FALSE, "a"), append2 |-> yatomicappend_main(2, FALSE, "b"),
    lseek1 |-> atomic_append_main(1, TRUE, "a"), lseek2 |-> yatomicappend_main(1, TRUE, "b"),
    copy |-> copy_main, ycopy |-> ycopy_main, exr0401 |-> exr0401_main(FALSE), exr0401a |-> exr0401_main(TRUE),
    multi_descriptors |-> multi_descriptors_main, anon_mmap |-> anon_mmap_main, mmcat |-> mmcat_main, mmcopy |-> mmcopy_main,
    t_mmap |-> t_mmap_main("hello"), t_mmap0 |-> t_mmap_main("")]

\* A shell that stops and continues its job, looks at the terminal whenever it
\* has it, and finally ends the job
ttyShell(prog, last) == <<
    fork, when(V("ret"), {0}, "child"), let("job", V("ret")), try(setpgid(V("job"))), sleep >> \o
    (IF last = "INT" THEN << try(kill(V("job"), "TSTP")), waitpid(V("job"), {"UNTRACED"}), load("tty", "settings"), say(V("settings")),
                            when(fld(V("status"), 1), {"exit", "sig"}, "end"), try(kill(V("job"), "CONT")) >> ELSE <<>>) \o <<
    try(kill(V("job"), last)), label("wait"), waitpid(V("job"), {}), label("end"), say(V("status")), exit(K(0)),
    label("child"), setpgid(K(0)), execve(K(prog)) >>
TerminalsCode == [
    ttySetCbreak |-> ttySetCbreak, ttySetRaw |-> ttySetRaw, test_tty_functions_handler |-> test_tty_functions_handler,
    test_tty_functions_tstpHandler |-> test_tty_functions_tstpHandler,
    test_tty_cbreak |-> test_tty_functions_main(TRUE), test_tty_raw |-> test_tty_functions_main(FALSE),
    ttyShell |-> ttyShell("test_tty_cbreak", "INT"), ttyShellRaw |-> ttyShell("test_tty_raw", "TERM"),
    no_echo |-> no_echo_main, sigwinchHandler |-> sigwinchHandler, demo_SIGWINCH |-> demo_SIGWINCH_main,
    resizer |-> << sleep, store("winsize", K(2)), kill(K(1), "WINCH"), store("winsize", K(3)), kill(K(1), "WINCH"), exit(K(0)) >>,
    ptyMasterOpen |-> ptyMasterOpen, ptyFork |-> ptyFork, ttyReset |-> ttyReset, script |-> script_main("echo"), unbuffer |-> unbuffer_main("echo"),
    echo |-> << read(K(<<"pty", "b">>), "line"), write(K(<<"pty", "b">>), V("line")), write(K(<<"pty", "b">>), K("end")), exit(K(0)) >>]

NamespacesCode == [
    simple_init_child_handler |-> simple_init_child_handler, simple_init |-> << prctl_subreaper >> \o simple_init_main,
    true |-> << exit(K(0)) >>, sleep |-> << sleep, exit(K(0)) >>, make_orphans |-> make_orphans_main(2), ns_orphan |-> ns_orphan_main,
    pidns_init_sleep_childFunc |-> pidns_init_sleep_childFunc, pidns_init_sleep |-> pidns_init_sleep_main,
    multi_pidns_childFunc |-> multi_pidns_childFunc, multi_pidns |-> multi_pidns_main(2),
    demo_uts_childFunc |-> demo_uts_childFunc("child"), demo_uts |-> demo_uts_main,
    ns_child_exec_childFunc |-> ns_child_exec_childFunc("true"), ns_child_exec |-> ns_child_exec_main({"NEWPID"}),
    demo_userns_childFunc |-> demo_userns_childFunc(FALSE), demo_userns |-> demo_userns_main,
    ns_run |-> ns_run_main(TRUE, "true"), ns_exec |-> ns_exec_main(TRUE, "true"), unshare |-> unshare_main(TRUE, "true"),
    update_uid_map |-> update_map("uid_map"), update_gid_map |-> update_map("gid_map"), proc_setgroups_write |-> proc_setgroups_write,
    update_child_maps |-> update_child_maps(TRUE), userns_childFunc |-> userns_childFunc("showMaps"), userns_child_exec |-> userns_child_exec_main,
    showMaps |-> << load("uid_map", "uid"), load("gid_map", "gid"), say(V("uid")), say(V("gid")), exit(K(0)) >>]

SeccompCode == [
    cookieIsValid |-> cookieIsValid, getTargetPathname |-> getTargetPathname, sigchldHandler_bye |-> sigchldHandler_bye,
    mkdir_sigintHandler |-> mkdir_sigintHandler, installNotifyFilter |-> installNotifyFilter, closeSocketPair |-> closeSocketPair,
    mkdir_targetProcess |-> mkdir_targetProcess, mkdir_handleNotifications |-> mkdir_handleNotifications(0),
    mkdir_supervisor |-> mkdir_supervisor, seccomp_unotify_mkdir |-> mkdir_main, sendNotifyFd |-> sendfd(<<Addr("notify")>>),
    openat_targetProcess |-> openat_targetProcess, openat_handleNotifications |-> openat_handleNotifications,
    openat_supervisor |-> openat_supervisor, seccomp_unotify_openat |-> openat_main,
    interrupter |-> << sleep, try(kill(K(2), "INT")), exit(K(0)) >>]

SvIpcCode == [
    waitForEventFlag |-> waitForEventFlag("flag"), clearEventFlag |-> clearEventFlag("flag"), setEventFlag |-> setEventFlag("flag"),
    getFlagState |-> getFlagState("flag"),
    flagWaiter |-> << sigaction("INT", K(act("ignoring", {}, {})), ""), call("waitForEventFlag"), say(V("ret")), call("getFlagState"), say(V("isSet")), exit(K(0)) >>,
    flagSetter |-> << call("clearEventFlag"), sleep, call("setEventFlag"), exit(K(0)) >>,
    svsem_demo_create |-> svsem_demo_main(TRUE, 0), svsem_demo_wait |-> svsem_demo_main(FALSE, -1), svsem_demo_post |-> svsem_demo_main(FALSE, 1),
    svsem_create |-> svsem_create_main({"CREAT", "EXCL"}), svsem_setall |-> svsem_setall_main(<<1>>), svsem_rm |-> removes("svsem"),
    svmsg_create |-> svmsg_create_main({"CREAT"}), svmsg_send1 |-> svmsg_send_main(FALSE, 1, "a"), svmsg_send2 |-> svmsg_send_main(TRUE, 2, "b"),
    svmsg_receive |-> svmsg_receive_main(0, {}), svmsg_receive2 |-> svmsg_receive_main(-2, {}), svmsg_except |-> svmsg_receive_main(1, {"EXCEPT", "NOWAIT"}),
    svmsg_rm |-> svmsg_rm_main, svshm_create |-> svshm_create_main({"CREAT"}), svshm_attach |-> svshm_attach_main, svshm_rm |-> svshm_rm_main]

StrerrorCode == [
    strerror |-> strerror_static, strerror_tls |-> strerror_tls, strerror_tsd |-> strerror_tsd, createKey |-> createKey,
    static_threadFunc |-> strerror_test_threadFunc("strerror"), static_test |-> strerror_test_main("strerror", "static_threadFunc"),
    tls_threadFunc |-> strerror_test_threadFunc("strerror_tls"), tls_test |-> strerror_test_main("strerror_tls", "tls_threadFunc"),
    tsd_threadFunc |-> strerror_test_threadFunc("strerror_tsd"), tsd_test |-> strerror_test_main("strerror_tsd", "tsd_threadFunc"),
    simple_thread_threadFunc |-> simple_thread_threadFunc, simple_thread |-> simple_thread_main, exr2901_routine |-> exr2901_routine, exr2901 |-> exr2901_main]

Programs == FilesCode @@ TerminalsCode @@ NamespacesCode @@ SeccompCode @@ SvIpcCode @@ StrerrorCode @@ DaemonsCode @@ SocketsCode @@ ProcexecCode @@ SignalsCode @@ PgsjcCode @@ AltioCode @@ PosixIpcCode @@ TimersCode @@ EnvCode
MCLibrary == Programs
MCCommands == {"systmErr", "sh3", "true", "ns_orphan"}

P(f) == [f |-> f, v |-> [argv |-> <<>>, environ |-> <<>>, command |-> ""], fds |-> {W("stdout")}]
None == [o \in {} |-> 0]

One(f, n) == [tasks |-> (1 :> P(f)), objs |-> [stdout |-> Pipe, umask |-> Cell("0"), umask2 |-> Cell("0")], n |-> n]
Two(f, g, n) == [tasks |-> (1 :> P(f)) @@ (5 :> P(g)), objs |-> [stdout |-> Pipe], n |-> n]

\* A user types at the keyboard, and sends SIGINT.
Keyboard(f) == [tasks |-> (1 :> [P(f) EXCEPT !.fds = @ \cup {R("stdin")}]) @@ (5 :> [P("typist") EXCEPT !.fds = {W("stdin")}]),
                objs |-> [stdin |-> Pipe], n |-> 2]
Typing(f, g) == [Keyboard(f) EXCEPT !.tasks[5].f = g]
\* f and the programs gs, on objects objs; all have the ends fds open
On(f, gs, fds, objs, n) == [tasks |-> [t \in {1} \cup {4 + k : k \in 1..Len(gs)} |->
                                        [P(IF t = 1 THEN f ELSE gs[t - 4]) EXCEPT !.fds = fds]],
                            objs |-> objs, n |-> n]
\* f at a terminal, g types
Tty(f, gs, n) == On(f, gs, {R("stdin"), W("stdin"), R("stdout"), W("stdout")}, [tty |-> Cell(Cooked), stdin |-> Pipe, stdout |-> Pipe], n)
Mq(f, g) == On(f, <<g>>, {}, [mq |-> Mqueue], 4)

\* A pipe that holds what a program will read, and then ends
Input(items) == [Pipe EXCEPT !.r = items]
Leftover == [svsock |-> Listener("path"), stdin |-> Input(<<"a", "b">>)]
OnStdin == [stdin |-> Input(<<"a", "b">>)]
Net(f, gs, objs) == On(f, gs, {R("stdin")}, objs, 1)

Systems == [
    bad_exclusive_open |-> On("bad_exclusive_open", <<"bad_exclusive_slow">>, {}, None, 1), ybadoexcl |-> On("ybadoexcl1", <<"ybadoexcl2">>, {}, None, 1),
    yoexcl |-> On("yoexcl1", <<"yoexcl2">>, {}, None, 1), atomic_append |-> On("append1", <<"append2">>, {}, None, 1),
    atomic_lseek |-> On("lseek1", <<"lseek2">>, {}, None, 1), copy |-> On("copy", <<"t_mmap0">>, {}, [src |-> File(<<"a", "b">>), map |-> File("x")], 1),
    ycopy |-> On("ycopy", <<>>, {}, [src |-> File(<<"a", "b">>)], 1), multi_descriptors |-> One("multi_descriptors", 1),
    exr0401 |-> On("exr0401", <<"exr0401a">>, {R("stdin"), R("stdout"), W("stdout")}, [stdin |-> Input(<<"a", "b">>), stdout |-> Pipe], 1),
    anon_mmap |-> One("anon_mmap", 2), mmap |-> On("t_mmap", <<"t_mmap0">>, {}, [map |-> File("x")], 1),
    mmcopy |-> On("mmcopy", <<"mmcat">>, {R("stdout"), W("stdout")}, [src |-> File(<<"a", "b">>), stdout |-> Pipe], 1),
    test_tty_cbreak |-> Tty("ttyShell", <<>>, 2), test_tty_raw |-> Tty("ttyShellRaw", <<"typeQ">>, 2),
    no_echo |-> Tty("no_echo", <<"typeB">>, 1), script |-> Tty("script", <<"typeB">>, 2), unbuffer |-> Tty("unbuffer", <<"typeB">>, 2),
    demo_SIGWINCH |-> On("demo_SIGWINCH", <<"resizer">>, {}, [winsize |-> Cell(1)], 1),
    simple_init |-> On("simple_init", <<>>, {R("stdin")}, [fg |-> Cell(0), stdin |-> Input(<<"", "true">>)], 2),
    simple_init_orphan |-> On("simple_init", <<>>, {R("stdin")}, [fg |-> Cell(0), stdin |-> Input(<<"ns_orphan">>)], 3),
    make_orphans |-> One("make_orphans", 3), ns_orphan |-> One("ns_orphan", 2), pidns_init_sleep |-> One("pidns_init_sleep", 2), multi_pidns |-> One("multi_pidns", 3),
    demo_uts |-> On("demo_uts", <<>>, {}, [hostname |-> Cell("host"), child_hostname |-> Cell("host")], 2), ns_child_exec |-> One("ns_child_exec", 2),
    demo_userns |-> On("demo_userns", <<>>, {}, [uid_map |-> Cell("")], 2), ns_run |-> On("ns_run", <<>>, {}, [ns |-> Cell(0)], 2),
    ns_exec |-> On("ns_exec", <<>>, {}, [ns |-> Cell(0)], 2), unshare |-> One("unshare", 2), unshareEAGAIN |-> One("unshare", 1),
    userns_child_exec |-> On("userns_child_exec", <<>>, {}, [uid_map |-> Cell(""), gid_map |-> Cell(""), setgroups |-> Cell("allow")], 2),
    userns_old_kernel |-> On("userns_child_exec", <<>>, {}, [uid_map |-> Cell(""), gid_map |-> Cell("")], 2),
    seccomp_mkdir |-> [On("seccomp_unotify_mkdir", <<"interrupter">>, {}, None, 2) EXCEPT !.tasks[1].v.argv = <<"tmp", "rel", "other">>],
    seccomp_bye |-> [On("seccomp_unotify_mkdir", <<>>, {}, None, 2) EXCEPT !.tasks[1].v.argv = <<"bye", "tmp">>],
    seccomp_openat |-> [On("seccomp_unotify_openat", <<>>, {}, None, 2) EXCEPT !.tasks[1].v.argv = <<"new">>],
    event_flag |-> On("flagWaiter", <<"flagSetter", "send2INT">>, {}, [flag |-> Sem(1)], 1),
    svsem_demo |-> On("svsem_demo_wait", <<"svsem_demo_post", "svsem_rm">>, {}, [svsem |-> Sem(0)], 1),
    svsem_create |-> On("svsem_create", <<"svsem_create">>, {}, None, 1), svsem_setall |-> On("svsem_demo_wait", <<"svsem_setall">>, {}, [svsem |-> Sem(0)], 1),
    svsem_demo_create |-> On("svsem_demo_create", <<"svsem_demo_create">>, {}, None, 1),
    svmsg |-> [On("svmsg_receive", <<"svmsg_send1", "svmsg_send2", "svmsg_except">>, {}, [msgq |-> Msgq], 1) EXCEPT !.tasks = @ @@ (2 :> P("svmsg_rm"))],
    svmsg_type |-> On("svmsg_receive2", <<"svmsg_send1", "svmsg_send2", "svmsg_send1">>, {}, [msgq |-> Msgq], 1),
    svmsg_create |-> On("svmsg_create", <<>>, {}, None, 1), svshm |-> On("svshm_create", <<"svshm_attach", "svshm_rm">>, {}, None, 1),
    strerror |-> One("static_test", 2), strerror_tls |-> One("tls_test", 2),
    strerror_tsd |-> [On("tsd_test", <<>>, {}, [once |-> Mutex], 2) EXCEPT !.tasks[1].v = @ @@ [strerrorKey |-> 0]],
    simple_thread |-> One("simple_thread", 2), exr2901 |-> One("exr2901", 2),
    become_daemon |-> One("test_become_daemon", 3),
    daemon_SIGHUP |-> On("daemon_SIGHUP", <<"admin">>, {}, [conf |-> File("old")], 3),
    createPidFile |-> On("instance", <<"instance">>, {}, None, 1), region_locking |-> On("locker", <<"prober">>, {}, [file |-> LockFile], 1),
    i_fcntl_locking |-> On("locking1", <<"locking2">>, {R("in1"), R("in2")},
        [file |-> LockFile, in1 |-> Input(<< <<"w", <<"w", {0}>> >>, <<"w", <<"r", {1}>> >>, <<"s", <<"u", {0, 1}>> >> >>),
         in2 |-> Input(<< <<"w", <<"w", {1}>> >>, <<"g", <<"r", {0}>> >>, <<"w", <<"w", {0}>> >>, <<"?", <<"u", {}>> >> >>)], 1),
    t_flock |-> On("flockSh", <<"flockEx", "flockExNb">>, {}, [file |-> LockFile], 1),
    us_xfr |-> Net("us_xfr_sv", <<"us_xfr_cl", "us_xfr_cl2">>, Leftover), yus_xfr |-> Net("yus_xfr_sv", <<"yus_xfr_cl">>, OnStdin),
    us_xfr_v2 |-> Net("us_xfr_v2_sv", <<"us_xfr_v2_cl">>, OnStdin), us_xfr_v2_old |-> Net("us_xfr_v2_sv", <<"us_xfr_v2_cl">>, Leftover),
    exr5903_us_xfr |-> Net("exr5903_us_xfr_sv", <<"exr5903_us_xfr_cl">>, Leftover),
    exr5903_a_us_xfr |-> Net("exr5903_a_us_xfr_sv", <<"exr5903_a_us_xfr_cl">>, OnStdin),
    exr5702 |-> Net("exr5702_sv", <<"exr5702_cl">>, OnStdin), us_abstract_bind |-> Net("us_abstract_bind", <<"us_abstract_bind">>, None),
    us_socket |-> Net("us_socket", <<>>, None), ud_ucase |-> Net("ud_ucase_sv", <<"ud_ucase_cl", "ud_ucase_cl2">>, None),
    yud_ucase |-> Net("yud_ucase_sv", <<"yud_ucase_cl">>, Leftover), exr5903_ud |-> Net("exr5903_ud_ucase_sv", <<"exr5903_ud_ucase_cl">>, Leftover),
    i6d_ucase |-> Net("i6d_ucase_sv", <<"i6d_ucase_cl">>, None), yi6d_ucase |-> Net("yi6d_ucase_sv", <<"yi6d_ucase_cl">>, None),
    exr5701 |-> Net("exr5701_sv", <<"exr5701_cl">>, None),
    exr5704 |-> On("exr5704_a", <<"exr5704_b", "exr5704_c">>, {R("in1"), R("in2")}, [in1 |-> Input(<<"a", "c:">>), in2 |-> Input(<<"a:", "b", "newline">>)], 1),
    is_seqnum |-> Net("is_seqnum_sv", <<"is_seqnum_cl", "is_seqnum_cl2">>, None), is_seqnum_bad |-> Net("is_seqnum_v2_sv", <<"is_seqnum_cl", "is_seqnum_bad">>, None),
    yis_seqnum |-> Net("yis_seqnum_sv", <<"yis_seqnum_cl">>, None), exr5901 |-> Net("exr5901_sv", <<"exr5901_cl", "exr5902_cl">>, None),
    exr5902 |-> Net("exr5902_sv", <<"exr5901_cl">>, None),
    is_echo |-> [On("is_echo_sv", <<>>, {R("stdin")}, OnStdin, 6) EXCEPT !.tasks = @ @@ (7 :> [P("is_echo_cl") EXCEPT !.fds = {R("stdin")}])],
    is_echo_v2 |-> [On("is_echo_v2_sv", <<>>, {R("stdin")}, OnStdin, 6) EXCEPT !.tasks = @ @@ (7 :> P("caller")) @@ (8 :> P("caller2"))],
    is_echo_inetd |-> On("is_echo_inetd_sv", <<"echoed">>, {<<"c1", "a">>, <<"c1", "b">>}, [c1 |-> Socket], 1),
    is_echo_v2_inetd |-> On("is_echo_v2_inetd", <<"echoed">>, {<<"c1", "a">>, <<"c1", "b">>}, [c1 |-> Socket], 1),
    id_echo |-> On("id_echo_sv", <<"id_echo_cl">>, {}, None, 3), socknames |-> Net("socknames", <<>>, None),
    sendfd |-> [On("sendsFd", <<"recvsFd">>, {}, [c1 |-> Socket, file |-> Input(<<"x">>)], 1) EXCEPT !.tasks[1].fds = {<<"c1", "a">>, R("file")}, !.tasks[5].fds = {<<"c1", "b">>}],
    scm_rights |-> [On("scm_rights_recv", <<"scm_rights_send">>, {}, [scm |-> Listener("path"), file |-> Input(<<"x", "y">>)], 1) EXCEPT !.tasks[5].fds = {R("file")}],
    scm_cred |-> On("scm_cred_recv", <<"scm_cred_send", "scm_cred_send1">>, {}, None, 1),
    scm_multi |-> [On("scm_multi_recv", <<"scm_multi_send">>, {}, [file |-> Input(<<"x">>), file2 |-> Input(<<"y">>)], 1) EXCEPT !.tasks[5].fds = {R("file"), R("file2")}],
    rdwrn |-> [On("reader", <<"writer", "send2INT">>, {}, [in |-> Pipe], 1) EXCEPT !.tasks[1].fds = {R("in")}, !.tasks[5].fds = {W("in")}],
    read_line_buf |-> On("lineReader", <<>>, {R("in")}, [in |-> Input(<<1, 2, NL, NL>>)], 1),
    t_fork |-> One("t_fork", 2), t_vfork |-> One("t_vfork", 2), vfork_fd_test |-> One("vfork_fd_test", 2),
    fork_file_sharing |-> One("fork_file_sharing", 2),
    fork_whos_on_first |-> One("fork_whos_on_first", 3), footprint |-> One("footprint", 2),
    orphan |-> One("orphan", 2), multi_wait |-> One("multi_wait", 3), multi_SIGCHLD |-> One("multi_SIGCHLD", 4),
    child_status |-> Two("child_status", "userJob", 2), child_status5 |-> One("child_status5", 2),
    fork_sig_sync |-> One("fork_sig_sync", 2), system |-> Two("reapingCaller", "userINT", 2), system_null |-> One("shellAsker", 2),
    t_system |-> On("t_system", <<>>, {R("stdin")}, [stdin |-> Input(<<"sh3", "true">>)], 3),
    simple_system |-> On("t_simple_system", <<>>, {R("stdin")}, [stdin |-> Input(<<"sh3">>)], 2),
    make_zombie |-> [One("make_zombie", 4) EXCEPT !.tasks[1].v.command = "true"], fork_stdio_buf |-> [On("fork_stdio_buf", <<"stdoutReader">>, {W("stdout")}, [stdout |-> Pipe], 2) EXCEPT !.tasks[5].fds = {R("stdout")}],
    systemEAGAIN |-> Two("reapingCaller", "userINT", 1),
    t_execve |-> One("t_execve", 1), t_execl |-> One("t_execl", 1), closeonexec |-> One("closeonexec", 1),
    t_clone |-> One("t_clone", 2), demo_clone |-> One("demo_clone", 2), pdeath |-> One("pdeath", 4),
    sig_receiver |-> Two("sig_receiver", "send2USR1", 2), ysig_receiver |-> Two("ysig_receiver", "ysend2USR1", 2),
    exr2001 |-> Two("exr2001", "send2USR1", 2), catch_rtsigs |-> Two("catch_rtsigs", "queue2", 2),
    t_sigwaitinfo |-> Two("t_sigwaitinfo", "queue2", 2), signalfd_sigval |-> Two("signalfd_sigval", "queue2", 2),
    intquit |-> Two("intquit", "sendINTQUIT", 2), yintquit |-> Two("yintquit", "sendINTQUIT", 2),
    ouch |-> Two("ouch", "sendINT", 2), youch |-> Two("youch", "sendINT", 2), t_kill0 |-> Two("t_fork", "t_kill0", 2),
    t_killTERM |-> Two("t_fork", "t_killTERM", 2),
    t_sigsuspend |-> Two("t_sigsuspend", "sendINTQUIT", 2), sig_speed |-> One("sig_speed", 2),
    listing_2204 |-> Two("listing_2204", "sendINT", 2), listing_2005 |-> Two("listing_2005", "sendINT", 2),
    exr2002 |-> One("exr2002", 2), ignore_pending_sig |-> Two("ignore_pending_sig", "sendINT", 2),
    nodefer |-> One("nodefer", 1), defer |-> One("defer", 1), resethand |-> One("resethand", 1),
    exr2004 |-> Keyboard("exr2004"), exr2004restart |-> Keyboard("exr2004restart"),
    t_sigaltstack |-> One("t_sigaltstack", 1), demo_SIGFPE |-> One("demo_SIGFPE", 1), 
    sigmask_longjmp |-> Two("sigmask_longjmp", "send2INT", 2), 
    exr2101_test1 |-> One("exr2101_test1", 1), exr2101_test2 |-> One("exr2101_test2", 1),
    exr2101_test3 |-> One("exr2101_test3", 1), exr2101_test4 |-> One("exr2101_test4", 1),
    nonatomic_uint64 |-> One("nonatomic_uint64", 2), nonreentrant |-> Two("nonreentrant", "send2INT", 2),
    catch_SIGHUP |-> Two("catch_SIGHUP", "disconnect", 2), disc_SIGHUP |-> Two("disc_SIGHUP", "disconnect", 3),
    handling_SIGTSTP |-> One("tstpShell", 2), job_mon |-> [On("job_mon1", <<"job_mon2">>, {}, [p |-> Pipe], 1) EXCEPT !.tasks[1].fds = {W("p")}, !.tasks[5].fds = {R("p")}],
    orphaned_pgrp_SIGHUP |-> One("orphaned", 4), t_setsid |-> One("t_setsid", 2),
    demo_sigio |-> Tty("demo_sigio", <<"typeHash">>, 1),
    epoll_flags_fork |-> On("epoll_flags_fork", <<"toFifo">>, {R("fifo"), W("fifo")}, [fifo |-> Pipe], 3),
    epoll_input |-> [On("epoll_input", <<"inputs">>, {R("stdin"), R("fifo")}, [stdin |-> Pipe, fifo |-> Pipe], 1) EXCEPT !.tasks[5].fds = {W("stdin"), W("fifo")}],
    multithread_epoll_wait |-> One("multithread_epoll_wait", 3), multithread_epoll_et |-> One("multithread_epoll_et", 3),
    poll_pipes |-> One("poll_pipes", 1), t_select |-> Typing("t_select", "type1"),
    select_mq |-> On("select_mq", <<"senders">>, {R("stdin"), W("stdin")}, [q1 |-> Mqueue, q2 |-> Mqueue, stdin |-> Pipe], 3),
    self_pipe |-> Typing("self_pipe", "type1"), self_pipe_int |-> On("self_pipe", <<"send2INT">>, {R("stdin"), W("stdin")}, [stdin |-> Pipe], 1),
    self_pipe_to |-> Typing("self_pipe_to", "typist"),
    pmsg |-> [On("pmsg_create", <<"pmsg_send_nb", "pmsg_receive_nb">>, {}, None, 1) EXCEPT !.tasks = @ @@ (4 :> P("pmsg_unlink")) @@ (3 :> P("pmsg_open"))],
    pmsg_prio |-> On("pmsg_send", <<"pmsg_send_nb", "pmsg_receive", "pmsg_send">>, {}, [mq |-> Mqueue], 1),
    mq_notify_sig |-> Mq("mq_notify_sig", "send3"), mq_notify_via_signal |-> Mq("mq_notify_via_signal", "send3"),
    mq_notify_siginfo |-> Mq("mq_notify_siginfo", "send3"), mq_notify_sigwaitinfo |-> Mq("mq_notify_sigwaitinfo", "send3"),
    mq_notify_thread |-> Mq("mq_notify_thread", "send3"), mq_notify_via_thread |-> Mq("mq_notify_via_thread", "send2"),
    psem |-> [On("psem_create", <<"psem_trywait", "psem_getvalue">>, {}, None, 1) EXCEPT !.tasks = @ @@ (4 :> P("psem_unlink"))],
    psem_wait |-> On("psem_wait", <<"psem_post", "exr5302">>, {}, [sem |-> Sem(0)], 1),
    psem_timedwait |-> On("psem_timedwait", <<"psem_post">>, {}, [sem |-> Sem(0)], 1),
    psem_wrappers |-> One("wrapped", 1), ypsem_timedwait |-> One("ypsem_timedwait", 1), thread_incr_psem |-> One("thread_incr_psem_main", 3), ythread_incr_psem |-> One("ythread_incr_psem", 3),
    pshm |-> On("pshm_create", <<"pshm_read", "pshm_write">>, {}, None, 1),
    pshm_removed |-> [On("pshm_create", <<"pshm_write">>, {}, None, 1) EXCEPT !.tasks = @ @@ (4 :> P("pshm_unlink"))],
    ptmr_null_evp |-> One("ptmr_null_evp", 1), ptmr_sigev_signal |-> One("ptmr_sigev_signal", 1),
    ptmr_sigev_thread |-> On("ptmr_sigev_thread", <<>>, {}, [mtx |-> Mutex, cond |-> Cond, expireCnt |-> Cell(0)], 4),
    real_timer |-> One("real_timer", 1), demo_timerfd |-> One("demo_timerfd", 1), t_nanosleep |-> Two("t_nanosleep", "sendINT", 1), t_clock_nanosleep |-> Two("t_clock_nanosleep", "sendINT", 1),
    timed_read |-> Typing("timed_read", "type1")]
MCBoot == Systems

-----------------------------------------------------------------------------
(* What the systems are checked for.  A task keeps what it said (out) and  *)
(* how it ended (ws) after its end.                                        *)

Ended(t, status) == task[t].ws = <<"exit", status>>
Content(o) == obj[o].x

\* Programs that serve, monitor or wait for signals without end
Servers == {
    "ouch", "youch", "us_xfr_sv", "yus_xfr_sv", "us_xfr_v2_sv", "exr5702_sv", "exr5903_us_xfr_sv", "exr5903_a_us_xfr_sv",
    "ud_ucase_sv", "yud_ucase_sv", "exr5903_ud_ucase_sv", "i6d_ucase_sv", "yi6d_ucase_sv", "exr5701_sv",
    "exr5704_a", "exr5704_b", "is_seqnum_sv", "is_seqnum_v2_sv", "yis_seqnum_sv", "exr5901_sv", "exr5902_sv", "is_echo_sv",
    "is_echo_v2_sv", "id_echo_sv", "scm_cred_recv", "scm_multi_recv", "scm_rights_recv",
    "catch_rtsigs", "signalfd_sigval", "t_sigwaitinfo", "sigmask_longjmp", "child_status", "job_mon1", "job_mon2",
    "ptmr_null_evp", "ptmr_sigev_signal", "ptmr_sigev_thread", "demo_SIGWINCH", "nonatomic_uint64", "nonatomic_handler", "nonreentrant", "daemon_SIGHUP",
    "mq_notify_sig", "mq_notify_sigwaitinfo", "mq_notify_thread", "mq_notify_via_thread", "mq_notify_via_signal",
    "mq_notify_siginfo", "select_mq", "childMon1", "childMon2", "senders", "psem_wait",
    "epoll_flags_fork", "epoll_flags_fork_child"}
\* Programs that can miss what they wait for, that wait for a message that is
\* lost, or whose timer expires faster than they run
Stranded == {
    "listing_2204", "exr2001", "simple_init", "recvfd", "orphaned_pgrp_SIGHUP", "send3",
    "i6d_ucase_cl", "yi6d_ucase_cl", "id_echo_cl", "real_timer", "real_timer_sigalrmHandler"}

\* Every program ends that is not a server: no process or thread misses the
\* signal, the end of file, the event or the child's exit it waits for, in
\* whatever order the others run (sigsuspend() in multi_SIGCHLD.c, select() and
\* the pipe in self_pipe.c, epoll_wait(), waitForEventFlag(), readn()).
ProgramsEnd == <>[](\A t \in Tasks : Alive(task[t]) => task[t].f \in Servers \cup Stranded)

\* Readers that do not look at the queue when they have registered
RegisterOnly == {"mq_notify_sig", "mq_notify_sigwaitinfo", "mq_notify_thread"}
MqReaders == RegisterOnly \cup {"mq_notify_via_signal", "mq_notify_siginfo", "mq_notify_via_thread"}

\* What a notification announces is acted on.  Finally the message queue is
\* empty, unless the reader was never notified because it registered on a queue
\* that was not empty: its registration is then still in place (mq_notify_*.c);
\* and finally the daemon runs with the configuration that was written before
\* SIGHUP was sent (daemon_SIGHUP.c).
NotificationsActedOn == <>[](
    /\ system \in MqReaders =>
         \/ obj["mq"].q = <<>>
         \/ system \in RegisterOnly /\ obj["mq"].owner # 0 /\ \A t \in Tasks : task[t].out = <<>>
    /\ system = "daemon_SIGHUP" => Alive(task[3]) /\ task[3].v["config"] = "new")

\* Of several programs that create the same object at most one believes it is
\* the creator, and it is the one whose data the object has (yoexcl.c); the
\* semaphore set is created once (svsem_create.c, svsem_demo.c); and at most one
\* instance runs behind the lock on the PID file (create_pid_file.c).
OneCreator ==
    LET creators == {t \in Tasks : task[t].out = <<"created">>} IN
    /\ system = "yoexcl" =>
         /\ Cardinality(creators) <= 1
         /\ Ended(1, 0) /\ Ended(5, 0) => Content("file") = <<IF 1 \in creators THEN "a" ELSE "b">>
    /\ system \in {"svsem_create", "svsem_demo_create"} => Cardinality({t \in Tasks : Ended(t, 0)}) <= 1
    /\ system = "createPidFile" =>
         Cardinality({t \in Tasks : Alive(task[t]) /\ task[t].out = <<"running">>}) <= 1

Streams == {"us_xfr", "yus_xfr", "us_xfr_v2", "exr5702", "exr5903_us_xfr", "exr5903_a_us_xfr"}
Items(s) == {s[k] : k \in DOMAIN s}
OnceEach(s, items) == Items(s) = items /\ Len(s) = Cardinality(items)

\* What the program got is all that was typed; it is less only if the user
\* began to type before the program had changed the settings (TCSAFLUSH).
Typed(got, all, late) == got = all \/ (got = late /\ task[5].out = <<Cooked>>)

\* When all is at rest (a program that spins and changes nothing is at rest, too),
\* what one side wrote the other side has, every item once, save what was typed
\* before the program flushed the terminal's input to change its settings:
\* through stream sockets unless no client got a connection (us_xfr), passed
\* descriptors (scm_rights), edge-triggered and signal-driven input (epoll_input,
\* demo_sigio), readn()/writen() that signals interrupt (rdwrn.c), the relay of
\* script.c, two appenders on one file (atomic_append.c), and copies.
NothingLost == Quiet =>
    /\ system \in Streams => IF \E t \in {5, 6} : Ended(t, 0) THEN OnceEach(task[1].out, {"a", "b"})
                             ELSE task[1].out = <<>>
    /\ system = "scm_rights" /\ Ended(5, 0) => task[1].out = <<"x", "y">>
    /\ system = "epoll_input" => OnceEach(task[1].out, {"a", "b", "x"})
    /\ system = "demo_sigio" => Typed(task[1].out, <<"a", "b", "#">>, <<"b", "#">>)
    /\ system = "rdwrn" /\ Ended(1, 0) => task[1].out = <<2>> /\ task[5].out = <<2>>
    /\ system = "select_mq" => OnceEach(task[1].out, {<<"q1", <<1, "m1">>>>, <<"q2", <<1, "m2">>>>, <<"q1", <<1, "m3">>>>})
    /\ system = "script" => Typed(Content("typescript"), <<"a", "end">>, <<"b", "end">>) /\ obj["stdout"].r = Content("typescript")
    /\ system = "atomic_append" => Len(Content("log")) = 4
    /\ system \in {"copy", "ycopy", "mmcopy"} => Content("dst") = Content("src")

\* The terminal has the user's settings whenever the program does not have the
\* terminal: while the TSTP handler has stopped it, and when it has ended through
\* exit(), from a handler as well (test_tty_functions.c, no_echo.c, demo_sigio.c,
\* script.c, unbuffer.c).
TtyRestored ==
    LET job == IF system \in {"test_tty_cbreak", "test_tty_raw"} THEN 2 ELSE 1 IN
    /\ system \in {"test_tty_cbreak", "test_tty_raw", "no_echo", "demo_sigio", "script", "unbuffer"}
    /\ \/ task[job].st = "stop" /\ task[job].f = "test_tty_functions_tstpHandler"
       \/ Ended(job, 0)
    => Content("tty") = Cooked

\* What a program finds after it has waited is what the other one did before:
\* system() reports how its child ended although a SIGCHLD handler reaps every
\* child there is, and that there is a shell (system.c; simple_system.c, which
\* leaves signals alone, where there is no such handler), waitForEventFlag()
\* returns with the flag set and not because of a signal (event_flags.c), the child of
\* userns_child_exec.c executes the command with its maps written, the parent
\* of fork_sig_sync.c goes on when the child's work is done, and joining threads
\* leaves all increments made and strerror()'s result as it was (strerror_t*.c).
TrueAfterWait ==
    /\ system \in {"system", "simple_system", "footprint", "child_status5"} =>
         \A k \in DOMAIN task[1].out : task[1].out[k] = task[2].ws
    /\ system = "system_null" => Items(task[1].out) \subseteq {1}
    /\ system = "event_flag" /\ task[1].out # <<>> => task[1].out[1] = 0
    /\ system \in {"userns_child_exec", "userns_old_kernel"} => Items(task[2].out) \subseteq {"0 1000 1"}
    /\ system = "fork_sig_sync" /\ task[1].out # <<>> => "work" \in DOMAIN obj
    /\ system = "thread_incr_psem" /\ Ended(1, 0) => task[1].out = <<4>>
    /\ system = "ythread_incr_psem" /\ Ended(1, 0) => task[1].out = <<2>>
    /\ system = "anon_mmap" /\ Ended(1, 0) => task[1].out = <<2>>
    /\ system \in {"strerror_tls", "strerror_tsd"} /\ Ended(1, 0) => task[1].out = <<"EINVAL">>

\* The server hands out no sequence number twice, though clients come and go in
\* any order: client 5 asks for one number, client 6 for two; and a client 6 that
\* asks for -1 is turned down: it gets no number and does not move the next one
\* (is_seqnum_sv.c:120-129, exr5901_sv.c).
NumbersDisjoint ==
    /\ system \in {"is_seqnum", "exr5901"} /\ task[5].out # <<>> /\ task[6].out # <<>> =>
         LET n == task[5].out[1] m == task[6].out[1] IN n < m \/ m + 2 <= n
    /\ system = "is_seqnum_bad" => task[6].out = <<>> /\ Items(task[5].out) \subseteq {0}
=============================================================================

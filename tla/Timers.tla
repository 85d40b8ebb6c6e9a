-------------------------------- MODULE Timers --------------------------------
(***************************************************************************)
(* The programs of src/timers that set timers or sleep.  How long a timer  *)
(* runs is left open; it expires as often as the interval lets it, at any  *)
(* moment.                                                                 *)
(***************************************************************************)
EXTENDS Syscalls

\* si_value: which timer, and timer_getoverrun()
ptmr_null_evp_handler == << say(V("si_value")), return >>

ptmr_null_evp_main(expirations) == <<
    sigaction("ALRM", K(act("ptmr_null_evp_handler", {"SIGINFO"}, {})), ""),
    timer_settime("tid", expirations, "ALRM"),
    label("for"), pause, goto("for") >>

ptmr_sigev_signal_handler == << say(V("si_value")), return >>

\* One timer per argument: how often it expires
ptmr_sigev_signal_main(argv) == <<
    sigaction("RTMAX", K(act("ptmr_sigev_signal_handler", {"SIGINFO"}, {})), ""),
    timer_settime("tid1", argv[1], "RTMAX"), timer_settime("tid2", argv[2], "RTMAX"),
    label("for"), pause, goto("for") >>

ptmr_sigev_thread_threadFunc == <<
    lock("mtx"), load("expireCnt", "n"), store("expireCnt", plus(V("n"), K(1))), unlock("mtx"),
    cond_signal("cond"), pthread_exit >>

ptmr_sigev_thread_main(expirations) == <<
    timer_settime("tid", expirations, "ptmr_sigev_thread_threadFunc"),
    lock("mtx"),
    label("for"), cond_wait("cond", "mtx"), load("expireCnt", "n"), say(V("n")), goto("for") >>

real_timer_sigalrmHandler == << set("gotAlarm", K(1)), return >>

\* interval: whether the timer is periodic
real_timer_main(interval) == <<
    set("gotAlarm", K(0)),
    sigaction("ALRM", K(act("real_timer_sigalrmHandler", {}, {})), ""),
    let("maxSigs", K(IF interval THEN 3 ELSE 1)),
    timer_settime("real", IF interval THEN Periodic ELSE 1, "ALRM"), let("sigCnt", K(0)),
    label("for"), sched_yield, when(V("gotAlarm"), {0}, "for"),
    set("gotAlarm", K(0)), let("sigCnt", plus(V("sigCnt"), K(1))),
    less(V("sigCnt"), V("maxSigs"), "for"), say(V("sigCnt")), exit(K(0)) >>

\* The number of expirations since the last read
demo_timerfd_main(expirations, maxExp) == <<
    timerfd_create("fd"), timerfd_settime("fd", expirations), let("totalExp", K(0)),
    label("for"), less(V("totalExp"), K(maxExp), "read"), say(V("totalExp")), exit(K(0)),
    label("read"), read(K(R("fd")), "numExp"), let("totalExp", plus(V("totalExp"), V("numExp"))), goto("for") >>

\* Interrupted, it sleeps on for the time that remains; with TIMER_ABSTIME the
\* same request is right every time.
sleepsOn(handler) == <<
    sigaction("INT", K(act(handler, {}, {})), ""),
    label("for"), sleep, when(V("ret"), {0}, "completed"),
    when(V("errno"), {"EINTR"}, "for"), exit(K(1)),
    label("completed"), say(K("slept")), exit(K(0)) >>

t_nanosleep_sigintHandler       == << return >>
t_nanosleep_main                == sleepsOn("t_nanosleep_sigintHandler")
t_clock_nanosleep_sigintHandler == << return >>
t_clock_nanosleep_main          == sleepsOn("t_clock_nanosleep_sigintHandler")

timed_read_handler == << return >>

timed_read_main(argc) == <<
    sigaction("ALRM", K(act("timed_read_handler", IF argc > 2 THEN {"RESTART"} ELSE {}, {})), ""),
    alarm(1), try(read(K(R("stdin")), "buf")), let("numRead", V("ret")),
    let("savedErrno", V("errno")), alarm(0), let("errno", V("savedErrno")),
    say(V("numRead")), exit(K(0)) >>
=============================================================================

------------------------------- MODULE Daemons -------------------------------
(***************************************************************************)
(* The programs of src/daemons and src/filelock: becoming a daemon, one    *)
(* that reads its configuration again on SIGHUP, and file locks.           *)
(***************************************************************************)
EXTENDS Syscalls

\* Two forks, and a session between them: the daemon leads no session.
becomeDaemon(flags) == <<
    try(fork), when(V("ret"), {-1}, "fail"), when(V("ret"), {0}, "child"), exit(K(0)),
    label("child"), try(setsid), when(V("ret"), {-1}, "fail"),
    try(fork), when(V("ret"), {-1}, "fail"), when(V("ret"), {0}, "daemon"), exit(K(0)),
    label("daemon"), when(K("NO_CLOSE_FILES" \in flags), {TRUE}, "done"), closeall,
    label("done"), let("ret", K(0)), return,
    label("fail"), let("ret", K(-1)), return >>

test_become_daemon_main == << call("becomeDaemon"), sleep, exit(K(0)) >>

logOpen  == << create("log", FALSE, File(0)), return >>
logClose == << return >>

\* A configuration file that does not exist is ignored.
readConfigFile == <<
    try(open("conf")), when(V("ret"), {-1}, "end"), load("conf", "str"), set("config", V("str")),
    label("end"), return >>

sighupHandler == << set("hupReceived", K(1)), return >>

\* The flag is lowered before the files are read again.
daemon_SIGHUP_main == <<
    set("hupReceived", K(0)), set("config", K("")),
    sigaction("HUP", K(act("sighupHandler", {"RESTART"}, {})), ""),
    call("becomeDaemon"), when(V("ret"), {-1}, "failed"),
    call("logOpen"), call("readConfigFile"),
    label("for"), sleep,
    when(V("hupReceived"), {0}, "for"), set("hupReceived", K(0)),
    call("logClose"), call("logOpen"), call("readConfigFile"), goto("for"),
    label("failed"), exit(K(1)) >>

-----------------------------------------------------------------------------
(* src/filelock *)

fileBytes == {0, 1}

lockReg(wait_, f, l)  == IF wait_ THEN try(fcntl_setlkw(f, l)) ELSE try(fcntl_setlk(f, l))
lockRegion(f, l)      == lockReg(FALSE, f, l)
lockRegionWait(f, l)  == lockReg(TRUE, f, l)
regionIsLocked(f, l, x) == try(fcntl_getlk(f, l, x))

\* The lock on the file, not its content, says that an instance is running.
createPidFile(pidFile, flags) == <<
    create(pidFile, FALSE, LockFile),
    when(K("CLOEXEC" \in flags), {FALSE}, "lock"), fd_cloexec(K(<<pidFile, "f">>)),
    label("lock"), lockRegion(pidFile, K(<<"w", fileBytes>>)), when(V("ret"), {-1}, "failed"),
    store(pidFile, K(0)), getpid, store(pidFile, V("ret")), return,
    label("failed"), exit(K(1)) >>

\* Commands come from standard input, in: the pair of the letter and the lock,
\* other lines are blank or not understood.
i_fcntl_locking_main(f, in) == <<
    label("for"), read(K(in), "line"), when(V("ret"), {0}, "eof"),
    let("cmd", fld(V("line"), 1)), let("fl", fld(V("line"), 2)),
    when(V("cmd"), {"g"}, "get"), when(V("cmd"), {"s"}, "set"), when(V("cmd"), {"w"}, "wait"), goto("for"),
    label("get"), try(fcntl_getlk(f, V("fl"), "l_pid")), say(V("l_pid")), goto("for"),
    label("set"), try(fcntl_setlk(f, V("fl"))), say(V("errno")), goto("reset"),
    label("wait"), try(fcntl_setlkw(f, V("fl"))), say(V("errno")),
    label("reset"), let("errno", K("OK")), goto("for"),
    label("eof"), exit(K(0)) >>

\* lock: "r" for LOCK_SH, "w" for LOCK_EX
t_flock_main(lock_, nb) == <<
    open("file"),
    try(IF nb THEN flock_nb("file", K(<<lock_, {0}>>)) ELSE flock("file", K(<<lock_, {0}>>))),
    when(V("ret"), {-1}, "locked"), say(K("got")), sleep,
    flock("file", K(<<"u", {0}>>)), exit(K(0)),
    label("locked"), exit(K(1)) >>
=============================================================================

------------------------------ MODULE Procexec ------------------------------
(***************************************************************************)
(* The programs of src/procexec: process creation, termination, waiting    *)
(* and program execution.  Command-line arguments are parameters; what a   *)
(* program prints is left out, except what its behaviour is judged by.     *)
(***************************************************************************)
EXTENDS Syscalls

t_fork_main == <<
    set("idata", K(111)), let("istack", K(222)),
    fork, when(V("ret"), {0}, "child"),
    sleep, goto("both"),
    label("child"), set("idata", K(333)), let("istack", K(666)),
    label("both"), say(pair(V("idata"), V("istack"))), exit(K(0)) >>

\* The stack of the parent is the one the child runs on.
t_vfork_main == <<
    set("istack", K(222)),
    vfork, when(V("ret"), {0}, "child"),
    say(K("Parent executing")), say(V("istack")), exit(K(0)),
    label("child"), sleep, say(K("Child executing")), set("istack", K(666)), exit(K(0)) >>

vfork_fd_test_main == <<
    vfork, when(V("ret"), {0}, "child"),
    try(close(K(W("stdout")))), say(V("ret")),
    try(close(K(W("stdout")))), say(V("ret")), exit(K(0)),
    label("child"), try(close(K(W("stdout")))), exit(K(0)) >>

\* Offset and O_APPEND live in the open file description, which is shared.
fork_file_sharing_main == <<
    create("offset", TRUE, Cell(0)), create("append", TRUE, Cell(FALSE)),
    fork, when(V("ret"), {0}, "child"),
    wait, load("offset", "offset"), say(V("offset")), load("append", "flags"), say(V("flags")), exit(K(0)),
    label("child"), store("offset", K(1000)), load("append", "flags"), store("append", K(TRUE)), exit(K(0)) >>

\* stdio keeps "Hello world" in the process until exit().
fork_stdio_buf_main == <<
    set("stdout", K(<<"Hello world">>)), write(K(W("stdout")), K("Ciao")),
    fork, write(K(W("stdout")), fld(V("stdout"), 1)), exit(K(0)) >>

fork_whos_on_first_main(numChildren) == <<
    let("j", K(0)),
    label("for"), less(V("j"), K(numChildren), "body"), exit(K(0)),
    label("body"), fork, when(V("ret"), {0}, "child"),
    try(wait), say(V("ret")), let("j", plus(V("j"), K(1))), goto("for"),
    label("child"), exit(K(0)) >>

footprint_func(arg) == << let("result", K(arg)), return >>

footprint_main == <<
    fork, when(V("ret"), {0}, "child"),
    wait, say(V("status")), exit(K(0)),
    label("child"), call("footprint_func"), exit(V("result")) >>

make_zombie_main == <<
    fork, when(V("ret"), {0}, "child"),
    let("zombie", V("ret")), sleep, call("system"),
    try(kill(V("zombie"), "KILL")), say(V("ret")), sleep, call("system"), exit(K(0)),
    label("child"), exit(K(0)) >>

orphan_main(ppidOrig) == <<
    fork, when(V("ret"), {0}, "child"),
    sleep, exit(K(0)),
    label("child"), getppid, when(V("ret"), {ppidOrig}, "running"), say(V("ret")), exit(K(0)),
    label("running"), sleep, goto("child") >>

multi_wait_main(argc) == <<
    let("j", K(1)),
    label("for"), less(V("j"), K(argc), "fork"),
    set("numDead", K(0)),
    label("wait"), try(wait), when(V("ret"), {-1}, "failed"),
    set("numDead", plus(V("numDead"), K(1))), goto("wait"),
    label("failed"), when(V("errno"), {"ECHILD"}, "bye"), exit(K(1)),
    label("bye"), exit(K(0)),
    label("fork"), fork, when(V("ret"), {0}, "child"), let("j", plus(V("j"), K(1))), goto("for"),
    label("child"), sleep, exit(K(0)) >>

\* The loop, because SIGCHLD is not queued; errno is put back.
multi_SIGCHLD_sigchldHandler == <<
    let("savedErrno", V("errno")),
    label("reap"), try(waitpid(K(-1), {"NOHANG"})), when(V("ret"), {-1, 0}, "done"),
    set("numLiveChildren", minus(V("numLiveChildren"), K(1))), goto("reap"),
    label("done"), sleep, let("errno", V("savedErrno")), return >>

multi_SIGCHLD_main(argc) == <<
    set("numLiveChildren", K(argc - 1)),
    sigaction("CHLD", K(act("sigchldHandler", {}, {})), ""),
    sigprocmask("SETMASK", K({"CHLD"}), ""),
    let("j", K(1)),
    label("for"), less(V("j"), K(argc), "fork"),
    label("while"), less(K(0), V("numLiveChildren"), "suspend"), exit(K(0)),
    label("suspend"), sigsuspend(K({})), when(V("errno"), {"EINTR"}, "while"), exit(K(1)),
    label("fork"), fork, when(V("ret"), {0}, "child"), let("j", plus(V("j"), K(1))), goto("for"),
    label("child"), sleep, exit(K(0)) >>

\* WIFEXITED, WIFSIGNALED, WIFSTOPPED and WIFCONTINUED tell the cases apart.
printWaitStatus == << say(V("status")), return >>

child_status_main(exitStatus) == <<
    fork, when(V("ret"), {0}, "child"),
    label("for"), waitpid(K(-1), {"UNTRACED", "CONTINUED"}), call("printWaitStatus"),
    when(fld(V("status"), 1), {"exit", "sig"}, "ended"), goto("for"),
    label("ended"), exit(K(0)),
    label("child"), when(K(exitStatus), {-1}, "pause"), exit(K(exitStatus)),
    label("pause"), pause, goto("pause") >>

fork_sig_sync_handler == << return >>

\* Mutant: SIGUSR1 is not blocked before the child is created.
fork_sig_sync_main_unblocked == <<
    sigprocmask("BLOCK", K({}), "origMask"),
    sigaction("USR1", K(act("fork_sig_sync_handler", {"RESTART"}, {})), ""),
    fork, when(V("ret"), {0}, "child"),
    sigsuspend(K({})), when(V("errno"), {"EINTR"}, "got"), exit(K(1)),
    label("got"), say(K("Parent got signal")), sigprocmask("SETMASK", V("origMask"), ""), exit(K(0)),
    label("child"), sleep, create("work", TRUE, Cell("done")), getppid, kill(V("ret"), "USR1"), exit(K(0)) >>

fork_sig_sync_main == <<
    sigprocmask("BLOCK", K({"USR1"}), "origMask"),
    sigaction("USR1", K(act("fork_sig_sync_handler", {"RESTART"}, {})), ""),
    fork, when(V("ret"), {0}, "child"),
    sigsuspend(K({})), when(V("errno"), {"EINTR"}, "got"), exit(K(1)),
    label("got"), say(K("Parent got signal")), sigprocmask("SETMASK", V("origMask"), ""), exit(K(0)),
    label("child"), sleep, create("work", TRUE, Cell("done")), getppid, kill(V("ret"), "USR1"), exit(K(0)) >>

-----------------------------------------------------------------------------
(* system(), and programs that execute others *)

\* The signals in blocked are blocked, and SIGINT and SIGQUIT are ignored, before
\* the fork().  Without a command: whether the shell can execute ":".
system_blocking(blocked) == <<
    when(V("command"), {"NULL"}, "available"),
    sigprocmask("BLOCK", K(blocked), "origMask"),
    sigaction("INT", K(SIG_IGN), "saOrigInt"), sigaction("QUIT", K(SIG_IGN), "saOrigQuit"),
    try(fork), let("childPid", V("ret")), when(V("ret"), {-1}, "failed"), when(V("ret"), {0}, "child"),
    label("wait"), try(waitpid(V("childPid"), {})), when(V("ret"), {-1}, "error"), goto("restore"),
    label("error"), when(V("errno"), {"EINTR"}, "wait"),
    label("failed"), let("status", K(<<"error", 0>>)),
    label("restore"), let("savedErrno", V("errno")),
    sigprocmask("SETMASK", V("origMask"), ""),
    sigaction("INT", V("saOrigInt"), ""), sigaction("QUIT", V("saOrigQuit"), ""),
    let("errno", V("savedErrno")), return,
    label("child"), when(fld(V("saOrigInt"), "h"), {"IGN"}, "quit"), sigaction("INT", K(SIG_DFL), ""),
    label("quit"), when(fld(V("saOrigQuit"), "h"), {"IGN"}, "mask"), sigaction("QUIT", K(SIG_DFL), ""),
    label("mask"), sigprocmask("SETMASK", V("origMask"), ""),
    try(execve(V("command"))), exit(K(127)),
    label("available"), let("command", K("true")), call("system"), when(V("status"), {<<"exit", 0>>}, "yes"),
    let("status", K(0)), return, label("yes"), let("status", K(1)), return >>

\* Mutant: SIGCHLD is not blocked.
system_system_unblocked == system_blocking({})

system_system == system_blocking({"CHLD"})

simple_system_system == <<
    try(fork), let("childPid", V("ret")), when(V("ret"), {-1}, "failed"), when(V("ret"), {0}, "child"),
    try(waitpid(V("childPid"), {})), when(V("ret"), {-1}, "failed"), return,
    label("failed"), let("status", K(<<"error", 0>>)), return,
    label("child"), try(execve(V("command"))), exit(K(127)) >>

t_system_main(system_) == <<
    label("for"), try(read(K(R("stdin")), "command")), when(V("ret"), {0}, "eof"),
    call(system_), when(V("status"), {<<"error", 0>>}, "failed"),
    when(V("status"), {<<"exit", 127>>}, "noshell"), call("printWaitStatus"), goto("for"),
    label("noshell"), say(K("(Probably) could not invoke shell")), goto("for"),
    label("failed"), exit(K(1)),
    label("eof"), exit(K(0)) >>

envargs_main == << say(V("argv")), say(V("environ")), exit(K(0)) >>

t_execve_main(path) == <<
    set("argv", K(<<path, "hello world", "goodbye">>)), set("environ", K(<<"GREET", "BYE">>)), execve(K(path)) >>

t_execle_main(path) == <<
    set("argv", K(<<path, "hello world", "goodbye">>)), set("environ", K(<<"GREET", "BYE">>)), execve(K(path)) >>

t_execlp_main(path) == << set("argv", K(<<path, "hello world">>)), execve(K(path)) >>

\* putenv(): the environment goes with the exec.
t_execl_main == << set("environ", K(<<"USER=britta">>)), set("argv", K(<<"USER", "SHELL">>)), execve(K("printenv")) >>

closeonexec_main(argc) == <<
    when(K(argc), {1}, "exec"), fd_cloexec(K(W("stdout"))),
    label("exec"), execve(K("ls")) >>

-----------------------------------------------------------------------------
(* clone() *)

t_clone_childFunc == << close(K(W("null"))), exit(K(0)) >>

t_clone_main(flags) == <<
    pipe("null"), signal("USR1", "IGN"),
    clone(K(flags), "USR1", "t_clone_childFunc"),
    waitpid(K(-1), {"CLONE"}),
    try(write(K(W("null")), K("x"))), say(V("ret")), exit(K(0)) >>

\* The mask lives in the cell "umask" of the parent, or in one of the child's
\* own unless they share it.  Every step needs the stack the child runs on.
demo_clone_childFunc(flags) == <<
    when(V("stack"), {"unmapped"}, "fault"), store(IF "FS" \in flags THEN "umask" ELSE "umask2", K("IWGRP")),
    when(V("stack"), {"unmapped"}, "fault"), close(K(W("null"))),
    when(V("stack"), {"unmapped"}, "fault"), signal("TERM", "DFL"),
    when(V("stack"), {"unmapped"}, "fault"), exit(K(22)),
    label("fault"), fault("SEGV", {}) >>

demo_clone_grimReaper == << let("savedErrno", V("errno")), let("errno", V("savedErrno")), return >>

demo_clone_main(flags) == <<
    store("umask", K("IWOTH")), pipe("null"), signal("TERM", "IGN"),
    set("stack", K("mapped")), sigaction("USR1", K(act("grimReaper", {"RESTART"}, {})), ""),
    clone(K(flags), "USR1", "demo_clone_childFunc"),
    sched_yield, set("stack", K("unmapped")),
    waitpid(K(-1), {"CLONE"}), call("printWaitStatus"),
    load("umask", "umask"), say(V("umask")),
    try(write(K(W("null")), K("Hello world"))), say(V("ret")),
    sigaction("TERM", K(act("", {}, {})), "sa"), say(fld(V("sa"), "h")), exit(K(0)) >>

-----------------------------------------------------------------------------
(* pdeath_signal.c: a chain of ancestors, each with as many threads as      *)
(* threads says, of which the one marked says creates the next process.    *)

pdeath_handler == << set("cnt", plus(V("cnt"), K(1))), return >>

pdeath_createOrphanChild(childPostSleep) == <<
    fork, when(V("ret"), {0}, "child"), return,
    label("child"), set("cnt", K(0)), sigaction("USR1", K(act("pdeath_handler", {"SIGINFO"}, {})), ""),
    sleep, prctl_pdeathsig("USR1"),
    let("j", K(0)),
    label("for"), less(V("j"), K(childPostSleep), "sleep"), exit(K(0)),
    label("sleep"), sleep, let("j", plus(V("j"), K(1))), goto("for") >>

pdeath_performPerThreadSteps(ancestors) == <<
    sleep, when(V("createNextChild"), {FALSE}, "wait"),
    less(V("ancestorNum"), K(ancestors), "next"),
    call("createOrphanChild"), goto("wait"),
    label("next"), call("createAncestor"),
    label("wait"), sleep, return >>

pdeath_threadStartFunc == <<
    let("ancestorNum", fld(V("arg"), 1)), let("createNextChild", fld(V("arg"), 2)),
    call("performPerThreadSteps"), pthread_exit >>

pdeath_createThreads(threads, marked) == <<
    let("tnum", K(1)),
    label("for"), less(V("tnum"), app(threads, V("ancestorNum")), "create"),
    let("createNextChild", app([a \in DOMAIN marked |-> marked[a] = 0], V("ancestorNum"))),
    call("performPerThreadSteps"), pthread_exit,
    label("create"),
    let("mark", app([a \in DOMAIN marked |-> [n \in 0..3 |-> n = marked[a]]], V("ancestorNum"))),
    pthread_create("threadStartFunc", pair(V("ancestorNum"), app2(V("mark"), V("tnum")))),
    let("tnum", plus(V("tnum"), K(1))), goto("for") >>

pdeath_createAncestor(subreapers) == <<
    sleep, fork, when(V("ret"), {0}, "child"), return,
    label("child"), let("ancestorNum", plus(V("ancestorNum"), K(1))),
    when(V("ancestorNum"), subreapers, "subreaper"), call("createThreads"),
    label("subreaper"), prctl_subreaper, call("createThreads") >>

pdeath_main(ancestors) == <<
    let("ancestorNum", K(0)), less(K(0), K(ancestors), "chain"), call("createOrphanChild"), goto("wait"),
    label("chain"), call("createAncestor"),
    label("wait"), try(wait), exit(K(0)) >>
=============================================================================

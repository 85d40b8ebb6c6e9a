-------------------------------- MODULE Pgsjc --------------------------------
(***************************************************************************)
(* The programs of src/pgsjc: process groups, sessions and job control.    *)
(***************************************************************************)
EXTENDS Syscalls

catch_SIGHUP_handler == << return >>

catch_SIGHUP_main(argc) == <<
    sigaction("HUP", K(act("catch_SIGHUP_handler", {}, {})), ""),
    fork, when(pair(V("ret"), K(argc > 1)), {<<0, TRUE>>}, "move"), goto("alarm"),
    label("move"), setpgid(K(0)),
    label("alarm"), alarm(1),
    label("for"), pause, say(K("HUP")), goto("for") >>

disc_SIGHUP_handler == << say(V("sig")), return >>

\* argv: "d" for a child in a process group of its own, "s" for one in the same
disc_SIGHUP_main(argv) == <<
    let("j", K(1)),
    label("for"), less(K(Len(argv)), V("j"), "wait"),
    fork, when(V("ret"), {0}, "child"), let("j", plus(V("j"), K(1))), goto("for"),
    label("child"), when(app(argv, V("j")), {"d"}, "move"), goto("catch"),
    label("move"), setpgid(K(0)),
    label("catch"), sigaction("HUP", K(act("disc_SIGHUP_handler", {}, {})), ""),
    label("wait"), alarm(1),
    label("pause"), pause, goto("pause") >>

\* Stops the process for real: default action, a second SIGTSTP, and the
\* signal unblocked; the handler comes back when the process is continued.
tstpHandler == <<
    let("savedErrno", V("errno")),
    signal("TSTP", "DFL"),
    raise("TSTP"),
    sigprocmask("UNBLOCK", K({"TSTP"}), "prevMask"),
    sigprocmask("SETMASK", V("prevMask"), ""),
    sigaction("TSTP", K(act("tstpHandler", {"RESTART"}, {})), ""),
    let("errno", V("savedErrno")), return >>

handling_SIGTSTP_main == <<
    sigaction("TSTP", query, "sa"), when(fld(V("sa"), "h"), {"IGN"}, "for"),
    sigaction("TSTP", K(act("tstpHandler", {"RESTART"}, {})), ""),
    label("for"), pause, goto("for") >>

job_mon_handler == <<
    when(V("sig"), {"TSTP"}, "stop"), return,
    label("stop"), raise("STOP"), return >>

\* in, out: "tty", or an end of a pipe
job_mon_main(in, out) == <<
    sigaction("INT", K(act("job_mon_handler", {"RESTART"}, {})), ""),
    sigaction("TSTP", K(act("job_mon_handler", {"RESTART"}, {})), ""),
    sigaction("CONT", K(act("job_mon_handler", {"RESTART"}, {})), ""),
    set("cmdNum", K(0)), when(K(in[1]), {"tty"}, "first"),
    read(K(in), "cmdNum"), when(V("ret"), {0}, "eof"),
    label("first"), let("cmdNum", plus(V("cmdNum"), K(1))), say(V("cmdNum")),
    when(K(out[1]), {"tty"}, "for"),
    try(write(K(out), V("cmdNum"))),
    label("for"), pause, goto("for"),
    label("eof"), exit(K(1)) >>

orphaned_pgrp_SIGHUP_handler == << say(V("sig")), return >>

\* argv: "s" for a child that stops itself, "p" for one that pauses
orphaned_pgrp_SIGHUP_main(argv) == <<
    sigaction("HUP", K(act("orphaned_pgrp_SIGHUP_handler", {}, {})), ""),
    sigaction("CONT", K(act("orphaned_pgrp_SIGHUP_handler", {}, {})), ""),
    let("j", K(1)),
    label("for"), less(K(Len(argv)), V("j"), "leave"),
    fork, when(V("ret"), {0}, "child"), let("j", plus(V("j"), K(1))), goto("for"),
    label("leave"), sleep, exit(K(0)),
    label("child"), when(app(argv, V("j")), {"s"}, "stop"),
    alarm(1), pause, exit(K(0)),
    label("stop"), raise("STOP"), exit(K(0)) >>

t_setsid_main == <<
    try(fork), when(V("ret"), {0}, "child"), exit(K(0)),
    label("child"), setsid, open_tty, exit(K(0)) >>
=============================================================================

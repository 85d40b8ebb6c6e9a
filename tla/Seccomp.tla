------------------------------ MODULE Seccomp ------------------------------
(***************************************************************************)
(* seccomp/seccomp_unotify_mkdir.c and seccomp_unotify_openat.c: a target  *)
(* whose system call is handed over to a supervisor, which executes it in  *)
(* the target's place, lets it go on, or refuses it.  The pair of sockets  *)
(* "sp" carries the notification descriptor, Addr("notify").               *)
(* A pathname is "tmp" (below /tmp), "rel" (starts with ./), "bye", or any *)
(* other name.                                                             *)
(***************************************************************************)
EXTENDS Syscalls

cookieIsValid == << try(notif_valid(V("notifyFd"), fld(V("req"), 1))), return >>

\* The target's memory is worth reading only while its call is blocked; a
\* process that is gone, whose memory cannot be read, has no valid ID either.
getTargetPathname == <<
    let("pathStatus", K(-1)), call("cookieIsValid"), when(V("ret"), {-1}, "return"),
    let("path", fld(V("req"), 2)),
    call("cookieIsValid"), when(V("ret"), {-1}, "return"), let("pathStatus", K(0)),
    label("return"), return >>

sigchldHandler_bye == << exit(K(0)) >>
mkdir_sigintHandler == << return >>

installNotifyFilter == << bind(K(Addr("notify")), Notif), return >>
closeSocketPair == << close(K(<<"sp", "a">>)), close(K(<<"sp", "b">>)), return >>

\* The target, up to the first of its calls; sa: what it does about SIGINT
target(sa) == <<
    fork, when(V("ret"), {0}, "child"), return, label("child") >> \o sa \o <<
    call("installNotifyFilter"), let("sockfd", K(<<"sp", "a">>)), call("sendNotifyFd"), when(V("ret"), {-1}, "failed"),
    close(K(Addr("notify"))), call("closeSocketPair"), let("ap", K(1)),
    label("for"), less(V("ap"), plus(len(V("argv")), K(1)), "call"), exit(K(0)), label("failed"), exit(K(1)),
    label("call") >>

\* A return value 0 is that of SECCOMP_USER_NOTIF_FLAG_CONTINUE: the kernel
\* goes on with the call of the target.
mkdir_targetProcess == target(<< sigaction("INT", K(act("mkdir_sigintHandler", {}, {})), "") >>) \o <<
    try(notified("notify", app2(V("argv"), V("ap")))), when(V("ret"), {0}, "continue"),
    label("returned"), say(pair(app2(V("argv"), V("ap")), V("ret"))), let("ap", plus(V("ap"), K(1))), goto("for"),
    label("continue"), try(create("reldir", TRUE, Cell(0))), goto("returned") >>

\* resp is the result for the target: a value, or -1 and the error.
receive == <<
    label("for"), try(notif_recv(V("notifyFd"), "req")), when(V("ret"), {0}, "got"),
    when(V("errno"), {"EINTR"}, "for"), exit(K(1)), label("got") >>
respond == << label("send"), try(notif_send(V("notifyFd"), pair(fld(V("req"), 1), V("resp")))) >>

\* The supervisor looks at the cookie before it delays, and after it.
delaying(delaySecs) ==
    IF delaySecs = 0 THEN <<>>
    ELSE << call("cookieIsValid"), when(V("ret"), {-1}, "invalid"), sleep, call("cookieIsValid"), when(V("ret"), {-1}, "invalid") >>

mkdir_handleNotifications(delaySecs) == receive \o delaying(delaySecs) \o <<
    let("path", K("")), call("getTargetPathname"),
    let("resp", K(<<-1, "EINVAL">>)), when(V("pathStatus"), {-1}, "send"),
    when(V("path"), {"tmp"}, "mkdir"), let("resp", K(<<0, "">>)), when(V("path"), {"rel"}, "send"),
    let("resp", K(<<-1, "EOPNOTSUPP">>)), goto("send"),
    label("mkdir"), try(create("tmpdir", TRUE, Cell(0))), let("resp", pair(K(-1), V("errno"))), when(V("ret"), {-1}, "send"),
    let("resp", K(<<8, "">>)) >> \o respond \o <<
    when(V("path"), {"bye"}, "break"), goto("for"), label("break"), label("invalid"), exit(K(1)) >>

supervisor(handleNotifications) == <<
    let("sockfd", K(<<"sp", "b">>)), call("recvfd"), when(V("fd"), {<<"", "">>}, "failed"), let("notifyFd", V("fd")),
    call("closeSocketPair"), call(handleNotifications), label("failed"), exit(K(1)) >>

mkdir_supervisor == supervisor("mkdir_handleNotifications")

unotify(targetProcess, sup) == <<
    socketpair("sp"), call(targetProcess), sigaction("CHLD", K(act("sigchldHandler_bye", {}, {})), ""), call(sup) >>
mkdir_main == unotify("mkdir_targetProcess", "mkdir_supervisor")

-----------------------------------------------------------------------------
(* openat(): the supervisor opens the file, and puts the descriptor into   *)
(* the target, whose open files are the names it got a value for.          *)

openat_targetProcess == target(<<>>) \o <<
    try(notified("notify", app2(V("argv"), V("ap")))), when(V("ret"), {-1}, "next"),
    load("newfile", "buf"), say(V("buf")),
    label("next"), let("ap", plus(V("ap"), K(1))), goto("for") >>

\* SECCOMP_IOCTL_NOTIF_ADDFD, like SEND, fails once the call is not blocked any
\* more; the response then has no error and the value -1.
openat_handleNotifications == receive \o <<
    call("getTargetPathname"), let("resp", K(<<-1, "EINVAL">>)), when(V("pathStatus"), {-1}, "send"),
    try(create("newfile", FALSE, File("old"))), let("resp", pair(K(-1), V("errno"))), when(V("ret"), {-1}, "send"),
    try(notif_valid(V("notifyFd"), fld(V("req"), 1))), let("resp", K(<<45, "">>)), when(V("ret"), {0}, "send"),
    let("resp", K(<<-1, "">>)) >> \o respond \o << goto("for") >>

openat_supervisor == supervisor("openat_handleNotifications")
openat_main == unotify("openat_targetProcess", "openat_supervisor")
=============================================================================

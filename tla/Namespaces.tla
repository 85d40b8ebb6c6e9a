----------------------------- MODULE Namespaces -----------------------------
(***************************************************************************)
(* The programs of namespaces/ that create processes in new namespaces and *)
(* have to synchronise with them.  Objects: "fg", the foreground process   *)
(* group of the terminal; "uid_map" and "gid_map" of the child, which are  *)
(* <<>> until they are written; "hostname" of the initial UTS namespace.   *)
(***************************************************************************)
EXTENDS Syscalls

simple_init_child_handler == <<
    label("while"), try(waitpid(K(-1), {"NOHANG", "UNTRACED", "CONTINUED"})), when(V("ret"), {0}, "end"),
    when(V("ret"), {-1}, "error"), goto("while"),
    label("error"), when(V("errno"), {"ECHILD"}, "end"), goto("while"), label("end"), return >>

\* The group leader's group has the terminal; SIGTTOU is ignored.
foreground == << getpid, store("fg", V("ret")) >>

simple_init_main == <<
    sigaction("CHLD", K(act("simple_init_child_handler", {"RESTART", "NOCLDSTOP"}, {})), ""),
    signal("TTOU", "IGN"), setpgid(K(0)) >> \o foreground \o <<
    label("while"), try(read(K(stdin), "cmd")), when(V("ret"), {-1, 0}, "break"),
    when(V("cmd"), {""}, "while"),
    try(fork), when(V("ret"), {0}, "child"), when(V("ret"), {-1}, "break"),
    pause >> \o foreground \o << goto("while"),
    label("child"), setpgid(K(0)) >> \o foreground \o << execve(V("cmd")),
    label("break"), exit(K(0)) >>

make_orphans_main(numOrphans) == <<
    getpid, let("ppidOrig", V("ret")), let("j", K(0)),
    label("for"), less(V("j"), K(numOrphans), "fork"), exit(K(0)),
    label("fork"), fork, when(V("ret"), {0}, "child"), let("j", plus(V("j"), K(1))), goto("for"),
    label("child"), getppid, less(V("ret"), V("ppidOrig"), "orphan"), less(V("ppidOrig"), V("ret"), "orphan"), sleep, goto("child"),
    label("orphan"), sleep, exit(K(0)) >>

ns_orphan_main == <<
    getpid, let("ppidOrig", V("ret")), fork, when(V("ret"), {0}, "do"), exit(K(0)),
    label("do"), sleep, getppid, less(V("ret"), V("ppidOrig"), "orphan"), less(V("ppidOrig"), V("ret"), "orphan"), goto("do"),
    label("orphan"), getppid, say(V("ret")), sleep, exit(K(0)) >>

-----------------------------------------------------------------------------
(* A child in new namespaces, which the parent waits for *)

cloned(flags, f) == << clone(K(flags), "CHLD", f), let("child_pid", V("ret")) >>
waited == << waitpid(V("child_pid"), {}), exit(K(0)) >>

pidns_init_sleep_childFunc == << execve(K("sleep")) >>
pidns_init_sleep_main == cloned({"NEWPID"}, "pidns_init_sleep_childFunc") \o waited

multi_pidns_childFunc == <<
    when(V("level"), {0}, "tail"), let("level", minus(V("level"), K(1))) >>
    \o cloned({"NEWPID"}, "multi_pidns_childFunc") \o <<
    waitpid(V("child_pid"), {}), exit(K(0)), label("tail"), execve(K("sleep")) >>
multi_pidns_main(levels) == << let("level", K(levels)), call("multi_pidns_childFunc") >>

demo_uts_childFunc(name) == << store("child_hostname", K(name)), load("child_hostname", "uts"), say(V("uts")), sleep, exit(K(0)) >>
demo_uts_main == cloned({"NEWUTS"}, "demo_uts_childFunc") \o << sleep, load("hostname", "uts"), say(V("uts")) >> \o waited

ns_child_exec_childFunc(command) == << execve(K(command)) >>
ns_child_exec_main(flags) == cloned(flags, "ns_child_exec_childFunc") \o waited

demo_userns_childFunc(forever) ==
    << label("for"), load("uid_map", "euid"), say(V("euid")) >>
    \o (IF forever THEN << sleep, goto("for") >> ELSE << exit(K(0)) >>)
demo_userns_main == cloned({"NEWUSER"}, "demo_userns_childFunc") \o waited

-----------------------------------------------------------------------------
(* Commands in other namespaces, by a child or by the caller itself *)

ns_run_main(do_fork, command) == << open("ns") >> \o
    (IF do_fork THEN << fork, when(V("ret"), {0}, "child"), let("child_pid", V("ret")), waitpid(V("child_pid"), {}), exit(K(0)), label("child") >>
     ELSE <<>>) \o << execve(K(command)) >>

\* fork() and wait() are not checked.
forkUnchecked == << try(fork), when(V("ret"), {0}, "child"), try(wait), exit(K(0)), label("child") >>
ns_exec_main(do_fork, command) == << open("ns") >> \o
    (IF do_fork THEN << fork, when(V("ret"), {0}, "child"), try(wait), exit(K(0)), label("child") >> ELSE <<>>)
    \o << execve(K(command)) >>
unshare_main(do_fork, command) ==
    (IF do_fork THEN forkUnchecked ELSE <<>>) \o << execve(K(command)) >>

-----------------------------------------------------------------------------
(* userns_child_exec: the child waits for the end of file of a pipe that   *)
(* the parent closes when the maps are written.                            *)

update_map(map) == << try(open(map)), when(V("ret"), {-1}, "return"), try(store(map, K("0 1000 1"))), label("return"), return >>
proc_setgroups_write == <<
    try(open("setgroups")), when(V("ret"), {0}, "write"), when(V("errno"), {"ENOENT"}, "old"), return,
    label("old"), let("ret", K(0)), return,
    label("write"), try(store("setgroups", K("deny"))), return >>

update_child_maps(deny_setgroups) == <<
    call("update_uid_map"), when(V("ret"), {-1}, "failed") >> \o
    (IF deny_setgroups THEN << call("proc_setgroups_write"), when(V("ret"), {-1}, "failed") >> ELSE <<>>) \o <<
    call("update_gid_map"), when(V("ret"), {-1}, "failed"), return, label("failed"), exit(K(1)) >>

userns_childFunc(command) == <<
    try(close(K(W("pipe_fd")))), try(read(K(R("pipe_fd")), "ch")), when(V("ret"), {0}, "eof"), exit(K(1)),
    label("eof"), try(close(K(R("pipe_fd")))), execve(K(command)) >>

userns_child_exec_main == << pipe("pipe_fd") >> \o cloned({"NEWUSER"}, "userns_childFunc") \o <<
    call("update_child_maps"), try(close(K(W("pipe_fd")))) >> \o waited
=============================================================================

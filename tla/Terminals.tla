----------------------------- MODULE Terminals -----------------------------
(***************************************************************************)
(* The programs of tty/ and pty/ that change the settings of the terminal  *)
(* and have to give them back, and the relays between a terminal and a     *)
(* pseudoterminal.  The settings, object "tty", are the flags that are on. *)
(***************************************************************************)
EXTENDS Syscalls

Flags == {"ICANON", "ECHO", "ISIG", "ICRNL", "OPOST"}
Cooked == Flags
changed(off, on) == app([S \in SUBSET Flags |-> (S \ off) \cup on], V("t"))

\* The previous settings go to userTermios.
ttySetMode(off, on) == <<
    try(tcgetattr("t")), when(V("ret"), {-1}, "return"), set("userTermios", V("t")),
    try(tcsetattr("TCSAFLUSH", changed(off, on))), label("return"), return >>
ttySetCbreak == ttySetMode({"ICANON", "ECHO", "ICRNL"}, {"ISIG"})
ttySetRaw == ttySetMode({"ICANON", "ISIG", "ECHO", "ICRNL", "OPOST"}, {})

test_tty_functions_handler == << tcsetattr("TCSAFLUSH", V("userTermios")), exit(K(0)) >>

\* A handler that stops with the settings of the program
test_tty_functions_tstpHandler_cbreak == <<
    let("savedErrno", V("errno")), tcgetattr("ourTermios"),
    signal("TSTP", "DFL"), raise("TSTP"), sigprocmask("UNBLOCK", K({"TSTP"}), "prevMask"),
    sigprocmask("SETMASK", V("prevMask"), ""),
    sigaction("TSTP", K(act("test_tty_functions_tstpHandler", {"RESTART"}, {})), ""),
    tcsetattr("TCSAFLUSH", V("ourTermios")), let("errno", V("savedErrno")), return >>

test_tty_functions_tstpHandler == <<
    let("savedErrno", V("errno")),
    tcgetattr("ourTermios"), tcsetattr("TCSAFLUSH", V("userTermios")),
    signal("TSTP", "DFL"), raise("TSTP"), sigprocmask("UNBLOCK", K({"TSTP"}), "prevMask"),
    sigprocmask("SETMASK", V("prevMask"), ""),
    sigaction("TSTP", K(act("test_tty_functions_tstpHandler", {"RESTART"}, {})), ""),
    tcgetattr("t"), set("userTermios", V("t")), tcsetattr("TCSAFLUSH", V("ourTermios")),
    let("errno", V("savedErrno")), return >>

\* A handler for s, unless s is ignored
handleUnlessIgnored(s, h) == <<
    sigaction(s, query, "prev"), when(app([r \in {SIG_DFL, SIG_IGN} |-> r.h], V("prev")), {"IGN"}, s),
    sigaction(s, K(act(h, {"RESTART"}, {})), ""), label(s) >>

test_tty_functions_main(cbreak) ==
    (IF cbreak
     THEN << call("ttySetCbreak"), when(V("ret"), {-1}, "failed") >>
          \o handleUnlessIgnored("QUIT", "test_tty_functions_handler")
          \o handleUnlessIgnored("INT", "test_tty_functions_handler")
          \o handleUnlessIgnored("TSTP", "test_tty_functions_tstpHandler")
     ELSE << call("ttySetRaw"), when(V("ret"), {-1}, "failed") >>) \o <<
    sigaction("TERM", K(act("test_tty_functions_handler", {"RESTART"}, {})), ""),
    label("for"), try(read(K(stdin), "ch")), when(V("ret"), {-1, 0}, "break"),
    say(V("ch")), when(V("ch"), {"q"}, "break"), goto("for"),
    label("break"), tcsetattr("TCSAFLUSH", V("userTermios")), exit(K(0)),
    label("failed"), exit(K(1)) >>

no_echo_main == <<
    tcgetattr("t"), let("save", V("t")), tcsetattr("TCSAFLUSH", changed({"ECHO"}, {})),
    try(read(K(stdin), "buf")), when(V("ret"), {-1, 0}, "restore"), say(V("buf")),
    label("restore"), tcsetattr("TCSANOW", V("save")), exit(K(0)) >>

sigwinchHandler == << return >>
demo_SIGWINCH_main == <<
    sigaction("WINCH", K(act("sigwinchHandler", {}, {})), ""),
    label("for"), pause, load("winsize", "ws"), say(V("ws")), goto("for") >>

-----------------------------------------------------------------------------
(* Pseudoterminals *)

ptyMasterOpen == << try(posix_openpt("pty")), return >>

\* The BSD version tries one name after the other; here the first one is free.
ptyFork == <<
    call("ptyMasterOpen"), when(V("ret"), {-1}, "return"),
    try(fork), when(V("ret"), {0}, "child"), when(V("ret"), {-1}, "failed"), return,
    label("failed"), let("savedErrno", V("errno")), try(close(K(<<"pty", "a">>))), let("errno", V("savedErrno")),
    let("ret", K(-1)), label("return"), return,
    label("child"), setsid, close(K(<<"pty", "a">>)), open_slave("pty"), let("ret", K(0)), return >>

\* atexit(ttyReset): every exit() of the relay ends here.
ttyReset == << tcsetattr("TCSANOW", V("userTermios")), exit(V("status")) >>

\* What both relays do: the terminal to the master, and the master to out
master == <<"pty", "a">>
relay(command, open_out, out) == <<
    tcgetattr("t"), set("userTermios", V("t")), call("ptyFork"),
    when(V("ret"), {-1}, "exit"), when(V("ret"), {0}, "shell") >> \o open_out \o <<
    call("ttySetRaw"),
    label("for"), try(select(K({stdin, master}), "inFds")), when(V("ret"), {-1}, "failed"),
    when(V("inFds"), {{master}}, "master"),
    try(read(K(stdin), "buf")), when(V("ret"), {-1, 0}, "done"),
    try(write(K(master), V("buf"))), when(V("ret"), {-1}, "failed"), when(V("inFds"), {{stdin}}, "for"),
    label("master"), try(read(K(master), "buf")), when(V("ret"), {-1, 0}, "done") >> \o out \o << goto("for"),
    label("failed"), let("status", K(1)), call("ttyReset"),
    label("done"), let("status", K(0)), call("ttyReset"),
    label("shell"), execve(K(command)), label("exit"), exit(K(1)) >>

script_main(command) == relay(command,
    << creat("typescript", File(<<>>)) >>,
    << try(write(K(W("stdout")), V("buf"))), when(V("ret"), {-1}, "failed"),
       try(fwrite("typescript", K(-1), V("buf"))), when(V("ret"), {-1}, "failed") >>)

unbuffer_main(command) == relay(command, <<>>,
    << try(write(K(W("stdout")), V("buf"))), when(V("ret"), {-1}, "failed") >>)
=============================================================================

------------------------------ MODULE Signals ------------------------------
(***************************************************************************)
(* The programs of src/signals.  Command-line arguments are parameters;    *)
(* the loops over all signal numbers run over the signals of a sequence.   *)
(***************************************************************************)
EXTENDS Syscalls

inc(x) == set(x, plus(V(x), K(1)))
signalAll(sigs, h) == [k \in 1..Len(sigs) |-> try(signal(sigs[k], h))]
sigactionAll(sigs, sa) == [k \in 1..Len(sigs) |-> sigaction(sigs[k], K(sa), "")]

-----------------------------------------------------------------------------
(* signal_functions.c *)

printSigset      == << say(V("sigset")), return >>
printSigMask     == << sigprocmask("BLOCK", K({}), "sigset"), call("printSigset"), return >>
printPendingSigs == << sigpending("sigset"), call("printSigset"), return >>

-----------------------------------------------------------------------------
(* Senders *)

sig_sender_main(pid, numSigs, sig, sig2) == <<
    let("j", K(0)),
    label("for"), less(V("j"), K(numSigs), "send"),
    when(K(sig2), {"0"}, "exit"), kill(K(pid), sig2),
    label("exit"), exit(K(0)),
    label("send"), kill(K(pid), sig), let("j", plus(V("j"), K(1))), goto("for") >>

ysig_sender_main(pid, numSigs, sig, sig2) == sig_sender_main(pid, numSigs, sig, sig2)

t_sigqueue_main(pid, sig, sigData, numSigs) == <<
    let("j", K(0)),
    label("for"), less(V("j"), K(numSigs), "send"), exit(K(0)),
    label("send"), sigqueue(K(pid), sig, plus(K(sigData), V("j"))),
    let("j", plus(V("j"), K(1))), goto("for") >>

\* The null signal asks whether the process exists.
t_kill_main(pid, sig) == <<
    try(kill(K(pid), sig)), when(K(sig), {"0"}, "null"),
    when(V("ret"), {-1}, "failed"), exit(K(0)),
    label("null"), when(V("ret"), {0}, "exists"), say(V("errno")),
    when(V("errno"), {"EPERM", "ESRCH"}, "done"),
    label("failed"), exit(K(1)),
    label("exists"), say(K("exists")),
    label("done"), exit(K(0)) >>

yt_kill_main(pid, sig) == t_kill_main(pid, sig)

-----------------------------------------------------------------------------
(* Receivers.  The counters are kept as one number. *)

sig_receiver_handler == <<
    when(V("sig"), {"INT"}, "int"), inc("sigCnt"), return,
    label("int"), set("gotSigint", K(TRUE)), return >>

sig_receiver(sigs, argc, handler) ==
    << set("sigCnt", K(0)), set("gotSigint", K(FALSE)) >> \o signalAll(sigs, handler) \o <<
    when(K(argc), {1}, "wait"),
    sigprocmask("SETMASK", K({sigs[k] : k \in 1..Len(sigs)}), ""), sleep,
    sigpending("sigset"), call("printSigset"), sigprocmask("SETMASK", K({}), ""),
    label("wait"), sched_yield, when(V("gotSigint"), {FALSE}, "wait"),
    say(V("sigCnt")), exit(K(0)) >>

sig_receiver_main(sigs, argc) == sig_receiver(sigs, argc, "sig_receiver_handler")

ysig_receiver_sighandler == sig_receiver_handler

ysig_receiver_main(sigs, argc) == sig_receiver(sigs, argc, "ysig_receiver_sighandler")

exr2001_handler == sig_receiver_handler

\* Unlike the other two it waits in pause(), after testing the flag.
exr2001_main(sigs, argc) ==
    << set("sigCnt", K(0)), set("gotSigint", K(FALSE)) >> \o sigactionAll(sigs, act("exr2001_handler", {}, {})) \o <<
    when(K(argc), {1}, "wait"),
    sigprocmask("SETMASK", K({sigs[k] : k \in 1..Len(sigs)}), ""), sleep,
    sigpending("pendingMask"), say(V("pendingMask")), sigprocmask("SETMASK", K({}), ""),
    label("wait"), when(V("gotSigint"), {TRUE}, "got"), pause, goto("wait"),
    label("got"), say(V("sigCnt")), exit(K(0)) >>

catch_rtsigs_siginfoHandler == <<
    when(V("sig"), {"INT", "TERM"}, "done"),
    inc("sigCnt"), say(V("si_value")), sleep, return,
    label("done"), set("allDone", K(1)), return >>

\* sa_mask: no handler interrupts another one.
catch_rtsigs_main(sigs, argc) ==
    LET all == {sigs[k] : k \in 1..Len(sigs)} IN
    << set("sigCnt", K(0)), set("allDone", K(0)) >>
    \o sigactionAll(sigs, act("catch_rtsigs_siginfoHandler", {"SIGINFO"}, all)) \o <<
    when(K(argc), {1}, "while"),
    sigprocmask("SETMASK", K(all \ {"INT", "TERM"}), "prevMask"), sleep, sigprocmask("SETMASK", V("prevMask"), ""),
    label("while"), when(V("allDone"), {1}, "done"), pause, goto("while"),
    label("done"), say(V("sigCnt")), exit(K(0)) >>

t_sigwaitinfo_main(allSigs) == <<
    sigprocmask("SETMASK", K(allSigs), ""), sleep,
    label("for"), sigwaitinfo(allSigs, "si"), when(fld(V("si"), "s"), {"INT", "TERM"}, "exit"),
    say(fld(V("si"), "d")), goto("for"),
    label("exit"), exit(K(0)) >>

\* read() from a signalfd takes a pending signal of its mask.
signalfd_sigval_main(mask) == <<
    sigprocmask("BLOCK", K(mask), ""),
    label("for"), sigwaitinfo(mask, "fdsi"), say(fld(V("fdsi"), "d")), goto("for") >>

intquit_sigHandler == <<
    when(V("sig"), {"INT"}, "int"), exit(K(0)),
    label("int"), inc("count"), return >>
intquit_main == << set("count", K(0)), signal("INT", "intquit_sigHandler"), signal("QUIT", "intquit_sigHandler"),
                   label("for"), pause, goto("for") >>

yintquit_handler == intquit_sigHandler
yintquit_main == << set("count", K(0)), signal("INT", "yintquit_handler"), signal("QUIT", "yintquit_handler"),
                    label("for"), pause, goto("for") >>

ouch_sigHandler == << say(K("Ouch!")), return >>
ouch_main == << signal("INT", "ouch_sigHandler"), label("for"), sleep, goto("for") >>
youch_sigHandler == << say(K("Eekye!")), return >>
youch_main == << signal("INT", "youch_sigHandler"), label("for"), sleep, goto("for") >>

-----------------------------------------------------------------------------
(* Blocking, pending and waiting *)

t_sigsuspend_handler == <<
    when(V("sig"), {"QUIT"}, "quit"), goto("count"),
    label("quit"), set("gotSigquit", K(1)),
    label("count"), inc("sigintCnt"), return >>

t_sigsuspend_main == <<
    set("gotSigquit", K(0)), set("sigintCnt", K(0)), call("printSigMask"),
    sigprocmask("BLOCK", K({"INT", "QUIT"}), "origMask"),
    sigaction("INT", K(act("t_sigsuspend_handler", {}, {})), ""),
    sigaction("QUIT", K(act("t_sigsuspend_handler", {}, {})), ""),
    label("for"), when(V("gotSigquit"), {1}, "exited"),
    call("printSigMask"), sched_yield, call("printPendingSigs"),
    sigsuspend(V("origMask")), when(V("errno"), {"EINTR"}, "for"), exit(K(1)),
    label("exited"), sigprocmask("SETMASK", V("origMask"), ""), call("printSigMask"), exit(K(0)) >>

sig_speed_handler == << return >>

sig_speed_main(numSigs) == <<
    sigaction("USR1", K(act("sig_speed_handler", {}, {})), ""),
    sigprocmask("SETMASK", K({"USR1"}), ""),
    fork, let("childPid", V("ret")), let("scnt", K(0)), when(V("childPid"), {0}, "child"),
    label("parent"), less(V("scnt"), K(numSigs), "pwait"), exit(K(0)),
    label("pwait"), sigsuspend(K({})), when(V("errno"), {"EINTR"}, "psend"), exit(K(1)),
    label("psend"), kill(V("childPid"), "USR1"), let("scnt", plus(V("scnt"), K(1))), goto("parent"),
    label("child"), less(V("scnt"), K(numSigs), "csend"), exit(K(0)),
    label("csend"), getppid, kill(V("ret"), "USR1"),
    sigsuspend(K({})), let("scnt", plus(V("scnt"), K(1))), when(V("errno"), {"EINTR"}, "child"), exit(K(1)) >>

\* The listing's own comment: BUG: what if SIGINT arrives now...
listing_2204_sandbox == <<
    sigaction("INT", K(act("sig_speed_handler", {}, {})), ""),
    sigprocmask("BLOCK", K({"INT"}), "prevMask"), sched_yield,
    sigprocmask("SETMASK", V("prevMask"), ""),
    pause, exit(K(0)) >>

listing_2005_sanbox == <<
    sigprocmask("BLOCK", K({"INT"}), "prevMask"), say(K("enter")), sched_yield, say(K("leave")),
    sigprocmask("SETMASK", V("prevMask"), ""), exit(K(0)) >>

exr2002_handler == << say(K("caught")), return >>

exr2002_main == <<
    sigaction("INT", K(act("exr2002_handler", {}, {})), ""), raise("INT"),
    sigprocmask("BLOCK", K({"INT"}), "prevMask"), raise("INT"),
    sigpending("pendingMask"), when(V("pendingMask"), {{"INT"}}, "pending"), exit(K(1)),
    label("pending"), sigaction("INT", K(SIG_IGN), ""), sigprocmask("SETMASK", V("prevMask"), ""),
    sigpending("pendingMask"), when(V("pendingMask"), {{}}, "vanished"), say(K("FAILED")), exit(K(0)),
    label("vanished"), exit(K(0)) >>

ignore_pending_sig_handler == << say(K("caught")), return >>

ignore_pending_sig_main == <<
    sigaction("INT", K(act("ignore_pending_sig_handler", {}, {})), ""),
    sigprocmask("SETMASK", K({"INT"}), ""), sleep,
    sigpending("sigset"), call("printSigset"), sleep, signal("INT", "IGN"),
    sigpending("sigset"), call("printSigset"), sleep,
    sigaction("INT", K(act("ignore_pending_sig_handler", {}, {})), ""), sleep,
    sigprocmask("SETMASK", K({}), ""), exit(K(0)) >>

-----------------------------------------------------------------------------
(* Flags of handlers *)

exr2003_nodefer_handler == <<
    let("current_depth", plus(V("depth"), K(1))), set("depth", V("current_depth")),
    when(V("current_depth"), {1}, "first"),
    set("depth", minus(V("current_depth"), K(1))), say(K("nested")), return,
    label("first"), raise("INT"), exit(K(0)) >>

exr2003_nodefer_main(toggle) == <<
    set("depth", K(0)),
    sigaction("INT", K(act("exr2003_nodefer_handler", IF toggle = 1 THEN {"NODEFER"} ELSE {}, {})), ""),
    raise("INT"), exit(K(0)) >>

exr2003_resethand_handler == << say(K("caught")), return >>

exr2003_resethand_main == <<
    sigaction("INT", K(act("exr2003_resethand_handler", {"RESETHAND"}, {})), ""),
    raise("INT"), raise("INT"), say(K("test failure")), exit(K(0)) >>

\* The action read back, with SA_RESTART off (flag) or on
restarting(flag) ==
    [a \in [h : {"exr2004_handler"}, fl : {{}, {"RESTART"}}, m : {{}}] |->
        [a EXCEPT !.fl = IF flag = 1 THEN @ \ {"RESTART"} ELSE @ \cup {"RESTART"}]]

y_siginterrupt(sig, flag) == <<
    try(sigaction(sig, query, "sa")), when(V("ret"), {-1}, "failed"),
    try(sigaction(sig, app(restarting(flag), V("sa")), "")),
    label("failed"), return >>

siginterrupt(sig, flag) == <<
    try(sigaction(sig, query, "act")), when(V("ret"), {-1}, "failed"),
    try(sigaction(sig, app(restarting(flag), V("act")), "")),
    label("failed"), return >>

exr2004_handler == << return >>

exr2004_main(interrupt) == <<
    sigaction("INT", K(act("exr2004_handler", {}, {})), ""),
    call(interrupt), when(V("ret"), {-1}, "failed"),
    try(read(K(R("stdin")), "buf")), when(V("ret"), {-1}, "error"), say(V("buf")), exit(K(0)),
    label("error"), when(V("errno"), {"EINTR"}, "eintr"),
    label("failed"), exit(K(1)),
    label("eintr"), say(K("EINTR")), exit(K(0)) >>

sigsegv_handler == << say(K("Caught signal")), exit(K(1)) >>
overflowStack == << fault("SEGV", {"ONSTACK"}) >>      \* no stack is left but the alternate one
t_sigaltstack_main == << sigaction("SEGV", K(act("sigsegv_handler", {"ONSTACK"}, {})), ""), call("overflowStack") >>

\* A handler that returns is back at the division.
sigfpeCatcher == << say(K("Caught signal")), sleep, return >>
demo_SIGFPE_main(ignore, blocking) == <<
    when(K(ignore), {TRUE}, "ignore"), sigaction("FPE", K(act("sigfpeCatcher", {"RESTART"}, {})), ""), goto("set"),
    label("ignore"), signal("FPE", "IGN"),
    label("set"), when(K(blocking), {FALSE}, "divide"), sigprocmask("BLOCK", K({"FPE"}), "prevMask"),
    label("divide"), fault("FPE", {}),
    sleep, sigprocmask("SETMASK", V("prevMask"), ""), exit(K(1)) >>

-----------------------------------------------------------------------------
(* Non-local gotos and abort() *)

sigmask_longjmp_handler(senv) == <<
    call("printSigMask"), when(V("canJump"), {1}, "jump"), return,
    label("jump"), longjmp("sigmask_longjmp", "jumped", senv) >>

\* senv: the variable in which sigsetjmp() saves the mask; setjmp() saves none.
sigmask_longjmp_main(senv) == <<
    set("canJump", K(0)), call("printSigMask"),
    sigaction("INT", K(act("sigmask_longjmp_handler", {}, {})), ""),
    sigprocmask("BLOCK", K({}), senv), set("canJump", K(1)), goto("for"),
    label("jumped"), say(K("jumped")), call("printSigMask"),
    label("for"), pause, goto("for") >>

yabort == <<
    sigprocmask("UNBLOCK", K({"ABRT"}), ""),
    sigaction("ABRT", query, "act"), when(fld(V("act"), "h"), {"IGN"}, "reset"), goto("raise"),
    label("reset"), sigaction("ABRT", K(SIG_DFL), ""),
    label("raise"), raise("ABRT"),
    sigaction("ABRT", K(SIG_DFL), ""), raise("ABRT"), return >>

exr2101_handlerjmp == << longjmp("exr2101_test4", "jumped", "env") >>
exr2101_handler == << say(K("returning")), return >>

exr2101_test_main(testno) == <<
    when(K(testno), {2}, "ignore"), when(K(testno), {3}, "catch"), when(K(testno), {4}, "jump"),
    sigprocmask("BLOCK", K({"ABRT"}), ""), goto("abort"),
    label("ignore"), sigaction("ABRT", K(SIG_IGN), ""), goto("abort"),
    label("catch"), sigaction("ABRT", K(act("exr2101_handler", {}, {})), ""), goto("abort"),
    label("jump"), sigprocmask("BLOCK", K({}), "env"),
    sigaction("ABRT", K(act("exr2101_handlerjmp", {}, {})), ""),
    label("abort"), call("yabort"), say(K("TEST FAILURE")), exit(K(0)),
    label("jumped"), exit(K(0)) >>

-----------------------------------------------------------------------------
(* What a handler can see of the program, and do to it *)

\* Both halves are written by the handler; the fetch is not one access.
nonatomic_handler == << set("lo", minus(K(1), V("lo"))), set("hi", minus(K(1), V("hi"))), return >>

nonatomic_uint64_main == <<
    set("lo", K(0)), set("hi", K(0)), sigaction("USR1", K(act("nonatomic_handler", {}, {})), ""),
    fork, when(V("ret"), {0}, "child"),
    label("for"), let("loc", V("lo")), sched_yield, let("loc2", V("hi")), sched_yield, goto("for"),
    label("child"), getppid, kill(V("ret"), "USR1"), goto("child") >>

nonreentrant_handler == << set("crypt", K("argv2")), inc("handled"), return >>

\* crypt() returns its static buffer, which the handler may overwrite.
nonreentrant_main == <<
    set("handled", K(0)), set("mismatch", K(0)), let("cr1", K("argv1")),
    sigaction("INT", K(act("nonreentrant_handler", {}, {})), ""),
    label("for"), set("crypt", K("argv1")), sched_yield, when(V("crypt"), {"argv1"}, "for"),
    inc("mismatch"), goto("for") >>
=============================================================================

------------------------------- MODULE Sockets -------------------------------
(***************************************************************************)
(* The programs and the small libraries of src/sockets.  The socket of a   *)
(* client is named by the parameter p; getaddrinfo() is the sequence of    *)
(* addresses it returns.  What a program sends, copies or prints is a      *)
(* token.                                                                  *)
(***************************************************************************)
EXTENDS Syscalls

SV_SOCK_PATH == "svsock"
NL   == 99                                       \* the token for a newline
NoFd == <<"", "">>                               \* -1 where a descriptor is expected
Blank == -99                                     \* a line without a number
sd(p) == <<p, "a">>

-----------------------------------------------------------------------------
(* unix_sockets.c, yunix_sockets.c, inet_sockets.c *)

unixConnect(path, p) == <<
    try(socket(p)), try(connect(K(Addr(path)), p)), when(V("ret"), {-1}, "failed"),
    let("sfd", K(sd(p))), return,
    label("failed"), let("savedErrno", V("errno")), try(close(K(sd(p)))), let("errno", V("savedErrno")),
    let("sfd", K(NoFd)), return >>

\* o: a stream or a datagram socket, not bound yet
unixBind(path, o) == <<
    try(bind(K(Addr(path)), o)), when(V("ret"), {-1}, "failed"),
    let("sfd", K(Addr(path))), return,
    label("failed"), let("sfd", K(NoFd)), return >>

\* A path left behind by an earlier server is removed first.
removeOld(path) == << try(unlink(path)), when(V("ret"), {0}, "removed"),
                      when(V("errno"), {"ENOENT"}, "removed"), exit(K(1)), label("removed") >>

yunixconnect(path, p) == unixConnect(path, p)
yunixbind(path, o) == << try(unlink(path)), when(V("ret"), {0}, "bind"), when(V("errno"), {"ENOENT"}, "bind"),
                         let("sfd", K(NoFd)), return, label("bind") >> \o unixBind(path, o)
yunixAconnect(path, p) == unixConnect(path, p)
yunixAbind(path, o) == unixBind(path, o)

\* The first address that accepts the connection
inetConnect(result, p) == <<
    let("rp", K(1)),
    label("for"), less(K(Len(result)), V("rp"), "none"),
    try(socket(p)), try(connect(app(result, V("rp")), p)), when(V("ret"), {0}, "connected"),
    try(close(K(sd(p)))), let("rp", plus(V("rp"), K(1))), goto("for"),
    label("connected"), let("sfd", K(sd(p))), return,
    label("none"), let("sfd", K(NoFd)), return >>

\* The first address that can be bound
inetPassiveSocket(result, o, doListen) == <<
    let("rp", K(1)),
    label("for"), less(K(Len(result)), V("rp"), "none"),
    try(bind(app(result, V("rp")), o)), when(V("ret"), {0}, "bound"),
    let("rp", plus(V("rp"), K(1))), goto("for"),
    label("bound"), let("sfd", app(result, V("rp"))), when(K(doListen), {FALSE}, "done"),
    try(listen(V("sfd"))), when(V("ret"), {-1}, "none"),
    label("done"), return,
    label("none"), let("sfd", K(NoFd)), return >>
inetListen(result) == inetPassiveSocket(result, Listener("inet"), TRUE)
inetBind(result)   == inetPassiveSocket(result, Dgram("inet"), FALSE)

-----------------------------------------------------------------------------
(* read_line.c, yread_line.c, read_line_buf.c, ybio.c, rdwrn.c: lines and  *)
(* counted reads and writes, over reads that return as little as one token *)
(* and that signals interrupt.  "line" is the last token before the end of *)
(* the line.                                                               *)

readLine(n) == <<
    let("totRead", K(0)), let("line", K(Blank)),
    label("for"), try(read(V("fd"), "ch")), when(V("ret"), {-1}, "failed"), when(V("ret"), {0}, "eof"),
    less(V("totRead"), K(n - 1), "store"), goto("end"),
    label("store"), let("totRead", plus(V("totRead"), K(1))), when(V("ch"), {NL}, "break"), let("line", V("ch")),
    label("end"), when(V("ch"), {NL}, "break"), goto("for"),
    label("failed"), when(V("errno"), {"EINTR"}, "for"), return,
    label("eof"), when(V("totRead"), {0}, "none"),
    label("break"), let("ret", V("totRead")), return,
    label("none"), return >>

yreadLine(n) == readLine(n)

\* No restart after EINTR, and up to n tokens, not n - 1
readLineBuf(n) == <<
    let("cnt", K(0)), let("line", K(Blank)),
    label("for"), less(V("next"), V("len"), "next"),
    try(read(V("fd"), "buf")), let("len", V("ret")), when(V("len"), {-1}, "failed"), when(V("len"), {0}, "break"),
    let("next", K(0)),
    label("next"), let("c", V("buf")), let("next", plus(V("next"), K(1))),
    less(V("cnt"), K(n), "store"), goto("end"),
    label("store"), let("cnt", plus(V("cnt"), K(1))), when(V("c"), {NL}, "break"), let("line", V("c")),
    label("end"), when(V("c"), {NL}, "break"), goto("for"),
    label("failed"), return,
    label("break"), let("ret", V("cnt")), return >>

readLineBufInit == << let("len", K(0)), let("next", K(0)), return >>

ybio_init == << let("bio_cnt", K(0)), return >>

ybio_read == <<
    label("while"), less(K(0), V("bio_cnt"), "copy"),
    try(read(V("fd"), "bio_buf")), let("bio_cnt", V("ret")), when(V("ret"), {-1}, "failed"), when(V("ret"), {0}, "eof"),
    label("copy"), let("ch", V("bio_buf")), let("bio_cnt", minus(V("bio_cnt"), K(1))), let("ret", K(1)), return,
    label("failed"), when(V("errno"), {"EINTR"}, "while"),
    label("eof"), return >>

ybio_readl(n) == <<
    let("numRead", K(0)), let("line", K(Blank)),
    label("for"), call("ybio_read"), when(V("ret"), {-1}, "none"), when(V("ret"), {0}, "eof"),
    less(plus(V("numRead"), K(1)), K(n), "store"), goto("end"),
    label("store"), let("numRead", plus(V("numRead"), K(1))), when(V("ch"), {NL}, "break"), let("line", V("ch")),
    label("end"), when(V("ch"), {NL}, "break"), goto("for"),
    label("eof"), when(V("numRead"), {0}, "none"),
    label("break"), let("ret", V("numRead")), return,
    label("none"), return >>

readn(n) == <<
    let("totRead", K(0)),
    label("for"), less(V("totRead"), K(n), "read"), let("ret", V("totRead")), return,
    label("read"), try(read(V("fd"), "buf")), when(V("ret"), {0}, "eof"), when(V("ret"), {-1}, "failed"),
    let("totRead", plus(V("totRead"), V("ret"))), goto("for"),
    label("failed"), when(V("errno"), {"EINTR"}, "for"), return,
    label("eof"), let("ret", V("totRead")), return >>

writen(n) == <<
    let("totWritten", K(0)),
    label("for"), less(V("totWritten"), K(n), "write"), let("ret", V("totWritten")), return,
    label("write"), try(write(V("fd"), V("totWritten"))), when(V("ret"), {-1, 0}, "failed"),
    let("totWritten", plus(V("totWritten"), V("ret"))), goto("for"),
    label("failed"), when(V("errno"), {"EINTR"}, "for"), let("ret", K(-1)), return >>

-----------------------------------------------------------------------------
(* us_xfr: what the clients read from standard input, the server prints *)

sendStdin(e) == <<
    label("while"), read(K(stdin), "buf"), when(V("ret"), {0}, "eof"), write(e, V("buf")), goto("while"),
    label("eof"), exit(K(0)) >>

printClients(e) == <<
    label("for"), accept(e, "cfd"),
    label("while"), read(V("cfd"), "buf"), when(V("ret"), {0}, "eof"), say(V("buf")), goto("while"),
    label("eof"), try(close(V("cfd"))), goto("for") >>

failed == << label("failed"), exit(K(1)) >>

us_xfr_cl_main(p) == << socket(p), connect(K(Addr(SV_SOCK_PATH)), p) >> \o sendStdin(K(sd(p)))
us_xfr_sv_main == removeOld(SV_SOCK_PATH)
    \o << bind(K(Addr(SV_SOCK_PATH)), Listener("path")), listen(K(Addr(SV_SOCK_PATH))) >>
    \o printClients(K(Addr(SV_SOCK_PATH)))
yus_xfr_cl_main(p) == us_xfr_cl_main(p)
yus_xfr_sv_main == us_xfr_sv_main

us_xfr_v2_cl_main == << call("unixConnect"), when(V("sfd"), {NoFd}, "failed") >> \o sendStdin(V("sfd")) \o failed
us_xfr_v2_sv_main == << call("unixBind"), when(V("sfd"), {NoFd}, "failed"), listen(V("sfd")) >> \o printClients(V("sfd")) \o failed
exr5903_us_xfr_cl_main == << call("yunixconnect"), when(V("sfd"), {NoFd}, "failed") >> \o sendStdin(V("sfd")) \o failed
exr5903_us_xfr_sv_main == << call("yunixbind"), when(V("sfd"), {NoFd}, "failed"), listen(V("sfd")) >> \o printClients(V("sfd")) \o failed
exr5903_a_us_xfr_cl_main == << call("yunixAconnect"), when(V("sfd"), {NoFd}, "failed") >> \o sendStdin(V("sfd")) \o failed
exr5903_a_us_xfr_sv_main == << call("yunixAbind"), when(V("sfd"), {NoFd}, "failed"), listen(V("sfd")) >> \o printClients(V("sfd")) \o failed

\* In the abstract namespace there is nothing to remove.
exr5702_cl_main(p) == << socket(p), connect(K(Addr(SV_SOCK_PATH)), p) >> \o sendStdin(K(sd(p)))
exr5702_sv_main == << bind(K(Addr(SV_SOCK_PATH)), Listener("abstract")), listen(K(Addr(SV_SOCK_PATH))) >>
    \o printClients(K(Addr(SV_SOCK_PATH)))

us_abstract_bind_main == << bind(K(Addr("xyz")), Listener("abstract")), sleep, exit(K(0)) >>
\* strncpy() is told to leave out the last character of "socket_95123".
us_socket_SANBOX == << bind(K(Addr("socket_9512")), Listener("path")), return >>

-----------------------------------------------------------------------------
(* ud_ucase, i6d_ucase, exr5701, exr5704: datagrams *)

toupper == [a |-> "A", b |-> "B", c |-> "C"]

ask(own, to, argv) == <<
    let("j", K(1)),
    label("for"), less(K(Len(argv)), V("j"), "end"),
    sendto(K(own), K(to), app(argv, V("j"))), recvfrom(K(own), "resp"), say(fld(V("resp"), 2)),
    let("j", plus(V("j"), K(1))), goto("for"), label("end") >>
upper(e) == app(toupper, e)
answer(own) == <<
    label("for"), recvfrom(own, "req"), sendto(own, fld(V("req"), 1), upper(fld(V("req"), 2))), goto("for") >>

\* The client is bound to a path of its own, for the answers to come to.
ud_ucase_cl_main(claddr, argv) == << bind(K(Addr(claddr)), Dgram("path")) >>
    \o ask(Addr(claddr), Addr(SV_SOCK_PATH), argv) \o << try(unlink(claddr)), exit(K(0)) >>
ud_ucase_sv_main == removeOld(SV_SOCK_PATH)
    \o << bind(K(Addr(SV_SOCK_PATH)), Dgram("path")) >> \o answer(K(Addr(SV_SOCK_PATH)))
yud_ucase_cl_main(claddr, argv) == ud_ucase_cl_main(claddr, argv)
yud_ucase_sv_main == ud_ucase_sv_main
exr5903_ud_ucase_cl_main(claddr, argv) == << call("yunixbind_cl"), when(V("sfd"), {NoFd}, "failed") >>
    \o ask(Addr(claddr), Addr(SV_SOCK_PATH), argv) \o << try(unlink(claddr)), exit(K(0)) >> \o failed
exr5903_ud_ucase_sv_main == << call("yunixbind_dgram"), when(V("sfd"), {NoFd}, "failed") >> \o answer(V("sfd")) \o failed

i6d_ucase_cl_main(port, argv) == << bind(K(Addr(port)), Dgram("inet")) >>
    \o ask(Addr(port), Addr("port"), argv) \o << exit(K(0)) >>
i6d_ucase_sv_main == << bind(K(Addr("port")), Dgram("inet")) >> \o answer(K(Addr("port")))
yi6d_ucase_cl_main(port, argv) == i6d_ucase_cl_main(port, argv)
yi6d_ucase_sv_main == i6d_ucase_sv_main

\* A peer that does not read: the datagrams that fit wait, the sender blocks.
exr5701_cl_main(claddr) == <<
    bind(K(Addr(claddr)), Dgram("abstract")), sendto(K(Addr(claddr)), K(Addr(SV_SOCK_PATH)), K("all")), sleep,
    label("while"), try(recvfrom_nb(K(Addr(claddr)), "buf")), when(V("ret"), {-1}, "failed"),
    say(fld(V("buf"), 2)), goto("while"),
    label("failed"), exit(K(1)) >>
exr5701_sv_main(n) == <<
    bind(K(Addr(SV_SOCK_PATH)), Dgram("abstract")), recvfrom(K(Addr(SV_SOCK_PATH)), "req"), let("i", K(0)),
    label("for"), less(V("i"), K(n), "send"), exit(K(0)),
    label("send"), sendto(K(Addr(SV_SOCK_PATH)), fld(V("req"), 1), V("i")), let("i", plus(V("i"), K(1))), goto("for") >>

\* A has B as its peer, except while it waits for a message from C.
exr5704_a_main(in) == <<
    bind(K(Addr("A")), Dgram("path")),
    label("while"), read(K(in), "buf"), when(V("ret"), {0}, "end"), when(V("buf"), {"newline"}, "end"),
    when(V("buf"), {"c:"}, "any"),
    dconnect(K(Addr("A")), "B"), sendto(K(Addr("A")), K(Addr("B")), V("buf")),
    recvfrom(K(Addr("A")), "resp"), say(fld(V("resp"), 2)), goto("while"),
    label("any"), dconnect(K(Addr("A")), ""), recvfrom(K(Addr("A")), "resp"), say(fld(V("resp"), 2)), goto("while"),
    label("end"), try(unlink("A")), exit(K(0)) >>
exr5704_b_main == << bind(K(Addr("B")), Dgram("abstract")) >> \o answer(K(Addr("B")))
exr5704_c_main(in) == <<
    bind(K(Addr("C")), Dgram("path")),
    label("while"), read(K(in), "buf"), when(V("ret"), {0}, "end"), when(V("buf"), {"newline"}, "end"),
    when(V("buf"), {"a:"}, "toA"),
    sendto(K(Addr("C")), K(Addr("B")), V("buf")), recvfrom(K(Addr("C")), "resp"), say(fld(V("resp"), 2)), goto("while"),
    label("toA"), try(sendto(K(Addr("C")), K(Addr("A")), K("c"))), when(V("ret"), {1}, "while"),
    when(V("errno"), {"EPERM"}, "while"), exit(K(1)),
    label("end"), try(unlink("C")), exit(K(0)) >>

-----------------------------------------------------------------------------
(* is_seqnum: ranges of sequence numbers.  conn: inetConnect() with the socket of the client *)

seqnumClient(read_, reqLen) == <<
    let("fd", V("sfd")), write(V("fd"), K(reqLen)), write(V("fd"), K(NL)),
    call(read_), when(V("ret"), {-1, 0}, "failed"), say(V("line")), exit(K(0)), label("failed"), exit(K(1)) >>

\* A server that counts clients, not numbers
seqnumServer_single(init, read_, seqNum, bad) == <<
    set("seqNum", K(seqNum)),
    label("for"), try(accept(V("lfd"), "cfd")), when(V("ret"), {-1}, "for"), let("fd", V("cfd")) >> \o init \o <<
    call(read_), when(V("ret"), {-1, 0}, "close"), let("reqLen", V("line")), when(V("reqLen"), bad, "close"),
    try(writev(V("cfd"), pair(V("seqNum"), K(NL)))), set("seqNum", plus(V("seqNum"), K(1))),
    label("close"), try(close(V("cfd"))), goto("for") >>
\* bad: the lengths that the server turns down; an answer that cannot be sent
\* uses up its range all the same.
seqnumServer(init, read_, seqNum, bad) == <<
    set("seqNum", K(seqNum)),
    label("for"), try(accept(V("lfd"), "cfd")), when(V("ret"), {-1}, "for"), let("fd", V("cfd")) >> \o init \o <<
    call(read_), when(V("ret"), {-1, 0}, "close"), let("reqLen", V("line")), when(V("reqLen"), bad, "close"),
    try(writev(V("cfd"), pair(V("seqNum"), K(NL)))), set("seqNum", plus(V("seqNum"), V("reqLen"))),
    label("close"), try(close(V("cfd"))), goto("for") >>

\* What is_seqnum turns down, and what the others do: only what is no number
NotPositive == {Blank, -1, 0}
NoNumber == {Blank}

is_seqnum_cl_main(conn, reqLen) == << call(conn), when(V("sfd"), {NoFd}, "failed") >> \o seqnumClient("readLine", reqLen)
is_seqnum_sv_main(seqNum) == <<
    sigaction("PIPE", K(SIG_IGN), ""), call("inetListen"), when(V("sfd"), {NoFd}, "failed"), let("lfd", V("sfd")) >>
    \o seqnumServer(<<>>, "readLine", seqNum, NotPositive) \o failed
is_seqnum_v2_cl_main(conn, reqLen) == is_seqnum_cl_main(conn, reqLen)
is_seqnum_v2_sv_main(seqNum) == is_seqnum_sv_main(seqNum)
yis_seqnum_cl_main(conn, reqLen) == << call(conn), when(V("sfd"), {NoFd}, "failed") >> \o seqnumClient("yreadLine", reqLen)
yis_seqnum_sv_main(seqNum) == <<
    sigaction("PIPE", K(SIG_IGN), ""), call("inetListen"), when(V("sfd"), {NoFd}, "failed"), let("lfd", V("sfd")) >>
    \o seqnumServer(<<>>, "yreadLine", seqNum, NoNumber) \o failed
exr5901_cl_main(conn, reqLen) == << call(conn), when(V("sfd"), {NoFd}, "failed"), call("ybio_init") >>
    \o seqnumClient("ybio_readl", reqLen)
exr5901_sv_main(seqNum) == <<
    sigaction("PIPE", K(SIG_IGN), ""), call("inetListen"), when(V("sfd"), {NoFd}, "failed"), let("lfd", V("sfd")) >>
    \o seqnumServer(<< call("ybio_init") >>, "ybio_readl", seqNum, NoNumber) \o failed
exr5902_cl_main(conn, reqLen) == exr5901_cl_main(conn, reqLen)
\* inetListen() is not checked: with -1, accept() fails for ever.
exr5902_sv_main(seqNum) == << sigaction("PIPE", K(SIG_IGN), ""), call("inetListen"), let("lfd", V("sfd")) >>
    \o seqnumServer(<< call("ybio_init") >>, "ybio_readl", seqNum, NoNumber)

-----------------------------------------------------------------------------
(* is_echo and id_echo *)

is_echo_grimReaper == <<
    let("savedErrno", V("errno")),
    label("while"), try(waitpid(K(-1), {"NOHANG"})), less(K(0), V("ret"), "while"),
    let("errno", V("savedErrno")), return >>

handleRequest == <<
    label("while"), try(read(V("cfd"), "buf")), when(V("ret"), {0}, "eof"), when(V("ret"), {-1}, "failed"),
    try(write(V("cfd"), V("buf"))), when(V("ret"), {1}, "while"),
    label("failed"), exit(K(1)),
    label("eof"), return >>

\* A child for every client; each process closes the socket it does not need.
is_echo_sv_main == <<
    call("becomeDaemon"), when(V("ret"), {-1}, "failed"),
    sigaction("CHLD", K(act("is_echo_grimReaper", {"RESTART"}, {})), ""),
    call("inetListen"), when(V("sfd"), {NoFd}, "failed"), let("lfd", V("sfd")),
    label("for"), try(accept(V("lfd"), "cfd")), when(V("ret"), {-1}, "failed"),
    try(fork), when(V("ret"), {0}, "child"), try(close(V("cfd"))), goto("for"),
    label("child"), try(close(V("lfd"))), call("handleRequest"), exit(K(0)),
    label("failed"), exit(K(1)) >>

\* inetd: the connection is standard input; otherwise accept() is tried again.
is_echo_v2_sv_main(inetd, stdin_) ==
    IF inetd THEN << let("cfd", K(stdin_)), call("handleRequest"), exit(K(0)) >>
    ELSE <<
    call("becomeDaemon"), when(V("ret"), {-1}, "failed"),
    sigaction("CHLD", K(act("is_echo_grimReaper", {"RESTART"}, {})), ""),
    call("inetListen"), when(V("sfd"), {NoFd}, "failed"), let("lfd", V("sfd")),
    label("for"), try(accept(V("lfd"), "cfd")), when(V("ret"), {-1}, "for"),
    try(fork), when(V("ret"), {0}, "child"), try(close(V("cfd"))), goto("for"),
    label("child"), try(close(V("lfd"))), call("handleRequest"), exit(K(0)),
    label("failed"), exit(K(1)) >>

is_echo_inetd_sv_main(stdin_) == <<
    label("while"), try(read(K(stdin_), "buf")), when(V("ret"), {-1}, "failed"), when(V("ret"), {0}, "eof"),
    try(write(K(stdin_), V("buf"))), when(V("ret"), {1}, "while"),
    label("failed"), exit(K(1)),
    label("eof"), exit(K(0)) >>

\* The parent sends standard input and shuts the socket down for writing, so
\* that the server sees the end; the child prints what comes back.
is_echo_cl_main(conn) == <<
    call(conn), when(V("sfd"), {NoFd}, "failed"), fork, when(V("ret"), {0}, "child"),
    label("for"), try(read(K(stdin), "buf")), when(V("ret"), {-1, 0}, "eof"), write(V("sfd"), V("buf")), goto("for"),
    label("eof"), shutdown(V("sfd")), exit(K(0)),
    label("child"), try(read(V("sfd"), "buf")), when(V("ret"), {-1, 0}, "end"), say(V("buf")), goto("child"),
    label("end"), exit(K(0)),
    label("failed"), exit(K(1)) >>

id_echo_sv_main == <<
    call("becomeDaemon"), when(V("ret"), {-1}, "failed"), call("inetBind"), when(V("sfd"), {NoFd}, "failed"),
    label("for"), try(recvfrom(V("sfd"), "req")), when(V("ret"), {-1}, "failed"),
    try(sendto(V("sfd"), fld(V("req"), 1), fld(V("req"), 2))), goto("for"),
    label("failed"), exit(K(1)) >>
id_echo_cl_main(port, argv) == << bind(K(Addr(port)), Dgram("inet")), dconnect(K(Addr(port)), "echo") >>
    \o ask(Addr(port), Addr("echo"), argv) \o << exit(K(0)) >>

\* A connection of a process with itself
socknames_main(p) == <<
    call("inetListen"), when(V("sfd"), {NoFd}, "failed"), let("listenFd", V("sfd")),
    call("inetConnect"), when(V("sfd"), {NoFd}, "failed"), accept(V("listenFd"), "acceptFd"),
    say(pair(V("sfd"), V("acceptFd"))), sleep, exit(K(0)), label("failed"), exit(K(1)) >>

-----------------------------------------------------------------------------
(* Descriptors and credentials over a socket.  The files are open: ends    *)
(* whose content is read up to its end.                                    *)

SOCK_PATH == "scm"

sendfd(ends) == << try(sendmsg(V("sockfd"), pair(K(12345), K(0)), ends)), return >>
recvfd == <<
    try(recvmsg(V("sockfd"), "msgh", 1)), when(V("ret"), {-1}, "failed"),
    when(len(fld(V("msgh"), 3)), {1}, "fd"), let("errno", K("EINVAL")),
    label("failed"), let("fd", K(NoFd)), return,
    label("fd"), let("fd", fld(fld(V("msgh"), 3), 1)), return >>

acceptOne(path) == removeOld(path) \o <<
    call("unixBind_scm"), when(V("sfd"), {NoFd}, "failed"), listen(V("sfd")), accept(V("sfd"), "cfd") >>

scm_rights_send_main(fd) == <<
    call("unixConnect_scm"), when(V("sfd"), {NoFd}, "failed"),
    sendmsg(V("sfd"), K(<<12345, 0>>), <<fd>>), close(K(fd)), exit(K(0)) >> \o failed
scm_rights_recv_main == acceptOne(SOCK_PATH) \o <<
    recvmsg(V("cfd"), "msgh", 1), when(V("ret"), {0}, "failed"), when(len(fld(V("msgh"), 3)), {0}, "failed"),
    let("fd", fld(fld(V("msgh"), 3), 1)),
    label("for"), read(V("fd"), "buf"), when(V("ret"), {0}, "eof"), say(V("buf")), goto("for"),
    label("eof"), exit(K(0)) >> \o failed

\* creds: the PID on the command line, 0 for none
scm_cred_send_main(creds) == <<
    call("unixConnect_scm"), when(V("sfd"), {NoFd}, "failed"),
    sendmsg(V("sfd"), K(<<12345, creds>>), <<>>), exit(K(0)) >> \o failed
scm_cred_recv_main == acceptOne(SOCK_PATH) \o <<
    recvmsg(V("cfd"), "msgh", 0), when(V("ret"), {0}, "failed"), say(fld(V("msgh"), 2)), exit(K(0)) >> \o failed

\* Ancillary data without data does not get through a stream.
scm_multi_send_main(fdList, creds, sendData) == <<
    call("unixConnect_scm"), when(V("sfd"), {NoFd}, "failed"), when(K(sendData), {FALSE}, "end"),
    sendmsg(V("sfd"), K(<<12345, creds>>), fdList),
    label("end"), exit(K(0)) >> \o failed
scm_multi_recv_main(n) == acceptOne(SOCK_PATH) \o <<
    recvmsg(V("cfd"), "msgh", n), when(V("ret"), {0}, "end"), say(fld(V("msgh"), 2)),
    let("fdList", fld(V("msgh"), 3)), let("j", K(1)),
    label("for"), less(len(V("fdList")), V("j"), "end"), let("fd", app2(V("fdList"), V("j"))),
    label("read"), read(V("fd"), "buf"), when(V("ret"), {0}, "close"), say(V("buf")), goto("read"),
    label("close"), close(V("fd")), let("j", plus(V("j"), K(1))), goto("for"),
    label("end"), exit(K(0)) >> \o failed
=============================================================================

------------------------------- MODULE Files -------------------------------
(***************************************************************************)
(* The programs of fileio/ and mmap/: several processes that create, write,*)
(* append to or map the same file.  The content of a file is a sequence;   *)
(* an offset is a variable of the process, or of the processes that share  *)
(* the open file description.                                              *)
(***************************************************************************)
EXTENDS Syscalls

\* One read() at offset x of f; ret is 0 at the end of the file.
pread(f, x) == <<
    load(f, "content"), less(V(x), len(V("content")), "data"), let("ret", K(0)), goto("read"),
    label("data"), let("buf", app2(V("content"), plus(V(x), K(1)))), let("ret", K(1)), label("read") >>

\* lseek(fd, 0, SEEK_END)
seekEnd(f, x) == << load(f, "content"), let(x, len(V("content"))) >>

\* A second argument makes the program wait between the two calls.
checkThenCreate(delay, mine) == <<
    try(open("file")), when(V("ret"), {0}, "exists"), when(V("errno"), {"ENOENT"}, "free"), exit(K(1)),
    label("free") >> \o (IF delay THEN << sleep >> ELSE <<>>) \o <<
    create("file", FALSE, File(<<>>)), say(K("created")) >> \o mine \o <<
    exit(K(0)), label("exists"), say(K("exists")), exit(K(0)) >>
bad_exclusive_open_main(delay) == checkThenCreate(delay, <<>>)
ybadoexcl_main(text) == checkThenCreate(TRUE, << fwrite("file", K(-1), K(text)) >>)

\* O_CREAT without O_EXCL: the file of somebody else opens just as well.
yoexcl_main_not_exclusive(text) == <<
    create("file", FALSE, File(<<>>)), sleep, say(K("created")), fwrite("file", K(0), K(text)), exit(K(0)) >>

yoexcl_main(text) == <<
    try(create("file", TRUE, File(<<>>))), when(V("ret"), {0}, "mine"),
    when(V("errno"), {"EEXIST"}, "exists"), exit(K(1)),
    label("exists"), say(K("exists")), exit(K(0)),
    label("mine"), sleep, say(K("created")), fwrite("file", K(0), K(text)), exit(K(0)) >>

\* With a third argument the program seeks to the end instead of O_APPEND.
atomic_append_main(numBytes, useLseek, byte) == <<
    create("log", FALSE, File(<<>>)), let("j", K(0)),
    label("for"), less(V("j"), K(numBytes), "write"), exit(K(0)), label("write") >>
    \o (IF useLseek THEN seekEnd("log", "off") \o << fwrite("log", V("off"), K(byte)) >>
        ELSE << fwrite("log", K(-1), K(byte)) >>) \o <<
    let("j", plus(V("j"), K(1))), goto("for") >>
yatomicappend_main(numBytes, useLseek, byte) == atomic_append_main(numBytes, useLseek, byte)

copy_main == <<
    open("src"), creat("dst", File(<<>>)), let("off", K(0)), label("while") >> \o pread("src", "off") \o << when(V("ret"), {0}, "end"),
    fwrite("dst", V("off"), V("buf")), let("off", plus(V("off"), K(1))), goto("while"),
    label("end"), exit(K(0)) >>
ycopy_main == copy_main

\* tee: append is the option -a.
exr0401_main(append) ==
    << IF append THEN create("out", FALSE, File(<<>>)) ELSE creat("out", File(<<>>)), let("off", K(0)),
    label("while"), try(read(K(stdin), "buf")), when(V("ret"), {0}, "end"), when(V("ret"), {-1}, "failed"),
    fwrite("out", IF append THEN K(-1) ELSE V("off"), V("buf")), let("off", plus(V("off"), K(1))),
    write(K(W("stdout")), V("buf")), goto("while"),
    label("end"), exit(K(0)), label("failed"), exit(K(1)) >>

\* fd1 and fd2 share an offset, fd3 has its own; cat(1) shows the file.
multi_descriptors_main == <<
    creat("file", File(<<>>)), let("off1", K(0)), let("off3", K(0)),
    fwrite("file", V("off1"), K("Hello,")), let("off1", plus(V("off1"), K(1))), load("file", "content"), say(V("content")),
    fwrite("file", V("off1"), K(" world")), let("off1", plus(V("off1"), K(1))), load("file", "content"), say(V("content")),
    let("off1", K(0)),
    fwrite("file", V("off1"), K("HELLO,")), let("off1", plus(V("off1"), K(1))), load("file", "content"), say(V("content")),
    fwrite("file", V("off3"), K("Gidday")), load("file", "content"), say(V("content")), exit(K(0)) >>

-----------------------------------------------------------------------------
(* Mappings: MAP_SHARED is the file itself, or memory the child shares *)

anon_mmap_main == <<
    create("anon", TRUE, Cell(0)), store("anon", K(1)),
    fork, when(V("ret"), {0}, "child"), wait, load("anon", "addr"), say(V("addr")), exit(K(0)),
    label("child"), load("anon", "addr"), store("anon", plus(V("addr"), K(1))), exit(K(0)) >>

mmcat_main == << open("src"), load("src", "addr"), write(K(W("stdout")), V("addr")), exit(K(0)) >>

mmcopy_main == <<
    open("src"), load("src", "addr"), when(len(V("addr")), {0}, "end"),
    creat("dst", File(<<>>)), store("dst", V("addr")), label("end"), exit(K(0)) >>

t_mmap_main(text) == <<
    open("map"), load("map", "addr"), say(V("addr")), when(K(text), {""}, "end"),
    store("map", K(text)), label("end"), exit(K(0)) >>
=============================================================================

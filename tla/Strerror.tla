------------------------------ MODULE Strerror ------------------------------
(***************************************************************************)
(* threads/strerror*.c: strerror() with a static buffer, with thread-local *)
(* storage and with thread-specific data, and the program that tells them  *)
(* apart; and the programs of threads/ that create one thread and join it. *)
(* A buffer is a variable: of the process, or of the thread.               *)
(***************************************************************************)
EXTENDS Syscalls

strerror_static == << set("buf", V("err")), return >>
strerror_tls    == << let("buf", V("err")), return >>

createKey == << set("strerrorKey", K(1)), return >>
\* pthread_once(): the first caller creates the key, the others wait for it.
strerror_tsd == <<
    lock("once"), when(V("strerrorKey"), {1}, "created"), call("createKey"), label("created"), unlock("once"),
    let("buf", V("err")), return >>

strerror_test_threadFunc(strerror) == << let("err", K("EPERM")), call(strerror), say(V("buf")), pthread_exit >>
strerror_test_main(strerror, threadFunc) == <<
    let("err", K("EINVAL")), call(strerror),
    pthread_create(threadFunc, K(0)), let("t", V("tid")), pthread_join(V("t")),
    say(V("buf")), exit(K(0)) >>

createAndJoin(f, message) == <<
    pthread_create(f, K(message)), let("t", V("tid")), pthread_join(V("t")), exit(K(0)) >>
simple_thread_threadFunc == << say(V("arg")), pthread_exit >>
simple_thread_main == createAndJoin("simple_thread_threadFunc", "Hello world")
exr2901_routine == << say(V("arg")), pthread_exit >>
exr2901_main == createAndJoin("exr2901_routine", "Message from main thread!")
=============================================================================

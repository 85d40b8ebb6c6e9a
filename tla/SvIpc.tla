------------------------------- MODULE SvIpc -------------------------------
(***************************************************************************)
(* The System V IPC programs of svsem/, svmsg/ and svshm/ that create,     *)
(* use and remove one object: the semaphore "svsem", the queue "msgq", the *)
(* segment "svshm"; and the event flags of svsem/event_flags.c, which are  *)
(* semaphores: 0 is a flag that is set.                                    *)
(***************************************************************************)
EXTENDS Syscalls

\* xxxget(): flags as given on the command line
get(o, flags, new) == IF "CREAT" \in flags THEN create(o, "EXCL" \in flags, new) ELSE open(o)

waitForEventFlag(o) == <<
    label("while"), try(svsemop(o, K(0))), when(V("ret"), {0}, "return"),
    when(V("errno"), {"EINTR"}, "while"), label("return"), return >>
clearEventFlag(o) == << try(store(o, K(1))), return >>
setEventFlag(o)   == << try(store(o, K(0))), return >>
getFlagState(o)   == <<
    try(load(o, "sem_val")), when(V("ret"), {-1}, "return"),
    when(V("sem_val"), {0}, "set"), let("isSet", K(FALSE)), return,
    label("set"), let("isSet", K(TRUE)), label("return"), return >>

svsem_demo_main(create_, value) ==
    IF create_ THEN << create("svsem", TRUE, Sem(0)), store("svsem", K(value)), exit(K(0)) >>
    ELSE << svsemop("svsem", K(value)), exit(K(0)) >>
svsem_create_main(flags) == << get("svsem", flags, Sem(0)), exit(K(0)) >>
\* For a set of one semaphore
svsem_setall_main(values) == <<
    open("svsem"), when(K(Len(values)), {1}, "match"), exit(K(1)),
    label("match"), store("svsem", K(values[1])), exit(K(0)) >>

svmsg_create_main(flags) == << get("msgq", flags, Msgq), exit(K(0)) >>
svmsg_send_main(nowait, type, text) == <<
    IF nowait THEN msgsnd_nb("msgq", K(<<type, text>>)) ELSE msgsnd("msgq", K(<<type, text>>)), exit(K(0)) >>
svmsg_receive_main(type, flags) == <<
    msgrcv("msgq", "msg", [type |-> type, flags |-> flags]), say(V("msg")), exit(K(0)) >>
removes(o) == << unlink(o), exit(K(0)) >>
svmsg_rm_main == removes("msgq")

svshm_create_main(flags) == << get("svshm", flags, Cell(0)), exit(K(0)) >>
svshm_attach_main == << open("svshm"), sleep, exit(K(0)) >>
svshm_rm_main == removes("svshm")
=============================================================================

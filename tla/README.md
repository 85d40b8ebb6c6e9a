# A verification of the TLPI example programs

The repository holds some 440 C files, most of them small programs, in one directory per chapter
of *The Linux Programming Interface*. There is no single system: most programs
stand alone, some come in pairs that talk to each other, and a few are long.
This project models the ones in which several actors meet (threads, processes,
signals, the kernel's queues), checks them with TLC on small instances, and
proves the properties that matter most with TLAPS.

Every definition is translated from the source; `PROJECT.json` ("map") names
its lines. Kernel and library objects (semaphores, pipes, message queues,
inotify, mutexes, nftw) are *external*: modelled by what the programs rely on.

## 1. Inventory

| Part | Sources | State | What is hard about it |
|---|---|---|---|
| Shared-memory transfer | `svshm/svshm_xfr_*`, `svsem/binary_sems.c` | two semaphores, a segment, totals | two processes in turns; objects left by a killed run; removal at the end |
| Directory-tree monitor | `inotify/inotify_dtree.c`, `rand_dtree.c` | cache of watches, event buffer, tree walks | events describe a past the filesystem has left; queue overflow; renames in two events; a timeout by signal |
| Threads | `threads/`, `psem/thread_incr_psem.c` | mutexes, condition variables, keys, a barrier | lost wakeups, lost updates, cancellation, one-time initialisation |
| Semaphore initialisation | `svsem/svsem_good_init.c`, `svsem_bad_init.c`, `svsem_rm.c` | one semaphore and its `sem_otime` | creation and initialisation are two steps; a creator may die between them |
| Pipes | `pipes/` | descriptors, bytes in flight | end-of-file needs every copy of the write end closed |
| FIFO service | `pipes/fifo_seqnum_*` | the next number, FIFOs | clients killed between request and answer |
| Message-queue file service | `svmsg/svmsg_file_*` | queues, a child per request | merged SIGCHLDs, full and removed queues, failing fork |
| Path functions | `threads/name_tsd.c`, `exr3101_test.c` | none | buffer limit, only slashes, empty path |
| Processes, signals, job control | `procexec/`, `signals/`, `pgsjc/`, `daemons/` | children, masks, pending signals | races with signals, merged signals, reaping |
| Sockets, alternative I/O, POSIX IPC | `sockets/`, `altio/`, `pmsg/`, `psem/` | connections, descriptors, notifications | one-shot notification, partial reads, signal before select |
| Locks, terminals, timers, seccomp, namespaces | `filelock/`, `pty/`, `timers/`, `seccomp/`, `namespaces/` | see the source | lock ordering, relays, timeouts, filter programs |
| Conversions of text | `lib/get_num.c`, `svsem/svsem_op.c`, `acl/`, `timers/itimerspec_from_str.c` | none | boundaries, widths |
| The rest | all other directories | none to speak of | one system call and a printout each |

`PROJECT.json` lists every part with its status, and under "hazards" what can
go wrong in each at the line where it would.

## 2. Modules

| Module | Models | Notes |
|---|---|---|
| `ShmXfr` | writer, reader, binary semaphores | one action per system call or access to the segment |
| `Handoff` | abstract: items given and taken one at a time | refined by `ShmXfr` |
| `InotifyDtree` | monitor, kernel queue, processes that change the tree | the monitor is cut at its system calls |
| `ProdCondvar`, `MultiJoin`, `ThreadIncr`, `OneTimeInit`, `NameTsd`, `ThreadCleanup`, `BarrierDemo` | the programs of `threads/` | actions named after the code's functions and steps |
| `PathSplit` | `dirname_tsd()` and `basename_tsd()` as functions | with an independent reference |
| `SemInit` | both ways of initialising a semaphore (`prog` says which) | `Remove` is `svsem_rm.c` |
| `Pipes` | four programs as scripts of calls, and an interpreter of the calls | the scripts are the programs; `Fork`, `Read`, `Write`... are the system |
| `FifoSeqnum` | the FIFO server and its clients | |
| `SvmsgFile` | the file server, its children and clients | |
| `MCInotifyDtree` | instances for TLC | `ShmXfr` and `PathSplit` need none |
| `Syscalls`, `KernelTasks`, `KernelIo`, `Kernel` | the system calls and the kernel the programs below run on | external; section 2.1 |
| `Procexec`, `Signals`, `Pgsjc`, `Daemons`, `Altio`, `PosixIpc`, `SvIpc`, `Timers`, `Sockets`, `Files`, `Terminals`, `Namespaces`, `Seccomp`, `Strerror` | the programs of the directories of these names, about 230 source files (`Daemons` has `filelock/`, `PosixIpc` has `pmsg/`, `psem/` and `pshm/`, `Files` has `fileio/` and `mmap/`, `Terminals` has `tty/` and `pty/`, `Strerror` the rest of `threads/`) | one definition per C function: the sequence of calls it makes |
| `MCThreads`, `MCIpc`, `MCPrograms` | several unrelated programs in one run | below; `ThreadPrograms` is the part of `MCThreads` that `ThreadsProofs` is about |
| `ShmXfrProofs`, `ThreadDataProofs`, `ThreadsProofs`, `MCThreadsProofs`, `PipesProofs`, `IpcProofs`, `InotifyDtreeLemmas`, `InotifyDtreeProofs` | the proofs | section 5 |

`MCThreads` and `MCIpc` put programs that have nothing to do with each other
side by side: the variable `system` says which of them a behaviour is a run
of. Each program is an `INSTANCE` of its module; variables of the same name are
shared, and those that only other programs have keep the value `Unused`. A
property is stated for the system that runs. Fairness belongs to scheduling and
is stated in these modules, not in the components.

`MCPrograms` does the same for the programs that are call scripts: `Systems` is a table
of some 180 small systems (programs, the users, senders and shells that drive them, and
the files and queues there are at the start), and `Init` starts any one of them.

### 2.1 Programs as call scripts

A C function is a sequence of *calls*: system calls, and statements on the
program's own variables (`let` for locals, `set` for globals, `when` and `less`
for branches, `say` for output). `KernelTasks!Run` executes a task's statements up
to its next system call; each system call is an action of `Kernel` or `KernelIo`,
so tasks interleave at system calls, which is where they can notice each other.
Accesses to memory that is shared without a lock are the calls `load` and `store`,
and interleave too. What the scripts leave implicit:

* A system call that fails ends the program, as `systmErr()` does, unless it
  is in `try(...)`: then `ret` and `errno` say what happened, and the script has
  the branches of the code.
* Signals that are due are handled before a task's statements go on. A handler
  is a script as well; it runs on the task's stack with the mask of its
  `sigaction()`. A call that waits is interrupted, and restarted only with
  `SA_RESTART` and only if it is one of those that can be.
* Signals that are not realtime signals are pending at most once; sleeps and timers
  end at any moment, overruns are counted up to `MaxOverrun`.
* Handling of arguments and texts is left out. `read()` and `write()`
  move one item (a character, line or record); a pipe, queue or backlog holds
  `PipeCap` of them. Sockets of the Internet domain lose and duplicate datagrams.
* `fork()` fails when the system has as many processes as it may (`n` of
  `Systems`). Other shortages (descriptors, memory) do not occur.
* `umask()`, `chdir()`, `dup2()` onto the standard descriptors of a daemon and
  `nice()` have no effect that a property could see and are left out.
  Terminal settings are five flags; with `TCSAFLUSH`, `tcsetattr()` discards the
  input that has not been read, with `TCSANOW` it does not. Namespaces count only as far as objects in
  them differ and as the first process of one adopts orphans. Pathnames in the
  seccomp programs are classes (`/tmp/`, relative, other, `/bye`); option `-f`
  (a second filter) is not modelled, nor are `EPOLLONESHOT`, `EPOLLEXCLUSIVE`,
  option `-d` of the `scm_*` programs, `ECONNREFUSED` on UDP sockets, or
  semaphore sets with more than one member in these modules.

`machine` holds the functions that the programs of the chosen system can reach.

Correspondence with the code, for the larger modules:

* `ShmXfr`: `w.pc` and `r.pc` are the places between two system calls of the
  two `main()`s. `WTest` is the end-of-file test *and* the loop's
  `bytes += shmp->cnt`, both of which read the segment after the turn was given
  away. A new semaphore set has the value 0; `Init` allows any leftover.
* `InotifyDtree`: `wlCache` is the array of slots (`Empty` for `wd = -1`),
  `buf` the events read and not handled, `walk` an `nftw()` in progress with
  the directories it has open. `zapSubtree`, `rewriteCachedPaths`,
  `findEmptyCacheSlot`... are the functions of the same name. `Deliver` and
  `Enqueue` are the kernel: duplicate events merge, a full queue gets one
  overflow event, removing a watch queues `IN_IGNORED`. A rename changes the
  tree first and generates its events one by one afterwards. `reinitialize`
  walks the root directories that are still monitored.
* `SvmsgFile`: `child[c]` is the child that serves client `c`; `sigchld` one
  pending signal, however many children have ended. `lost` records a read error
  in the child, which the client cannot see (`svmsg_file_server.c:59-60`).
  `QueueLen` bounds the server's queue and the clients' alike: whoever sends
  waits while the queue is full.
* `FifoSeqnum`: `open()` of a FIFO waits for the other end. `Kill` leaves a
  client's FIFO behind, since exit handlers do not run. `seqNum` is a number
  without bound here and an `int` in the code (`fifo_seqnum_server.c:89`): what is
  checked and proved holds until the sum of the lengths passes the largest `int`.

## 3. Runs

| Run | Bounds | Shows |
|---|---|---|
| `shm_xfr` | buffer of 2, two contents, 3 blocks; all leftovers | exclusion, order, totals, removal after the reader, termination, refinement of `Handoff` |
| `shm_xfr_leftover` | buffer of 1, 2 blocks | *violation*: a reader started during set-up shares the segment with the writer |
| `dtree_create_delete` | one root, names a, b, depth 3, 4 operations, queue of 2 | the cache equals the tree whenever all events are handled, overflows included; the monitor comes to rest |
| `dtree_all` | two roots, two processes, all operations during walks, one command | one slot per descriptor; slots and watches match |
| `dtree_rename` | 3 creations or renames | *violation*: a directory renamed before its creation was handled is never cached |
| `dtree_alarm` | one rename | *violation*: SIGALRM before the second `read()` leaves it without a timeout |
| `dtree_rebuild` | 2 creations, one command | *violation*: after command `0` an old readiness flag leads to a blocking `read()` |
| `dtree_check` | two roots, 2 operations | *violation*: option `-x` may exit over an empty slot |
| `threads` | 3 producers (2, 0 and 1 units), 3 threads to join, 2-3 threads with 2-4 increments in a 4-bit int, 3 threads with 2 one-time calls, 2 with thread-specific data, 3 barriers | section 4 |
| `path_split` | every path of up to 6 of `a`, `.`, `/`; buffer of 6 | the two functions against their reference |
| `ipc` | 2 semaphore users, 2 tries, 3 sets; 4 bytes, buffer 2, pipe 3, 2 children; 3 FIFO clients, one killed; 2 file clients, files missing, empty and of 2 blocks, a queue of 1, one killed | section 4 |
| `programs` | about 180 systems of up to 4 processes and threads at the start and 8 in all; 1-3 messages, lines or signals each; queues of 2 | the programs of `MCPrograms`; section 4 |

Why these bounds are enough: each lets the case that its property is about
happen. A pipe of 3 with a buffer of 2 gives partial transfers and full pipes;
a queue of one response blocks every sender; a queue of 2 events overflows; 3
threads let one act between two others; three semaphore sets let a process hold
the identifier of a removed one, and again; paths of 6 with a buffer of 6 are cut.
The mutants in `PROJECT.json` confirm it: for each property a plausible mistake
in the code makes that same run fail.

Deadlock checking is off in all runs because the programs end, or wait for
input that never comes; that nobody waits who should not is the subject of the
liveness properties.

## 4. Properties

*Shared memory.* `ExclusiveAccess`, `InTurn`, `ObjectsOutliveReader` and
`TotalsAgree` restate the comments of `svshm_xfr_writer.c` (lines 18-22, 85-86).

*Monitor.* `Consistent` is the promise of `inotify_dtree.c:24-25`. It holds for
creations and removals when the filesystem is still during a walk. It does not
hold with renames (`dtree_rename`), nor when directories vanish during a walk:
`nftw()` then ends early and the directories not yet visited stay unwatched
(set `AtomicWalk = FALSE` in `MCInotifyDtree.cfg` to see it). `WatchesMatchSlots`
and `UniqueWds` hold in all cases, also those in which the cache is wrong about
pathnames: watches and slots never diverge.

*Threads.* `NoLostWakeup` although both programs with a condition
variable signal after releasing the mutex; `IncrRight`: no update is lost with
any lock, and without one at least two survive and none is invented; `OnceInit`:
no call returns before `init()` has, which the flag alone would not give; buffers
of thread-specific data are each one thread's and are freed; a cancelled thread
leaves no mutex locked; no thread is a barrier ahead. `AllEnd`: every program
ends, except that the polling consumer of `prod_no_condvar.c` need not let the
others in.

*IPC.* `GoodInit` is what `svsem_good_init.c` is for, kills and removals
included; `BadCreatorsOpStays` is what is left of it in `svsem_bad_init.c`.
`PipesSyncAfterAll` and `PipesEcho` are the purposes of the pipe programs.
`FifoUniqueNumbers` is the service of the FIFO server. `FileComplete`: a client
that succeeds has the whole file. `AllSettle` says that nobody waits for good and that
merged SIGCHLDs leave no zombie, with two exceptions that are in
the code: a client killed before it opens its FIFO leaves the sequence-number
server waiting in `open()`, and a file server whose `fork()` fails has already
taken the request of a client that then waits.

*Programs.* `ProgramsEnd`: every process and thread that is not a server ends, so
that no order of steps makes it miss the signal, end of file, event or child it
waits for: merged SIGCHLDs (`multi_SIGCHLD.c`), a signal before `select()`
(`self_pipe.c`), a wait that a handler interrupts, locks that would deadlock
(`i_fcntl_locking.c`). `Servers` lists the programs without an end,
`nonreentrant.c` among them, whose loop has none. `Stranded`
lists those that the run shows waiting for good: a signal between test and
`pause()` (`listing_2204.c`, `exr2001.c`, `simple_init.c`,
`orphaned_pgrp_SIGHUP.c`), a lost datagram (`i6d_ucase_cl.c`, `id_echo_cl.c`), a
target that ends before its supervisor has a SIGCHLD handler
(`seccomp_unotify_mkdir.c`, in `recvfd`), and a timer that expires faster than
the program runs (`real_timer.c`). `NotificationsActedOn`: one-shot notifications
of message queues and SIGHUP are never missed for good; messages may stay in a queue
only while a program is registered and has had no notification yet, which is the
case of a queue that was not empty to begin with. `NothingLost`: when nothing
moves any more, what was sent has arrived and what was typed has been read, except
what was typed before a program flushed its input; a program that spins without
effect counts as one that does not move, so that a lost SIGIO in `demo_sigio.c`
would show. `TtyRestored`: the terminal has the user's settings while the
SIGTSTP handler has the program stopped and when it has ended, also for `script.c`
and `demo_sigio.c`.
`TrueAfterWait`: what a program says after a wait is true; `system()` is run with a command
and with NULL, which asks whether there is a shell. `NumbersDisjoint`: the
sequence-number servers give no number twice, and `is_seqnum_sv.c` gives none, and
keeps its counter, when a client asks for fewer than one. `OneCreator` is what
exclusive creation and the PID file promise. Programs that show a race on purpose (`bad_exclusive_open.c`,
`atomic_append.c x`, `nonreentrant.c`, `strerror.c`) are run without a claim about it.

Fairness is weak fairness of each thread or process, which a preemptive
scheduler gives: one that can go on does. Kills, removals, keyboard commands,
filesystem operations and failing calls are never forced to happen. Wakeups
without a signal are assumed to stop at some point; weak fairness of the
monitor and of the kernel's event delivery is all that `InotifyDtree` assumes.

In `Kernel` fairness is a formula of its own: either everything comes to rest, or
each task, time and again, is at rest or changes its own state. `AtRest` says that no
step of the task or of its timers would change anything: it sleeps in a call that
cannot complete, is stopped, has ended, or spins in a loop that only a signal
ends. It is the negation of `ENABLED` written out, and the formula follows from
weak fairness of each task's steps and timers. Behaviours in which a task spins
for ever are therefore not excluded; `ProgramsEnd` would be false in them.

Five findings come from runs that violate a statement in the sources; they are
listed in `PROJECT.json` with the lines.

## 5. Proofs

Each proof follows the same plan: an inductive invariant, `Init` implies it, each
action keeps it (one step per action, one step under it per conjunct that the
action can disturb), and it implies the property that TLC checks. The theorems
hold for every value of the constants that the named assumptions allow; TLC
evaluates the assumptions in its runs.

| Module | About | Theorems that state a property of a run |
|---|---|---|
| `ShmXfrProofs` | `ShmXfr` | `TypeCorrect`, `Exclusive`, `BlocksInTurn`, `ReaderFinishedFirst`, `ReportsAgree`, `ImplementsHandoff` |
| `ThreadDataProofs` | `ThreadIncr`, `ProdCondvar`, `NameTsd` | through `MCThreadsProofs` |
| `ThreadsProofs` | `OneTimeInit`, `MultiJoin`, `ThreadCleanup`, `BarrierDemo`, as `ThreadPrograms` instantiates them | through `MCThreadsProofs`; `ExitJoinsAll` on its own |
| `MCThreadsProofs` | `MCThreads` | every invariant of the run `threads` |
| `PipesProofs` | `Pipes` | through `IpcProofs` |
| `IpcProofs` | `SemInit`, `FifoSeqnum`, `SvmsgFile`, as `MCIpc` instantiates them, and `MCIpc` | every invariant of the run `ipc` |
| `InotifyDtreeLemmas` | the operators of `InotifyDtree`: queue, watches, cache | none: lemmas |
| `InotifyDtreeProofs` | `InotifyDtree` | every invariant of the run `dtree_all` |

**`ShmXfr`** (`ShmXfrAssumption`: a positive buffer size, some data, a natural
bound on the input). Nothing in "not both inside" says why the next reserve must
wait. The invariant says where the *turn* is: once the writer has initialised the
semaphores there is exactly one turn, in WRITE_SEM, with the writer, in READ_SEM
or with the reader. To that it adds how far the reader is once the input has
ended, which block is unread in each of these places, and both totals up to it.
The refinement of `Handoff` follows from it and the fact that only `WRead` and
`RWrite` change what was given and taken.

**`MCThreads`** (`ThreadsAssumption`, the conjunction of the components'). The
invariant of each program holds while `system` says that it is the one that runs:
a step of `MCThreads` is a step of that program, or leaves its variables alone.

* `OneTimeInit` (any threads and calls): the flag is set exactly when `init()` has
  returned; `init()` is entered and not returned from only while a thread with
  the mutex is inside it.
* `ProdCondvar` (any producers and counts). Wakeups: who holds the mutex; main
  sleeps only after it saw nothing under the mutex, so whoever added a unit since
  has still to signal. Units: a unit is a pair of producer and number. The units
  made are as many as those available and consumed, and they are among those
  that the producers created so far were asked for. When main has consumed as
  many as the command line asks for, the two sets have the same cardinality and
  so are the same.
* `MultiJoin` (any number of threads): as for wakeups above; the counters are
  the cardinalities of the sets of threads they stand for.
* `ThreadIncr` (any threads, loops and width of int): the increments made so far
  are triples of thread and loop indices. With a lock `glob` is their number
  modulo the width. Without one it is at most their number, and the last store
  of all is made by a thread that loaded a value not below one that its own
  earlier store had raised to 1 or more.
* `NameTsd` (a finite set of threads): a block that is not free is the buffer of
  exactly one thread and function, so no write changes what another thread is
  about to read.
* `ThreadCleanup`: the buffer is allocated and the mutex locked by the thread only
  between certain places of it, and in all of these but the `printf()` before
  `pthread_cleanup_push()` the handler that undoes both is in place or the thread
  cannot be cancelled.
* `BarrierDemo` (any threads and crossings): if a crossing counts from when the
  barrier opens, all threads are at the same crossing at all times; each crossing
  that was opened has one serial thread, which has returned or is still to.

**`MCIpc`** (`IpcAssumption`), by the same argument about `system`.

* `SemInit` (any processes, operations, values of a new semaphore, sets):
  `sem_otime` separates the creator from the others. Whoever is before its
  `semctl()` or its dummy `semop()` on the present set is its creator and the
  time is zero, and whoever is at its operation has seen the time set.
* `FifoSeqnum` (any clients, lengths, kills): all sequences answered so far lie
  below `seqNum` and apart from each other, a request carries its client's
  length, and a client that has printed is not answered again.
* `SvmsgFile` (any clients, files, queue lengths, kills, failing forks): the
  blocks a client has received, followed by those in its queue, are the blocks
  its child has sent so far, in order; an END comes after all blocks of the
  file, and nothing follows it. A client is served by one child only, since it
  makes one request.
* `Pipes` (any input, any buffer that a pipe can hold, any capacity, any number of
  children). For each program the invariant has three parts: where in
  their scripts the processes can be together (`SyncCtl`, `SimpleCtl`...), which
  ends of the pipes each has open there (`SyncEnds`...), and where the input is
  (`SyncFlow`...): what was output, is in the pipe, in the writer's buffer and
  still to be read is the input, in this order. In `change_case.c` one line at a
  time is under way, in one of six places. With `pipe_sync.c` each child has the write
  end open from its `fork()` to the end of its work, the parent until it has
  forked them all, and nothing is ever written; end-of-file therefore says that
  no child is before its `close()`. With the others the last copy of a write end is
  closed when all input has gone in, and a reader is there as long as a writer is.

**`InotifyDtree`** (`InotifyAssumption`; any names, roots, initial trees,
processes, depths, queue lengths, buffer sizes, commands and options). The
invariant `Agree` relates the inotify instance, the cache and the events not
yet handled:

* descriptors are never used twice, and no two watches share one (`InstOK`);
* the slots in use have descriptors of their own (`CacheOK`);
* every watch has a slot (`Covered`);
* every slot has a watch, or an event that announces the end of one, or an
  overflow, is still to be handled (`Matched`);
* a watch whose end is announced does not come back (`EndsAreFinal`), so that the
  handler of the event clears a slot without a watch.

That no such event is thrown away needs to know what is in the buffer at every
point of the main loop (`BufferOK`): it is empty wherever a rebuild may start
from outside event handling, and a walk in the midst of it is one for a creation or a
move at the head of the buffer. `InotifyDtreeLemmas` shows `Agree` for each
operator: adding and removing watches, enqueuing, zapping subtrees, rewriting
pathnames, emptying slots.

### Model-checked only

* Liveness (`Terminates`, `Settles`, `BackToSelect`, `AllEnd`, `AllSettle`,
  `ProgramsEnd`, `NotificationsActedOn`): the proof system does not reason about
  fairness.
* `Consistent` of the monitor: it holds only for creations and removals with
  still walks, and violations of it are among the findings.
* `Recombines`, `LikeLibrary`, `ResultFits` of `PathSplit`: what functions that
  recurse over a path compute, which needs induction over data.
* The properties of `MCPrograms`: a task runs its statements by recursion
  (`KernelTasks!Run`), which the proof system does not support.

## 6. Not modelled

* Programs that make one system call and print the result, among them most of
  `files/`, `filesys/`, `dirs_links/`, `xattr/`, `sysinfo/`, `syslim/`, `loginacct/`,
  `time/`, `procpri/`, `cap/`, `proccred/`, `users_groups/`: there is nothing to
  interleave and no state after the call.
* Text: conversions (`get_num.c`, `itimerspec_from_str.c`, `svsem_op.c`'s parser,
  `acl_update.c`), formatting, usage messages.
* What compilers and libraries do within one process (`longjmp` and variables,
  `sbrk`, `dlopen`, stdio buffers beyond `fork_stdio_buf.c`, `atexit` handlers), the
  memory manager (`mprotect`, `mlock`, `madvise`), process accounting.
* The seccomp filters themselves: they are programs for the BPF machine.
* Errors of system calls are modelled where the program goes on or another
  process is affected; where it exits before it has done anything they are
  left out.

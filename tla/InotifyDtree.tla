---------------------------- MODULE InotifyDtree ----------------------------
(***************************************************************************)
(* inotify/inotify_dtree.c: a cache of the directory trees named on the    *)
(* command line, kept up to date from inotify events while other processes *)
(* (inotify/rand_dtree.c) create, remove and rename directories.           *)
(*                                                                         *)
(* Three parties interleave: the processes that change the filesystem, the *)
(* kernel's inotify instance (external), and the monitor.  The monitor is  *)
(* cut at its system calls: everything it does between two of them touches *)
(* only its own memory.  Pathnames are sequences of names, << >> being the *)
(* root directory; only directories exist.                                 *)
(***************************************************************************)
EXTENDS Integers, Sequences, FiniteSets, Functions

CONSTANTS
    Names,          \* names of directory entries
    Roots,          \* the command line: a sequence of distinct pathnames
    InitDirs,       \* directories that exist at the start, prefix-closed
    Mutators,       \* processes that change the filesystem
    Kinds,          \* what they do: a subset of {"c", "d", "m", "u"}
    RootsChange,    \* whether they also remove or rename root directories
    AtomicWalk,     \* whether tree walks happen between their operations
    CheckCache,     \* whether option -x is given
    AbortOnCacheProblem, \* option -a
    ALLOC_INCR,     \* slots by which the cache grows
    MaxDepth,       \* bound: names in a pathname
    MaxOps,         \* bound: filesystem operations
    MaxQueue,       \* the kernel's limit on queued events
    ReadBufEvents,  \* events that fit the first read (option -b)
    MaxCmds         \* bound: keyboard commands

ASSUME InotifyAssumption ==
    /\ Roots \in Seq(Seq(Names)) /\ Roots # << >>
    /\ InitDirs \subseteq Seq(Names) \ {<< >>} /\ IsFiniteSet(InitDirs)
    /\ \A p \in InitDirs : SubSeq(p, 1, Len(p) - 1) \in InitDirs \cup {<< >>}
    /\ Range(Roots) \subseteq InitDirs
    /\ Kinds \subseteq {"c", "d", "m", "u"}
    /\ {RootsChange, AtomicWalk, CheckCache, AbortOnCacheProblem} \subseteq BOOLEAN
    /\ {ALLOC_INCR, MaxQueue, ReadBufEvents} \subseteq Nat \ {0}
    /\ {MaxDepth, MaxOps, MaxCmds} \subseteq Nat

VARIABLES
    fs,             \* the directories: pathname -> i-node
    ops,            \* operations done so far; also the source of i-nodes and cookies
    pend,           \* per mutator: events its last operation has yet to generate
    inst,           \* the inotify instance: watch (i-node -> descriptor), self, next, queue
    wlCache,        \* the cache: a sequence of slots
    rootDirPaths,   \* the root pathnames still monitored
    pc, rfds,       \* the monitor's main loop
    buf, firstTry,  \* processInotifyEvents
    walk, ret,      \* an nftw() in progress, and where the monitor goes after it
    checkCache,     \* checkCache: option -x, and the toggle of command 'x'
    cmds

kernel  == <<fs, ops, pend>>
monitor == <<wlCache, rootDirPaths, pc, rfds, buf, firstTry, walk, ret, checkCache, cmds>>
vars    == <<fs, ops, pend, inst, monitor>>

-----------------------------------------------------------------------------
(* The kernel: filesystem and inotify instance (external) *)

Parent(p)   == SubSeq(p, 1, Len(p) - 1)
Name(p)     == p[Len(p)]
Under(p, q) == Len(p) <= Len(q) /\ SubSeq(q, 1, Len(p)) = p
Rebase(q, old, new) == new \o SubSeq(q, Len(old) + 1, Len(q))

NewInstance == [watch |-> << >>, self |-> {}, next |-> 1, queue |-> << >>]

NoName   == "-"  \* of an event about the watched directory itself
Overflow == [wd |-> -1, mask |-> "Q_OVERFLOW", name |-> NoName, cookie |-> 0]
Event(wd, mask, name, cookie) == [wd |-> wd, mask |-> mask, name |-> name, cookie |-> cookie]

\* A duplicate of the last event is dropped; a full queue gets one overflow event.
Enqueue(q, e) ==
    IF q # << >> /\ q[Len(q)] = e THEN q
    ELSE IF Len(q) < MaxQueue THEN Append(q, e)
    ELSE IF Overflow \in Range(q) THEN q ELSE Append(q, Overflow)

Queued(in, q) == [watch |-> in.watch, self |-> in.self, next |-> in.next, queue |-> q]

\* Removing the watch of i-node i queues an IN_IGNORED event.
DropWatch(in, i) ==
    [watch |-> Restrict(in.watch, DOMAIN in.watch \ {i}),
     self  |-> in.self \ {i},
     next  |-> in.next,
     queue |-> Enqueue(in.queue, Event(in.watch[i], "IGNORED", NoName, 0))]

\* What one operation on i-node e.ino does to the instance.
Deliver(in, e) ==
    IF e.ino \notin DOMAIN in.watch \/ (e.mask = "MOVE_SELF" /\ e.ino \notin in.self)
    THEN in
    ELSE LET in2 == Queued(in, Enqueue(in.queue, Event(in.watch[e.ino], e.mask, e.name, e.cookie)))
         IN IF e.mask \in {"DELETE_SELF", "UNMOUNT"} THEN DropWatch(in2, e.ino) ELSE in2

\* inotify_add_watch on an existing path: a watched i-node keeps its descriptor.
AddWatch(in, i, self) ==
    IF i \in DOMAIN in.watch
    THEN [watch |-> in.watch,
          self  |-> IF self THEN in.self \cup {i} ELSE in.self \ {i},
          next  |-> in.next,
          queue |-> in.queue]
    ELSE [watch |-> [j \in DOMAIN in.watch \cup {i} |-> IF j = i THEN in.next ELSE in.watch[j]],
          self  |-> IF self THEN in.self \cup {i} ELSE in.self,
          next  |-> in.next + 1,
          queue |-> in.queue]

Watched(in, wd) == \E i \in DOMAIN in.watch : in.watch[i] = wd

\* Events e one after the other, none of which is queued already
EnqueueAll(q, e) ==
    LET room == IF Len(q) < MaxQueue THEN MaxQueue - Len(q) ELSE 0 IN
    IF Len(e) <= room THEN q \o e
    ELSE IF Overflow \in Range(q) THEN q \o SubSeq(e, 1, room)
    ELSE Append(q \o SubSeq(e, 1, room), Overflow)

\* inotify_rm_watch for each of a sequence of watched descriptors
RmWatches(in, wds) ==
    LET gone == {i \in DOMAIN in.watch : in.watch[i] \in Range(wds)} IN
    [watch |-> Restrict(in.watch, DOMAIN in.watch \ gone),
     self  |-> in.self \ gone,
     next  |-> in.next,
     queue |-> EnqueueAll(in.queue, [k \in DOMAIN wds |-> Event(wds[k], "IGNORED", NoName, 0)])]

-----------------------------------------------------------------------------
(* rand_dtree.c, and whatever else changes the directories *)

Raw(ino, mask, name, cookie) == [ino |-> ino, mask |-> mask, name |-> name, cookie |-> cookie]

MayMutate(m, k) ==
    /\ k \in Kinds /\ ops < MaxOps /\ pend[m] = << >>
    /\ AtomicWalk => pc # "walk"
    /\ ops' = ops + 1
    /\ UNCHANGED <<inst, monitor>>

Movable == {p \in DOMAIN fs \ {<< >>} : RootsChange \/ p \notin Range(Roots)}

Mkdir(m) ==
    /\ MayMutate(m, "c")
    /\ \E p \in DOMAIN fs, n \in Names :
          LET q == Append(p, n) IN
          /\ q \notin DOMAIN fs /\ Len(q) <= MaxDepth
          /\ fs' = [x \in DOMAIN fs \cup {q} |-> IF x = q THEN ops + 1 + Cardinality(InitDirs) ELSE fs[x]]
          /\ pend' = [pend EXCEPT ![m] = <<Raw(fs[p], "CREATE", n, 0)>>]

Rmdir(m) ==
    /\ MayMutate(m, "d")
    /\ \E p \in Movable :
          /\ \A q \in DOMAIN fs : Under(p, q) => q = p
          /\ fs' = Restrict(fs, DOMAIN fs \ {p})
          /\ pend' = [pend EXCEPT ![m] = <<Raw(fs[p], "DELETE_SELF", NoName, 0)>>]

\* The tree changes first; the two or three events follow one by one.
Rename(m) ==
    /\ MayMutate(m, "m")
    /\ \E p \in Movable, d \in DOMAIN fs, n \in Names :
          LET q == Append(d, n)
              moved == {x \in DOMAIN fs : Under(p, x)} IN
          /\ q \notin DOMAIN fs /\ ~Under(p, q)
          /\ \A x \in moved : Len(Rebase(x, p, q)) <= MaxDepth
          /\ fs' = [x \in (DOMAIN fs \ moved) \cup {Rebase(y, p, q) : y \in moved} |->
                       IF Under(q, x) THEN fs[Rebase(x, q, p)] ELSE fs[x]]
          /\ pend' = [pend EXCEPT ![m] = <<Raw(fs[Parent(p)], "MOVED_FROM", Name(p), ops + 1),
                                            Raw(fs[d], "MOVED_TO", n, ops + 1),
                                            Raw(fs[p], "MOVE_SELF", NoName, 0)>>]

\* The filesystem mounted on a root directory is unmounted: the tree on it
\* goes, the empty mount point underneath appears.
Unmount(m) ==
    /\ MayMutate(m, "u")
    /\ \E p \in Range(Roots) \cap DOMAIN fs :
          LET gone   == {x \in DOMAIN fs : Under(p, x)}
              events == {Raw(fs[x], "UNMOUNT", NoName, 0) : x \in gone} IN
          /\ fs' = [x \in (DOMAIN fs \ gone) \cup {p} |-> IF x = p THEN ops + 1 + Cardinality(InitDirs) ELSE fs[x]]
          /\ \E order \in Bijection(1..Cardinality(events), events) :
                pend' = [pend EXCEPT ![m] = order]

EmitEvent(m) ==
    /\ pend[m] # << >>
    /\ inst' = Deliver(inst, Head(pend[m]))
    /\ pend' = [pend EXCEPT ![m] = Tail(@)]
    /\ UNCHANGED <<fs, ops, monitor>>

Mutator(m) == Mkdir(m) \/ Rmdir(m) \/ Rename(m) \/ Unmount(m) \/ EmitEvent(m)

-----------------------------------------------------------------------------
(* The watch list cache *)

Empty == [wd |-> -1, path |-> << >>]
Slots == 1..Len(wlCache)
Used(c) == {j \in 1..Len(c) : c[j].wd >= 0}

\* The slot of a watch descriptor, or 0 (the code's -1)
findWatch(c, wd) == IF \E j \in 1..Len(c) : c[j].wd = wd
                    THEN CHOOSE j \in 1..Len(c) : c[j].wd = wd ELSE 0

\* Mutant: only the descriptor is reset.
markCacheSlotEmpty_KeepsPath(c, j) == [c EXCEPT ![j].wd = -1]

markCacheSlotEmpty(c, j) == [c EXCEPT ![j] = Empty]

\* The first empty slot, after growing the cache when there is none
findEmptyCacheSlot(c) == IF \E j \in 1..Len(c) : c[j] = Empty
                         THEN CHOOSE j \in 1..Len(c) : c[j] = Empty /\ \A k \in 1..(j-1) : c[k] # Empty
                         ELSE Len(c) + 1
addWatchToCache(c, wd, path) ==
    LET grown == IF \E j \in 1..Len(c) : c[j] = Empty THEN c
                 ELSE c \o [j \in 1..ALLOC_INCR |-> Empty]
    IN [grown EXCEPT ![findEmptyCacheSlot(c)] = [wd |-> wd, path |-> path]]

pathnameInCache(c, path) == \E j \in Used(c) : c[j].path = path

\* Fix up the cached pathnames below a renamed directory.  An empty slot
\* has the empty path, which no renamed directory has as a prefix.
rewriteCachedPaths(c, old, new) ==
    [j \in 1..Len(c) |-> IF Under(old, c[j].path)
                         THEN [c[j] EXCEPT !.path = Rebase(@, old, new)] ELSE c[j]]

-----------------------------------------------------------------------------
(* The root pathnames *)

isRootDirPath(path) == path \in rootDirPaths

\* The caller exits when this leaves no root to monitor.
zapRootDirPath(path) == rootDirPaths' = rootDirPaths \ {path}

-----------------------------------------------------------------------------
(* Tree walks: nftw() (external) calling traverseTree *)

NoWalk  == [todo |-> << >>, stack |-> << >>, step |-> "stat", path |-> << >>, ino |-> 0]

\* watchSubtree(path), one path after the other, then on to pc
StartWalk(paths, then) ==
    /\ walk' = [NoWalk EXCEPT !.todo = paths]
    /\ pc' = "walk" /\ ret' = then

\* This nftw() ends with -1; the caller logs that and carries on.
AbortNftw(w) == [w EXCEPT !.stack = << >>, !.step = "stat"]

\* lstat() of the next entry: the argument of a new nftw(), or any entry
\* that is left in the innermost directory being read.
WalkStat ==
    /\ pc = "walk" /\ walk.step = "stat"
    /\ IF walk.stack = << >>
       THEN /\ walk.todo # << >>
            /\ walk' = [walk EXCEPT !.todo = Tail(@), !.path = Head(walk.todo),
                                    !.step = IF Head(walk.todo) \in DOMAIN fs THEN "open" ELSE "stat"]
       ELSE LET top == walk.stack[Len(walk.stack)] IN
            IF top.names = {}
            THEN walk' = [walk EXCEPT !.stack = SubSeq(@, 1, Len(@) - 1)]
            ELSE \E n \in top.names :
                   walk' = [walk EXCEPT !.stack[Len(walk.stack)].names = @ \ {n},
                                        !.path = Append(top.path, n),
                                        !.step = IF Append(top.path, n) \in DOMAIN fs THEN "open" ELSE "stat"]
    /\ UNCHANGED <<kernel, inst, wlCache, rootDirPaths, pc, rfds, buf, firstTry, ret, checkCache, cmds>>

\* opendir(): a directory that went away since lstat() ends the whole walk.
WalkOpen ==
    /\ pc = "walk" /\ walk.step = "open"
    /\ walk' = IF walk.path \in DOMAIN fs
               THEN [walk EXCEPT !.step = "visit", !.ino = fs[walk.path]]
               ELSE AbortNftw(walk)
    /\ UNCHANGED <<kernel, inst, wlCache, rootDirPaths, pc, rfds, buf, firstTry, ret, checkCache, cmds>>

\* Mutant: a descriptor that is already cached is cached again.
traverseTree_NoLookup ==
    /\ pc = "walk" /\ walk.step = "visit"
    /\ walk' = [walk EXCEPT !.step = "list"]
    /\ IF walk.path \in DOMAIN fs
       THEN LET in == AddWatch(inst, fs[walk.path], isRootDirPath(walk.path)) IN
            /\ inst' = in
            /\ wlCache' = addWatchToCache(wlCache, in.watch[fs[walk.path]], walk.path)
       ELSE UNCHANGED <<inst, wlCache>>
    /\ UNCHANGED <<kernel, rootDirPaths, pc, rfds, buf, firstTry, ret, checkCache, cmds>>

\* The callback: watch whatever the pathname now names, and cache it unless
\* its descriptor is known.  ENOENT is ignored.
traverseTree ==
    /\ pc = "walk" /\ walk.step = "visit"
    /\ walk' = [walk EXCEPT !.step = "list"]
    /\ IF walk.path \in DOMAIN fs
       THEN LET in == AddWatch(inst, fs[walk.path], isRootDirPath(walk.path))
                wd == in.watch[fs[walk.path]] IN
            /\ inst' = in
            /\ wlCache' = IF findWatch(wlCache, wd) > 0 THEN wlCache
                          ELSE addWatchToCache(wlCache, wd, walk.path)
       ELSE UNCHANGED <<inst, wlCache>>
    /\ UNCHANGED <<kernel, rootDirPaths, pc, rfds, buf, firstTry, ret, checkCache, cmds>>

\* readdir() of the directory that was opened, wherever it is now
WalkList ==
    /\ pc = "walk" /\ walk.step = "list"
    /\ LET names == {Name(q) : q \in {x \in DOMAIN fs \ {<< >>} : fs[Parent(x)] = walk.ino}}
       IN walk' = [walk EXCEPT !.step = "stat", !.stack = Append(@, [path |-> walk.path, names |-> names])]
    /\ UNCHANGED <<kernel, inst, wlCache, rootDirPaths, pc, rfds, buf, firstTry, ret, checkCache, cmds>>

WalkDone ==
    /\ pc = "walk" /\ walk.step = "stat" /\ walk.stack = << >> /\ walk.todo = << >>
    /\ pc' = ret /\ walk' = NoWalk /\ ret' = "select"
    /\ UNCHANGED <<kernel, inst, wlCache, rootDirPaths, rfds, buf, firstTry, checkCache, cmds>>

Walk == WalkStat \/ WalkOpen \/ traverseTree \/ WalkList \/ WalkDone

\* A new instance, an empty cache, and a walk of every root not given up;
\* what was read but not processed is dropped.
reinitialize(then) ==
    /\ inst' = NewInstance
    /\ wlCache' = << >>
    /\ StartWalk(SelectSeq(Roots, LAMBDA p : p \in rootDirPaths'), then)
    /\ buf' = << >> /\ firstTry' = TRUE

\* Mutant: the slots are emptied but the watches stay.
zapSubtree_KeepsWatches(path, then, failed) ==
    /\ wlCache' = [j \in Slots |-> IF Under(path, wlCache[j].path) THEN Empty ELSE wlCache[j]]
    /\ then
    /\ UNCHANGED inst

\* The descriptors of a set of slots, in slot order
InOrder(slots) ==
    [k \in 1..Cardinality(slots) |->
        wlCache[CHOOSE j \in slots : Cardinality({i \in slots : i <= j}) = k].wd]

\* The cached pathnames at or below path, those whose watch has already gone,
\* and those before the first of these
Cached(path) == {j \in Used(wlCache) : Under(path, wlCache[j].path)}
Stale(path)  == {j \in Cached(path) : ~Watched(inst, wlCache[j].wd)}
Zapped(path) == {j \in Cached(path) : \A k \in Stale(path) : j < k}

\* inotify_rm_watch() and markCacheSlotEmpty() for every cached path at or
\* below path, in slot order, until one fails: the watch had already gone.
\* The calls are one step: only watches go away in between, as they might have
\* before the first call.
zapSubtree(path, then, failed) ==
    IF Stale(path) # {} /\ failed
    THEN reinitialize("select")
    ELSE /\ inst' = RmWatches(inst, InOrder(Zapped(path)))
         /\ wlCache' = [j \in Slots |-> IF j \in Zapped(path) THEN Empty ELSE wlCache[j]]
         /\ then

-----------------------------------------------------------------------------
(* processNextInotifyEvent *)

ev    == Head(buf)
slot  == findWatch(wlCache, ev.wd)
Known == ev.wd = -1 \/ ev.mask = "IGNORED" \/ slot > 0
Handling(masks) == pc = "event" /\ buf # << >> /\ Known /\ ev.mask \in masks

\* checkCacheConsistency (option -x) after an event: the test for a directory
\* is made for EMPTY slots, on the stat buffer of the last lstat() that worked.
\* Before there is one the buffer is uninitialized and the test may exit.
MayExitInCheck(c) ==
    checkCache /\ \E j \in 1..Len(c) : /\ c[j] = Empty
                                       /\ \A k \in Used(c) : k < j => c[k].path \notin DOMAIN fs

\* The event is done: on to the next one, or back to the main loop.
Consumed(n, c) ==
    /\ buf' = SubSeq(buf, n + 1, Len(buf))
    /\ firstTry' = TRUE
    /\ \/ pc' = IF Len(buf) <= n THEN "select" ELSE "event"
       \/ MayExitInCheck(c) /\ pc' = "exit"
    /\ UNCHANGED <<walk, ret>>

createStopFileAndAbort == pc' = "exit" /\ UNCHANGED <<inst, wlCache, walk, ret, buf, firstTry>>

\* A descriptor the cache does not know: the cache is inconsistent.
EvUnknown ==
    /\ pc = "event" /\ buf # << >> /\ ~Known
    /\ UNCHANGED <<kernel, rootDirPaths, rfds, checkCache, cmds>>
    /\ IF AbortOnCacheProblem
       THEN createStopFileAndAbort
       ELSE reinitialize("select")

EvIgnored ==
    /\ Handling({"IGNORED"})
    /\ Consumed(1, wlCache)
    /\ UNCHANGED <<kernel, inst, wlCache, rootDirPaths, rfds, checkCache, cmds>>

\* A new subdirectory is walked unless its path is already cached.
EvCreated ==
    /\ Handling({"CREATE", "MOVED_TO"})
    /\ LET fullPath == Append(wlCache[slot].path, ev.name) IN
       IF pathnameInCache(wlCache, fullPath)
       THEN Consumed(1, wlCache)
       ELSE /\ StartWalk(<<fullPath>>, "walked")
            /\ UNCHANGED <<buf, firstTry>>
    /\ UNCHANGED <<kernel, inst, wlCache, rootDirPaths, rfds, checkCache, cmds>>

EvWalked ==
    /\ pc = "walked"
    /\ Consumed(1, wlCache)
    /\ UNCHANGED <<kernel, inst, wlCache, rootDirPaths, rfds, checkCache, cmds>>

\* Without a root left to monitor the program exits at once.
EvDeleteSelf ==
    /\ Handling({"DELETE_SELF"})
    /\ zapRootDirPath(wlCache[slot].path)
    /\ IF rootDirPaths' = {}
       THEN pc' = "exit" /\ UNCHANGED <<wlCache, buf, firstTry, walk, ret>>
       ELSE /\ wlCache' = markCacheSlotEmpty(wlCache, slot)
            /\ Consumed(1, wlCache')
    /\ UNCHANGED <<kernel, inst, rfds, checkCache, cmds>>

EvUnmount ==
    /\ Handling({"UNMOUNT"})
    /\ wlCache' = markCacheSlotEmpty(wlCache, slot)
    /\ Consumed(1, wlCache')
    /\ UNCHANGED <<kernel, inst, rootDirPaths, rfds, checkCache, cmds>>

Paired == Len(buf) > 1 /\ buf[2].mask = "MOVED_TO" /\ buf[2].cookie = ev.cookie

\* An intra-tree rename: both events are consumed.
EvRenamed ==
    /\ Handling({"MOVED_FROM"}) /\ Paired
    /\ UNCHANGED <<kernel, rootDirPaths, rfds, checkCache, cmds>>
    /\ LET to == findWatch(wlCache, buf[2].wd) IN
       IF to = 0
       THEN IF AbortOnCacheProblem
            THEN createStopFileAndAbort
            ELSE reinitialize("select")
       ELSE /\ wlCache' = rewriteCachedPaths(wlCache, Append(wlCache[slot].path, ev.name),
                                                      Append(wlCache[to].path, buf[2].name))
            /\ Consumed(2, wlCache')
            /\ UNCHANGED inst

\* A rename out of the tree, or one whose other half is not the next event.
EvMovedOut ==
    /\ Handling({"MOVED_FROM"}) /\ ~Paired
    /\ UNCHANGED <<kernel, rootDirPaths, rfds, checkCache, cmds>>
    /\ Len(buf) > 1 \/ ~firstTry
    /\ zapSubtree(Append(wlCache[slot].path, ev.name), Consumed(1, wlCache'), TRUE)

\* IN_MOVED_FROM is the last event read: read once more, with a timeout.
EvHanging ==
    /\ Handling({"MOVED_FROM"}) /\ Len(buf) = 1 /\ firstTry
    /\ pc' = "secondary" /\ firstTry' = FALSE
    /\ UNCHANGED <<kernel, inst, wlCache, rootDirPaths, rfds, buf, walk, ret, checkCache, cmds>>

\* Mutant: an overflow is only counted.
EvOverflow_Ignored ==
    /\ Handling({"Q_OVERFLOW"})
    /\ Consumed(1, wlCache)
    /\ UNCHANGED <<kernel, inst, wlCache, rootDirPaths, rfds, checkCache, cmds>>

\* Mutant: the rest of the buffer is kept, the overflow event included.
EvOverflow_KeepsBuffer ==
    /\ Handling({"Q_OVERFLOW"})
    /\ inst' = NewInstance /\ wlCache' = << >>
    /\ StartWalk(SelectSeq(Roots, LAMBDA p : p \in rootDirPaths), "event")
    /\ UNCHANGED <<kernel, rootDirPaths, rfds, buf, firstTry, checkCache, cmds>>

EvOverflow ==
    /\ Handling({"Q_OVERFLOW"})
    /\ UNCHANGED <<kernel, rootDirPaths, rfds, checkCache, cmds>>
    /\ reinitialize("walked")

EvMoveSelf ==
    /\ Handling({"MOVE_SELF"})
    /\ LET path == wlCache[slot].path IN
       IF isRootDirPath(path)
       THEN /\ zapRootDirPath(path)
            /\ IF rootDirPaths' = {}
               THEN pc' = "exit" /\ UNCHANGED <<inst, wlCache, buf, firstTry, walk, ret>>
               ELSE zapSubtree(path, Consumed(1, wlCache'), TRUE)
       ELSE Consumed(1, wlCache) /\ UNCHANGED <<inst, wlCache, rootDirPaths>>
    /\ UNCHANGED <<kernel, rfds, checkCache, cmds>>

ProcessEvent ==
    \/ EvUnknown \/ EvIgnored \/ EvCreated \/ EvWalked \/ EvDeleteSelf \/ EvUnmount
    \/ EvRenamed \/ EvMovedOut \/ EvHanging \/ EvOverflow \/ EvMoveSelf

-----------------------------------------------------------------------------
(* processInotifyEvents, executeCommand and the main loop *)

Take(n) == Queued(inst, SubSeq(inst.queue, n + 1, Len(inst.queue)))

\* read() blocks while the queue is empty.
ReadEvents ==
    /\ pc = "read" /\ inst.queue # << >>
    /\ LET n == IF Len(inst.queue) < ReadBufEvents THEN Len(inst.queue) ELSE ReadBufEvents IN
       /\ buf' = SubSeq(inst.queue, 1, n)
       /\ inst' = Take(n)
    /\ pc' = "event" /\ firstTry' = TRUE
    /\ UNCHANGED <<kernel, wlCache, rootDirPaths, rfds, walk, ret, checkCache, cmds>>

\* The second read, into the rest of the full-size buffer
SecondaryRead ==
    /\ pc \in {"secondary", "late"} /\ inst.queue # << >>
    /\ buf' = buf \o inst.queue
    /\ inst' = Take(Len(inst.queue))
    /\ pc' = "event"
    /\ UNCHANGED <<kernel, wlCache, rootDirPaths, rfds, firstTry, walk, ret, checkCache, cmds>>

\* SIGALRM interrupts the read: nothing was added to the buffer.
SecondaryTimeout ==
    /\ pc = "secondary" /\ inst.queue = << >>
    /\ pc' = "event"
    /\ UNCHANGED <<kernel, inst, wlCache, rootDirPaths, rfds, buf, firstTry, walk, ret, checkCache, cmds>>

\* SIGALRM comes between ualarm() and read(): the read has no timeout.
AlarmBeforeRead ==
    /\ pc = "secondary"
    /\ pc' = "late"
    /\ UNCHANGED <<kernel, inst, wlCache, rootDirPaths, rfds, buf, firstTry, walk, ret, checkCache, cmds>>

Start ==
    /\ pc = "start"
    /\ UNCHANGED <<kernel, rootDirPaths, rfds, checkCache, cmds>>
    /\ reinitialize("select")

Select ==
    /\ pc = "select"
    /\ \E typed \in BOOLEAN :
          /\ typed => cmds < MaxCmds
          /\ typed \/ inst.queue # << >>
          /\ rfds' = {"stdin" : x \in {y \in {1} : typed}} \cup {"inotify" : x \in {y \in {1} : inst.queue # << >>}}
          /\ pc' = IF typed THEN "cmd" ELSE "isset"
    /\ UNCHANGED <<kernel, inst, wlCache, rootDirPaths, buf, firstTry, walk, ret, checkCache, cmds>>

\* FD_ISSET(inotifyFd): a rebuilt instance reuses the descriptor's number.
IsSet ==
    /\ pc = "isset"
    /\ pc' = IF "inotify" \in rfds THEN "read" ELSE "select"
    /\ rfds' = {}
    /\ UNCHANGED <<kernel, inst, wlCache, rootDirPaths, buf, firstTry, walk, ret, checkCache, cmds>>

Typed == pc = "cmd" /\ cmds' = cmds + 1 /\ UNCHANGED <<kernel, rootDirPaths, rfds>>

\* The argument of a command: a directory, or a pathname that was one
Arg == (DOMAIN fs \cup {wlCache[j].path : j \in Slots}) \ {<< >>}

\* 'a path': zap, whatever the outcome, and watch again
CmdAdd ==
    /\ Typed /\ UNCHANGED checkCache
    /\ \E p \in Arg :
          zapSubtree(p, StartWalk(<<p>>, "isset") /\ UNCHANGED <<buf, firstTry>>, FALSE)

CmdZap ==
    /\ Typed /\ UNCHANGED checkCache
    /\ \E p \in Arg :
          zapSubtree(p, pc' = "isset" /\ UNCHANGED <<buf, firstTry, walk, ret>>, FALSE)

CmdRebuild == Typed /\ reinitialize("isset") /\ UNCHANGED checkCache

Answered == pc' = "isset" /\ UNCHANGED <<inst, wlCache, buf, firstTry, walk, ret>>

CmdToggleCheck == Typed /\ Answered /\ checkCache' = ~checkCache

\* 'c', 'l', 'v', 'd', 'w', unknown commands and empty lines only print.
CmdOther == Typed /\ Answered /\ UNCHANGED checkCache

\* 'q', and end of file on standard input
CmdQuit ==
    /\ Typed /\ pc' = "exit"
    /\ UNCHANGED <<inst, wlCache, buf, firstTry, walk, ret, checkCache>>

executeCommand == CmdAdd \/ CmdZap \/ CmdRebuild \/ CmdToggleCheck \/ CmdOther \/ CmdQuit

MainLoop ==
    \/ Start \/ Select \/ IsSet \/ ReadEvents
    \/ SecondaryRead \/ SecondaryTimeout \/ AlarmBeforeRead

Monitor == MainLoop \/ executeCommand \/ ProcessEvent \/ Walk

Init ==
    /\ LET ino == CHOOSE f \in Bijection(InitDirs, 1..Cardinality(InitDirs)) : TRUE IN
       fs = [p \in {<< >>} \cup InitDirs |-> IF p = << >> THEN 0 ELSE ino[p]]
    /\ ops = 0 /\ pend = [m \in Mutators |-> << >>]
    /\ inst = NewInstance
    /\ wlCache = << >> /\ rootDirPaths = Range(Roots)
    /\ pc = "start" /\ rfds = {} /\ buf = << >> /\ firstTry = TRUE
    /\ walk = NoWalk /\ ret = "select" /\ checkCache = CheckCache /\ cmds = 0

Next == (\E m \in Mutators : Mutator(m)) \/ Monitor

\* The monitor and the kernel keep running; nobody has to change anything.
Fairness == WF_vars(Monitor) /\ \A m \in Mutators : WF_vars(EmitEvent(m))

Spec == Init /\ [][Next]_vars /\ Fairness

-----------------------------------------------------------------------------
(* Properties *)

Pcs == {"start", "select", "cmd", "isset", "read", "event", "walk", "walked",
        "secondary", "late", "exit"}
Masks == {"CREATE", "MOVED_FROM", "MOVED_TO", "DELETE_SELF", "MOVE_SELF", "IGNORED",
          "Q_OVERFLOW", "UNMOUNT"}

\* The cache holds slots, the queue and the buffer hold events, and only a
\* monitored root pathname is listed.
TypeOK ==
    /\ DOMAIN fs \subseteq Seq(Names)
    /\ pc \in Pcs /\ ret \in {"select", "walked", "isset"}
    /\ \A j \in Slots : wlCache[j] = Empty \/ (wlCache[j].wd > 0 /\ wlCache[j].path \in Seq(Names))
    /\ \A e \in Range(buf) \cup Range(inst.queue) : e.mask \in Masks
    /\ Len(inst.queue) <= MaxQueue + 1
    /\ rootDirPaths \subseteq Range(Roots)
    /\ {firstTry, checkCache} \subseteq BOOLEAN

CachedWds == {wlCache[j].wd : j \in Used(wlCache)}
Unread    == Range(buf) \cup Range(inst.queue)

\* traverseTree adds a slot only for a descriptor that has none
\* (inotify_dtree.c:527): findWatch never has two slots to choose from.
UniqueWds == \A i, j \in Used(wlCache) : wlCache[i].wd = wlCache[j].wd => i = j

\* Every watch the kernel holds for the monitor has a slot, and every slot has
\* a watch, or an unread event that will clear it: neither the zapping of
\* subtrees, nor the events that remove watches by themselves, nor a lost
\* event leaves a watch without a slot or a slot without a watch.
WatchesMatchSlots ==
    /\ \A i \in DOMAIN inst.watch : inst.watch[i] \in CachedWds
    /\ pc # "exit" =>
         \A wd \in CachedWds :
            \/ Watched(inst, wd)
            \/ \E e \in Unread : e.wd = wd /\ e.mask \in {"DELETE_SELF", "UNMOUNT"}
            \/ Overflow \in Unread

Quiet == /\ pc = "select" /\ inst.queue = << >>
         /\ \A m \in Mutators : pend[m] = << >>

Tree == {p \in DOMAIN fs : \E r \in rootDirPaths : Under(r, p)}

\* "... an internal representation of the directory trees that remains
\* consistent with the filesystem" (inotify_dtree.c:24-25): when every event
\* has been read and handled, the cache lists exactly the directories below
\* the monitored roots, each with the watch of that directory.
Consistent ==
    Quiet => /\ {wlCache[j].path : j \in Used(wlCache)} = Tree
             /\ \A j \in Used(wlCache) : wlCache[j].path \in DOMAIN fs =>
                   /\ fs[wlCache[j].path] \in DOMAIN inst.watch
                   /\ inst.watch[fs[wlCache[j].path]] = wlCache[j].wd

\* Cache rebuilds do not feed themselves: once the filesystem stops changing
\* the monitor comes to rest, unless the alarm of the second read was lost.
Settles == <>[](Quiet \/ pc \in {"exit", "late"})

\* The check of option -x, "Check that all pathnames in the cache are valid, and
\* refer to directories" (line 198), ends the program only for a pathname that
\* is not a directory; here all of them are, so the program ends only when it
\* has no root left, is told to, or aborts over its cache (option -a).
CheckNeverExits == pc = "exit" => rootDirPaths = {} \/ cmds > 0 \/ AbortOnCacheProblem

\* "Loop to handle inotify events and keyboard commands" (line 1392): the
\* monitor never stays away from select() for good.
BackToSelect == []<>(pc \in {"select", "exit"})
=============================================================================

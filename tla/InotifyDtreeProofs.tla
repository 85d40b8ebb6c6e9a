------------------------- MODULE InotifyDtreeProofs -------------------------
(***************************************************************************)
(* Proofs about InotifyDtree, for any directories, mutators, sizes of the  *)
(* cache, the kernel's queue and the read buffer, and any options.         *)
(*                                                                         *)
(* A watch and its slot are made in one callback and cleared together by   *)
(* zapSubtree.  The kernel removes watches by itself, but each time leaves *)
(* an event for the descriptor, which it never uses again, or one for the  *)
(* overflow; such an event is dropped from the buffer only by the handler  *)
(* that clears the slot or starts afresh.  For the last of these the       *)
(* invariant says what is in the buffer at every point of the main loop.   *)
(***************************************************************************)
EXTENDS InotifyDtreeLemmas

\* Events an operation has yet to generate
PendOK(s) == s \in Seq({r \in Range(s) : RawOK(r)})

\* The directories, and the events still to be generated
KernelOK ==
    /\ DOMAIN fs \subseteq Seq(Names) /\ IsFiniteSet(DOMAIN fs) /\ ops \in Nat
    /\ DOMAIN pend = Mutators /\ \A m \in Mutators : PendOK(pend[m])

\* What is in the buffer, and what the event at its head is
BufferOK ==
    /\ buf \in Seq(Events)
    /\ pc \in {"start", "select", "cmd", "isset", "read"} => buf = << >>
    /\ pc = "walk" /\ ret \in {"select", "isset"} => buf = << >>
    /\ pc = "walked" \/ (pc = "walk" /\ ret = "walked") =>
         buf = << >> \/ buf[1].mask \in {"CREATE", "MOVED_TO"}

\* Where the monitor is, and what its options are
ControlOK ==
    /\ pc \in Pcs /\ ret \in {"select", "walked", "isset"}
    /\ rootDirPaths \subseteq Range(Roots) /\ {firstTry, checkCache} \subseteq BOOLEAN

\* The inductive invariant
IInv == KernelOK /\ ControlOK /\ BufferOK /\ Agree(inst, wlCache, Unread)

-----------------------------------------------------------------------------
(* The mutators *)

\* Pending events are those of any set of proper ones.
LEMMA Pending ==
    ASSUME NEW T, \A r \in T : RawOK(r), NEW s \in Seq(T)
    PROVE  PendOK(s)
<1> DEFINE R == {r \in Range(s) : RawOK(r)}
<1>1. Len(s) \in Nat /\ s \in [1..Len(s) -> T] /\ DOMAIN s = 1..Len(s)
  BY LenProperties, Zenon
<1>2. \A i \in 1..Len(s) : s[i] \in R
  BY <1>1, Zenon DEF Range
<1> HIDE DEF R
<1>3. s \in [1..Len(s) -> R]
  BY <1>1, <1>2, Zenon
<1>4. s \in Seq(R)
  BY <1>1, <1>3, SeqDef
<1> QED
  BY <1>4, Zenon DEF PendOK, R

\* An operation of mutator m, and the events it has yet to generate
LEMMA Operated ==
    ASSUME IInv, NEW m \in Mutators, ops' = ops + 1, UNCHANGED <<inst, monitor>>,
           DOMAIN fs' \subseteq Seq(Names), IsFiniteSet(DOMAIN fs'),
           NEW s, PendOK(s), pend' = [pend EXCEPT ![m] = s]
    PROVE  IInv'
<1>1. KernelOK'
  <2>1. ops' \in Nat /\ DOMAIN pend' = Mutators
    BY DEF IInv, KernelOK
  <2>2. \A k \in Mutators : pend'[k] = IF k = m THEN s ELSE pend[k]
    BY Zenon DEF IInv, KernelOK
  <2>3. \A k \in Mutators : PendOK(pend[k])
    BY Zenon DEF IInv, KernelOK
  <2>4. \A k \in Mutators : PendOK(pend'[k])
    BY <2>2, <2>3, Zenon
  <2> QED
    BY <2>1, <2>4, Zenon DEF KernelOK
<1>2. ControlOK'
  BY Zenon DEF IInv, ControlOK, monitor
<1>3. BufferOK'
  BY Zenon DEF IInv, BufferOK, monitor
<1>4. Agree(inst, wlCache, Unread)'
  <2>1. Unread' = Unread /\ inst' = inst /\ wlCache' = wlCache
    BY Zenon DEF Unread, monitor
  <2>2. Agree(inst, wlCache, Unread)
    BY Zenon DEF IInv
  <2> QED
    BY <2>1, <2>2, Zenon
<1> QED
  BY <1>1, <1>2, <1>3, <1>4, Zenon DEF IInv

\* mkdir: one event for the parent
LEMMA MkdirOK ==
    ASSUME IInv, NEW m \in Mutators, Mkdir(m)
    PROVE  IInv'
<1>1. ops' = ops + 1 /\ UNCHANGED <<inst, monitor>>
  BY Zenon DEF Mkdir, MayMutate
<1>2. PICK p \in DOMAIN fs, n \in Names :
         /\ fs' = [x \in DOMAIN fs \cup {Append(p, n)} |->
                      IF x = Append(p, n) THEN ops + 1 + Cardinality(InitDirs) ELSE fs[x]]
         /\ pend' = [pend EXCEPT ![m] = <<Raw(fs[p], "CREATE", n, 0)>>]
  BY Zenon DEF Mkdir
<1> DEFINE q == Append(p, n)
           r == Raw(fs[p], "CREATE", n, 0)
<1>3. DOMAIN fs \subseteq Seq(Names) /\ IsFiniteSet(DOMAIN fs)
  BY Zenon DEF IInv, KernelOK
<1>4. q \in Seq(Names)
  BY <1>3, AppendProperties, Zenon
<1>5. RawOK(r)
  BY Zenon DEF RawOK, Raw, Masks
<1> HIDE DEF q, r
<1>6. DOMAIN fs' = DOMAIN fs \cup {q}
  BY <1>2, Zenon DEF q
<1>7. DOMAIN fs' \subseteq Seq(Names) /\ IsFiniteSet(DOMAIN fs')
  BY <1>3, <1>4, <1>6, FS_AddElement, Zenon
<1>8. <<r>> \in Seq({r})
  OBVIOUS
<1>9. PendOK(<<r>>)
  BY <1>5, <1>8, Pending, Zenon
<1>10. pend' = [pend EXCEPT ![m] = <<r>>]
  BY <1>2, Zenon DEF r
<1> QED
  BY <1>1, <1>7, <1>9, <1>10, Operated, Zenon

\* rmdir: the directory goes, and its watch will end
LEMMA RmdirOK ==
    ASSUME IInv, NEW m \in Mutators, Rmdir(m)
    PROVE  IInv'
<1>1. ops' = ops + 1 /\ UNCHANGED <<inst, monitor>>
  BY Zenon DEF Rmdir, MayMutate
<1>2. PICK p \in Movable : /\ fs' = Restrict(fs, DOMAIN fs \ {p})
                           /\ pend' = [pend EXCEPT ![m] = <<Raw(fs[p], "DELETE_SELF", NoName, 0)>>]
  BY Zenon DEF Rmdir
<1> DEFINE r == Raw(fs[p], "DELETE_SELF", NoName, 0)
<1>3. DOMAIN fs \subseteq Seq(Names) /\ IsFiniteSet(DOMAIN fs)
  BY Zenon DEF IInv, KernelOK
<1>4. RawOK(r)
  BY Zenon DEF RawOK, Raw, Masks, Naming
<1> HIDE DEF r
<1>5. DOMAIN fs' = DOMAIN fs \ {p}
  BY <1>2, Zenon DEF Restrict
<1>6. DOMAIN fs' \subseteq Seq(Names) /\ IsFiniteSet(DOMAIN fs')
  BY <1>3, <1>5, FS_RemoveElement, Zenon
<1>7. <<r>> \in Seq({r})
  OBVIOUS
<1>8. PendOK(<<r>>)
  BY <1>4, <1>7, Pending, Zenon
<1>9. pend' = [pend EXCEPT ![m] = <<r>>]
  BY <1>2, Zenon DEF r
<1> QED
  BY <1>1, <1>6, <1>8, <1>9, Operated, ZenonT(30)

\* A path under one directory becomes one under another.
LEMMA RebaseOK ==
    ASSUME NEW x \in Seq(Names), NEW old \in Seq(Names), NEW new \in Seq(Names)
    PROVE  Rebase(x, old, new) \in Seq(Names)
<1> DEFINE l == Len(old)
           rest == SubSeq(x, l + 1, Len(x))
<1>1. l \in Nat
  BY LenProperties, Zenon
<1> HIDE DEF l
<1>2. rest \in Seq(Names)
  BY <1>1, Rest, Zenon
<1>3. Rebase(x, old, new) = new \o rest
  BY Zenon DEF Rebase, l
<1> HIDE DEF rest
<1> QED
  BY <1>2, <1>3, ConcatProperties, Zenon

\* rename: the whole subtree moves, and its watches stay
LEMMA RenameOK ==
    ASSUME IInv, NEW m \in Mutators, Rename(m)
    PROVE  IInv'
<1>1. ops' = ops + 1 /\ UNCHANGED <<inst, monitor>>
  BY Zenon DEF Rename, MayMutate
<1>2. PICK p \in Movable, d \in DOMAIN fs, n \in Names :
         LET q == Append(d, n)
             moved == {x \in DOMAIN fs : Under(p, x)} IN
         /\ fs' = [x \in (DOMAIN fs \ moved) \cup {Rebase(y, p, q) : y \in moved} |->
                      IF Under(q, x) THEN fs[Rebase(x, q, p)] ELSE fs[x]]
         /\ pend' = [pend EXCEPT ![m] = <<Raw(fs[Parent(p)], "MOVED_FROM", Name(p), ops + 1),
                                           Raw(fs[d], "MOVED_TO", n, ops + 1),
                                           Raw(fs[p], "MOVE_SELF", NoName, 0)>>]
  BY ZenonT(30) DEF Rename
<1> DEFINE q == Append(d, n)
           moved == {x \in DOMAIN fs : Under(p, x)}
           after == {Rebase(y, p, q) : y \in moved}
           r1 == Raw(fs[Parent(p)], "MOVED_FROM", Name(p), ops + 1)
           r2 == Raw(fs[d], "MOVED_TO", n, ops + 1)
           r3 == Raw(fs[p], "MOVE_SELF", NoName, 0)
<1>3. DOMAIN fs \subseteq Seq(Names) /\ IsFiniteSet(DOMAIN fs) /\ ops \in Nat
  BY Zenon DEF IInv, KernelOK
<1>4. q \in Seq(Names)
  BY <1>3, AppendProperties, Zenon
<1>5. p \in Seq(Names) /\ Name(p) \in Names
  <2>1. p \in Seq(Names) /\ p # << >>
    BY <1>3, Zenon DEF Movable
  <2>2. Len(p) \in 1..Len(p)
    BY <2>1, EmptySeq, LenProperties
  <2> QED
    BY <2>1, <2>2, ElementOfSeq, Zenon DEF Name
<1>6. RawOK(r1)
  BY <1>3, <1>5 DEF RawOK, Raw, Masks
<1>7. RawOK(r2)
  BY <1>3 DEF RawOK, Raw, Masks
<1>8. RawOK(r3)
  BY Zenon DEF RawOK, Raw, Masks, Naming
<1>9. DOMAIN fs' = (DOMAIN fs \ moved) \cup after
  BY <1>2, Zenon
<1>10. pend' = [pend EXCEPT ![m] = <<r1, r2, r3>>]
  BY <1>2, Zenon
<1>11. moved \in SUBSET DOMAIN fs
  BY Zenon
<1> HIDE DEF q, r1, r2, r3, moved
<1>12. after \subseteq Seq(Names)
  <2>1. \A y \in moved : Rebase(y, p, q) \in Seq(Names)
    BY <1>3, <1>4, <1>5, <1>11, RebaseOK, Zenon
  <2> QED
    BY <2>1, Zenon
<1>13. IsFiniteSet(after)
  <2> DEFINE f == [y \in moved |-> Rebase(y, p, q)]
  <2>1. f \in Surjection(moved, after)
    BY Zenon DEF Surjection
  <2>2. IsFiniteSet(moved)
    BY <1>3, <1>11, FS_Subset, Zenon
  <2> HIDE DEF f, after
  <2> QED
    BY <2>1, <2>2, FS_Surjection, Zenon
<1> HIDE DEF after
<1>14. DOMAIN fs' \subseteq Seq(Names) /\ IsFiniteSet(DOMAIN fs')
  <2>1. DOMAIN fs \ moved \in SUBSET DOMAIN fs
    BY Zenon
  <2>2. IsFiniteSet(DOMAIN fs \ moved)
    BY <1>3, <2>1, FS_Subset, Zenon
  <2>3. IsFiniteSet((DOMAIN fs \ moved) \cup after)
    BY <1>13, <2>2, FS_Union, Zenon
  <2> QED
    BY <1>3, <1>9, <1>12, <2>3, Zenon
<1>15. <<r1, r2, r3>> \in Seq({r1, r2, r3})
  OBVIOUS
<1>16. PendOK(<<r1, r2, r3>>)
  <2> DEFINE s == <<r1, r2, r3>>
             T == {r1, r2, r3}
  <2>1. s \in Seq(T) /\ \A r \in T : RawOK(r)
    BY <1>6, <1>7, <1>8, <1>15, Zenon
  <2> HIDE DEF s, T
  <2>2. PendOK(s)
    BY <2>1, Pending, Zenon
  <2> QED
    BY <2>2, Zenon DEF s
<1> DEFINE s == <<r1, r2, r3>>
<1>17. PendOK(s) /\ pend' = [pend EXCEPT ![m] = s]
  BY <1>10, <1>16, Zenon
<1> HIDE DEF s
<1> QED
  BY <1>1, <1>14, <1>17, Operated, Zenon

\* umount: the directories of the subtree end in some order
LEMMA UnmountOK ==
    ASSUME IInv, NEW m \in Mutators, Unmount(m)
    PROVE  IInv'
<1>1. ops' = ops + 1 /\ UNCHANGED <<inst, monitor>>
  BY Zenon DEF Unmount, MayMutate
<1>2. PICK p \in Range(Roots) \cap DOMAIN fs :
         LET gone   == {x \in DOMAIN fs : Under(p, x)}
             events == {Raw(fs[x], "UNMOUNT", NoName, 0) : x \in gone} IN
         /\ fs' = [x \in (DOMAIN fs \ gone) \cup {p} |-> IF x = p THEN ops + 1 + Cardinality(InitDirs) ELSE fs[x]]
         /\ \E order \in Bijection(1..Cardinality(events), events) :
               pend' = [pend EXCEPT ![m] = order]
  BY Zenon DEF Unmount
<1> DEFINE gone   == {x \in DOMAIN fs : Under(p, x)}
           events == {Raw(fs[x], "UNMOUNT", NoName, 0) : x \in gone}
<1>3. PICK order \in Bijection(1..Cardinality(events), events) : pend' = [pend EXCEPT ![m] = order]
  BY <1>2, Zenon
<1>4. DOMAIN fs' = (DOMAIN fs \ gone) \cup {p}
  BY <1>2, Zenon
<1>5. DOMAIN fs \subseteq Seq(Names) /\ IsFiniteSet(DOMAIN fs)
  BY Zenon DEF IInv, KernelOK
<1>6. gone \in SUBSET DOMAIN fs
  BY Zenon
<1> HIDE DEF gone
<1>7. DOMAIN fs' \subseteq Seq(Names) /\ IsFiniteSet(DOMAIN fs')
  <2>1. DOMAIN fs \ gone \in SUBSET DOMAIN fs
    BY Zenon
  <2>2. IsFiniteSet(DOMAIN fs \ gone)
    BY <1>5, <2>1, FS_Subset, Zenon
  <2>3. IsFiniteSet((DOMAIN fs \ gone) \cup {p})
    BY <2>2, FS_AddElement, Zenon
  <2> QED
    BY <1>4, <1>5, <2>3, Zenon
<1>8. \A r \in events : RawOK(r)
  BY DEF RawOK, Raw, Masks, Naming
<1>9. Cardinality(events) \in Nat
  <2> DEFINE f == [x \in gone |-> Raw(fs[x], "UNMOUNT", NoName, 0)]
  <2>1. f \in Surjection(gone, events)
    BY Zenon DEF Surjection
  <2>2. IsFiniteSet(gone)
    BY <1>5, <1>6, FS_Subset, Zenon
  <2> HIDE DEF f, events
  <2>3. IsFiniteSet(events)
    BY <2>1, <2>2, FS_Surjection, Zenon
  <2> QED
    BY <2>3, FS_CardinalityType, Zenon
<1> HIDE DEF events
<1>10. order \in Seq(events)
  <2>1. order \in [1..Cardinality(events) -> events]
    BY <1>3, Zenon DEF Bijection, Injection
  <2> QED
    BY <1>9, <2>1, SeqDef, Zenon
<1>11. PendOK(order)
  BY <1>8, <1>10, Pending, Zenon
<1> QED
  BY <1>1, <1>3, <1>7, <1>11, Operated, Zenon

\* The kernel hands the next event of an operation to the watches.
LEMMA EmitEventOK ==
    ASSUME IInv, NEW m \in Mutators, EmitEvent(m)
    PROVE  IInv'
<1> DEFINE s == pend[m]
           S == {r \in Range(s) : RawOK(r)}
           r == Head(s)
           B == Range(buf)
<1>1. /\ s # << >> /\ inst' = Deliver(inst, r) /\ pend' = [pend EXCEPT ![m] = Tail(s)]
      /\ UNCHANGED <<fs, ops, monitor>>
  BY Zenon DEF EmitEvent
<1>2. s \in Seq(S)
  BY Zenon DEF IInv, KernelOK, PendOK
<1> HIDE DEF S
<1>3. r \in S /\ Tail(s) \in Seq(S)
  BY <1>1, <1>2, HeadTailProperties, Zenon
<1>4. \A x \in S : RawOK(x)
  BY Zenon DEF S
<1>5. PendOK(Tail(s))
  BY <1>3, <1>4, Pending, Zenon
<1>6. KernelOK'
  <2>1. ops' \in Nat /\ DOMAIN pend' = Mutators /\ DOMAIN fs' \subseteq Seq(Names) /\ IsFiniteSet(DOMAIN fs')
    BY <1>1, Zenon DEF IInv, KernelOK
  <2>2. \A k \in Mutators : pend'[k] = IF k = m THEN Tail(s) ELSE pend[k]
    BY <1>1, Zenon DEF IInv, KernelOK
  <2>3. \A k \in Mutators : PendOK(pend[k])
    BY Zenon DEF IInv, KernelOK
  <2>4. \A k \in Mutators : PendOK(pend'[k])
    BY <1>5, <2>2, <2>3, Zenon
  <2> QED
    BY <2>1, <2>4, Zenon DEF KernelOK
<1>7. ControlOK'
  BY <1>1, Zenon DEF IInv, ControlOK, monitor
<1>8. BufferOK'
  BY <1>1, Zenon DEF IInv, BufferOK, monitor
<1>9. RawOK(r)
  BY <1>3, <1>4, Zenon
<1> HIDE DEF r, s
<1>10. Agree(inst, wlCache, Unread)'
  <2>1. Agree(inst, wlCache, B \cup Range(inst.queue))
    BY Zenon DEF IInv, Unread
  <2>2. Agree(Deliver(inst, r), wlCache, B \cup Range(Deliver(inst, r).queue))
    BY <1>9, <2>1, AgreeDelivered, Zenon
  <2>3. inst' = Deliver(inst, r) /\ wlCache' = wlCache /\ Unread' = B \cup Range(inst'.queue)
    BY <1>1, Zenon DEF monitor, Unread
  <2>4. Agree(inst', wlCache', Unread')
    BY <2>2, <2>3, Zenon
  <2> QED
    BY <2>4, Zenon
<1> QED
  BY <1>6, <1>7, <1>8, <1>10, Zenon DEF IInv

-----------------------------------------------------------------------------
(* The monitor *)

\* A step of the monitor leaves the kernel's state alone, apart from the instance.
LEMMA Monitored ==
    ASSUME IInv, UNCHANGED kernel, ControlOK', BufferOK', Agree(inst', wlCache', Unread')
    PROVE  IInv'
<1>1. KernelOK'
  BY Zenon DEF IInv, KernelOK, kernel
<1>2. Agree(inst, wlCache, Unread)'
  BY Zenon
<1> QED
  BY <1>1, <1>2, Zenon DEF IInv

\* A step that leaves the instance, the cache and the buffer alone
LEMMA Elsewhere ==
    ASSUME IInv, UNCHANGED kernel, UNCHANGED <<inst, wlCache, buf>>, ControlOK', BufferOK'
    PROVE  IInv'
<1>1. inst' = inst /\ wlCache' = wlCache /\ Unread' = Unread
  BY Zenon DEF Unread
<1>2. Agree(inst, wlCache, Unread)
  BY Zenon DEF IInv
<1>3. Agree(inst', wlCache', Unread')
  BY <1>1, <1>2, Zenon
<1> QED
  BY <1>3, Monitored, Zenon

\* reinitialize starts with a new instance, no slots and nothing to read.
LEMMA ReinitializeOK ==
    ASSUME IInv, NEW then \in {"select", "walked", "isset"}, reinitialize(then),
           UNCHANGED kernel, rootDirPaths' \subseteq rootDirPaths, checkCache' = checkCache
    PROVE  IInv'
<1>1. inst' = NewInstance /\ wlCache' = << >> /\ buf' = << >> /\ firstTry' = TRUE /\ pc' = "walk" /\ ret' = then
  BY Zenon DEF reinitialize, StartWalk
<1>2. ControlOK'
  BY <1>1, Zenon DEF IInv, ControlOK, Pcs
<1>3. BufferOK'
  <2>1. << >> \in Seq(Events)
    BY EmptySeq, Zenon
  <2> QED
    BY <1>1, <2>1, Zenon DEF BufferOK
<1>4. Agree(inst', wlCache', Unread')
  <2>1. Unread' = Range(<< >>) \cup Range(NewInstance.queue)
    BY <1>1, Zenon DEF Unread
  <2> QED
    BY <1>1, <2>1, AgreeFresh, Zenon
<1> QED
  BY <1>2, <1>3, <1>4, Monitored, Zenon

\* The buffer's first event
LEMMA HeadOfBuffer ==
    ASSUME IInv, buf # << >>
    PROVE  /\ ev = buf[1] /\ ev \in Events /\ ev \in Unread /\ buf \in Seq(Events)
           /\ Len(buf) \in Nat /\ 1 \in 1..Len(buf)
<1>1. buf \in Seq(Events)
  BY Zenon DEF IInv, BufferOK
<1>2. Len(buf) \in Nat /\ 1 \in 1..Len(buf)
  BY <1>1, EmptySeq, LenProperties
<1>3. ev = buf[1]
  BY DEF ev
<1>4. buf[1] \in Events /\ buf[1] \in Range(buf)
  BY <1>1, <1>2, Elements, ElementOfSeq, ZenonT(30)
<1> QED
  BY <1>1, <1>2, <1>3, <1>4, ZenonT(30) DEF Unread

\* All events but the overflow have a descriptor.
LEMMA EventFacts ==
    ASSUME NEW e \in Events, e.mask # "Q_OVERFLOW"
    PROVE  e.wd \in Nat \ {0} /\ e # Overflow /\ (e.mask \in Naming => e.name \in Names)
  BY OverflowOK DEF Events

\* n events are done with, and nothing is owed because of them any more.
LEMMA ConsumedOK ==
    ASSUME IInv, NEW n \in Nat, NEW c, Consumed(n, c), UNCHANGED kernel,
           rootDirPaths' \subseteq rootDirPaths, checkCache' = checkCache,
           Agree(inst', wlCache', Range(buf) \cup Range(inst'.queue)),
           \A i \in 1..Len(buf) : i <= n =>
              buf[i] # Overflow /\ (buf[i].mask \in Ending => buf[i].wd \notin WdsOf(wlCache'))
    PROVE  IInv'
<1> DEFINE rest == SubSeq(buf, n + 1, Len(buf))
           U    == Range(buf) \cup Range(inst'.queue)
           U2   == Range(rest) \cup Range(inst'.queue)
<1>1. /\ buf' = rest /\ firstTry' = TRUE /\ ret' = ret
      /\ pc' = (IF Len(buf) <= n THEN "select" ELSE "event") \/ pc' = "exit"
  BY Zenon DEF Consumed
<1>2. buf \in Seq(Events) /\ Len(buf) \in Nat
  BY LenProperties, Zenon DEF IInv, BufferOK
<1>3. /\ rest \in Seq(Events) /\ Range(rest) \subseteq Range(buf)
      /\ Len(rest) = IF n < Len(buf) THEN Len(buf) - n ELSE 0
      /\ \A x \in Range(buf) : x \in Range(rest) \/ \E i \in 1..Len(buf) : i <= n /\ buf[i] = x
  BY <1>2, Rest, SMTT(30)
<1> HIDE DEF rest
<1>4. ControlOK'
  BY <1>1, Zenon DEF IInv, ControlOK, Pcs
<1>5. BufferOK'
  <2>1. pc' = "select" => rest = << >>
    <3>1. SUFFICES ASSUME pc' = "select" PROVE rest = << >>
      BY Zenon
    <3>2. Len(rest) = 0
      BY <1>1, <1>2, <1>3, <3>1, SMTT(30)
    <3> QED
      BY <1>3, <3>2, EmptySeq, Zenon
  <2>2. pc' \in {"select", "event", "exit"}
    BY <1>1, Zenon
  <2> QED
    BY <1>1, <1>3, <2>1, <2>2, Zenon DEF BufferOK
<1>6. Agree(inst', wlCache', U2)
  <2>1. U2 \in SUBSET U
    BY <1>3, Zenon
  <2>2. \A e \in U \ U2 : e # Overflow /\ (e.mask \in Ending => e.wd \notin WdsOf(wlCache'))
    BY <1>3, Zenon
  <2>3. QueueOK(inst'.queue)
    BY Zenon DEF Agree, InstOK
  <2>4. Agree(inst', wlCache', U)
    BY Zenon
  <2> HIDE DEF U, U2
  <2> QED
    BY <2>1, <2>2, <2>3, <2>4, AgreeDropped, ZenonT(30)
<1>7. Unread' = U2
  BY <1>1, Zenon DEF Unread
<1>8. Agree(inst', wlCache', Unread')
  BY <1>6, <1>7, Zenon
<1> QED
  BY <1>4, <1>5, <1>8, Monitored, ZenonT(30)

\* The case of one event that does not end a watch, with nothing else done
LEMMA SkippedOK ==
    ASSUME IInv, NEW c, Consumed(1, c), UNCHANGED kernel, UNCHANGED <<inst, wlCache, rootDirPaths, checkCache>>,
           buf # << >> => buf[1].mask \notin Ending /\ buf[1].mask # "Q_OVERFLOW"
    PROVE  IInv'
<1>1. Len(buf) \in Nat /\ buf \in Seq(Events)
  BY LenProperties, Zenon DEF IInv, BufferOK
<1>2. ASSUME NEW i \in 1..Len(buf), i <= 1
      PROVE  buf[i] # Overflow /\ (buf[i].mask \in Ending => buf[i].wd \notin WdsOf(wlCache'))
  <2>1. i = 1 /\ buf # << >>
    BY <1>1, <1>2
  <2> QED
    BY <2>1, OverflowOK, Zenon
<1>3. Agree(inst', wlCache', Range(buf) \cup Range(inst'.queue))
  <2>1. Agree(inst, wlCache, Range(buf) \cup Range(inst.queue))
    BY Zenon DEF IInv, Unread
  <2> QED
    BY <2>1, Zenon
<1> QED
  BY <1>2, <1>3, ConsumedOK, ZenonT(30)

\* The removal of slots and watches in zapSubtree
LEMMA ZappedOK ==
    ASSUME IInv, NEW path, inst' = RmWatches(inst, InOrder(Zapped(path))),
           wlCache' = [j \in Slots |-> IF j \in Zapped(path) THEN Empty ELSE wlCache[j]]
    PROVE  Agree(inst', wlCache', Range(buf) \cup Range(inst'.queue))
<1> DEFINE Z == Zapped(path)
           B == Range(buf)
<1>1. Z \in SUBSET Used(wlCache)
  BY Zenon DEF Zapped, Cached
<1> HIDE DEF Z, B
<1>2. Agree(inst, wlCache, B \cup Range(inst.queue))
  BY Zenon DEF IInv, Unread, B
<1>3. inst' = RmWatches(inst, InOrder(Z)) /\ wlCache' = [j \in Slots |-> IF j \in Z THEN Empty ELSE wlCache[j]]
  BY Zenon DEF Z
<1>4. LET in2 == RmWatches(inst, InOrder(Z))
          c2  == [j \in Slots |-> IF j \in Z THEN Empty ELSE wlCache[j]] IN
      Agree(in2, c2, B \cup Range(in2.queue))
  BY <1>1, <1>2, AgreeZapped, Zenon
<1> QED
  BY <1>3, <1>4, Zenon DEF B

\* The walk, and the other steps that only move the monitor
LEMMA WalkOK ==
    ASSUME IInv, WalkStat \/ WalkOpen \/ WalkList
    PROVE  IInv'
<1>1. /\ UNCHANGED kernel /\ UNCHANGED <<inst, wlCache, buf>>
      /\ UNCHANGED <<rootDirPaths, pc, firstTry, ret, checkCache>>
  BY Zenon DEF WalkStat, WalkOpen, WalkList
<1>2. ControlOK'
  BY <1>1, Zenon DEF IInv, ControlOK
<1>3. BufferOK'
  BY <1>1, Zenon DEF IInv, BufferOK
<1> QED
  BY <1>1, <1>2, <1>3, Elsewhere, Zenon

\* traverseTree makes the watch and its slot in one callback.
LEMMA traverseTreeOK ==
    ASSUME IInv, traverseTree
    PROVE  IInv'
<1>1. /\ UNCHANGED kernel /\ buf' = buf
      /\ UNCHANGED <<rootDirPaths, pc, firstTry, ret, checkCache>>
  BY Zenon DEF traverseTree
<1>2. ControlOK'
  BY <1>1, Zenon DEF IInv, ControlOK
<1>3. BufferOK'
  BY <1>1, Zenon DEF IInv, BufferOK
<1>4. CASE walk.path \in DOMAIN fs
  <2> DEFINE p  == walk.path
             i  == fs[p]
             rt == isRootDirPath(p)
             in == AddWatch(inst, i, rt)
             wd == in.watch[i]
             c  == IF findWatch(wlCache, wd) > 0 THEN wlCache ELSE addWatchToCache(wlCache, wd, p)
             U  == Unread
  <2>1. inst' = in /\ wlCache' = c
    BY <1>4, Zenon DEF traverseTree
  <2>2. p \in Seq(Names)
    BY <1>4, Zenon DEF IInv, KernelOK
  <2>3. Agree(inst, wlCache, U)
    BY Zenon DEF IInv
  <2> HIDE DEF p, i, rt, U
  <2>4. Agree(in, c, U) /\ in.queue = inst.queue
    BY <2>2, <2>3, AgreeVisited, ZenonT(30)
  <2> HIDE DEF in, c
  <2>5. Unread' = U
    BY <1>1, <2>1, <2>4, ZenonT(30) DEF Unread, U
  <2>6. Agree(inst', wlCache', Unread')
    BY <2>1, <2>4, <2>5, Zenon
  <2> QED
    BY <1>1, <1>2, <1>3, <2>6, Monitored, ZenonT(30)
<1>5. CASE walk.path \notin DOMAIN fs
  <2>1. UNCHANGED <<inst, wlCache, buf>>
    BY <1>1, <1>5, Zenon DEF traverseTree
  <2> QED
    BY <1>1, <1>2, <1>3, <2>1, Elsewhere, ZenonT(30)
<1> QED
  BY <1>4, <1>5, Zenon

\* The walk returns to whoever started it.
LEMMA WalkDoneOK ==
    ASSUME IInv, WalkDone
    PROVE  IInv'
<1>1. /\ UNCHANGED kernel /\ UNCHANGED <<inst, wlCache, buf>> /\ UNCHANGED <<rootDirPaths, firstTry, checkCache>>
      /\ pc = "walk" /\ pc' = ret /\ ret' = "select"
  BY Zenon DEF WalkDone
<1>2. ControlOK'
  BY <1>1, Zenon DEF IInv, ControlOK, Pcs
<1>3. BufferOK'
  <2>1. BufferOK /\ ret \in {"select", "walked", "isset"}
    BY Zenon DEF IInv, ControlOK
  <2> QED
    BY <1>1, <2>1, Zenon DEF BufferOK
<1> QED
  BY <1>1, <1>2, <1>3, Elsewhere, ZenonT(30)

\* The slot of the event at the head of the buffer, when it must have one
LEMMA SlotOfEvent ==
    ASSUME IInv, NEW masks, Handling(masks), "Q_OVERFLOW" \notin masks, "IGNORED" \notin masks
    PROVE  /\ buf # << >> /\ ev = buf[1] /\ ev \in Events /\ ev \in Unread /\ ev.mask \in masks
           /\ ev.mask # "Q_OVERFLOW" /\ ev # Overflow
           /\ slot \in Used(wlCache) /\ slot \in 1..Len(wlCache) /\ wlCache[slot].wd = ev.wd
           /\ wlCache[slot].path \in Seq(Names)
<1>1. buf # << >> /\ Known /\ ev.mask \in masks
  BY Zenon DEF Handling
<1>2. ev = buf[1] /\ ev \in Events /\ ev \in Unread
  BY <1>1, HeadOfBuffer, Zenon
<1>3. ev.mask # "Q_OVERFLOW" /\ ev.mask # "IGNORED"
  BY <1>1, Zenon
<1>4. ev.wd \in Nat \ {0} /\ ev # Overflow
  BY <1>2, <1>3, EventFacts, ZenonT(30)
<1>5. slot > 0
  BY <1>1, <1>3, <1>4 DEF Known
<1>6. CacheOK(wlCache)
  BY Zenon DEF IInv, Agree
<1> DEFINE w == ev.wd
<1>7. findWatch(wlCache, w) > 0
  BY <1>5, Zenon DEF slot
<1> HIDE DEF w
<1>8. findWatch(wlCache, w) \in 1..Len(wlCache) /\ wlCache[findWatch(wlCache, w)].wd = w
  BY <1>6, <1>7, Found
<1>9. slot \in 1..Len(wlCache) /\ wlCache[slot].wd = ev.wd
  BY <1>8, Zenon DEF slot, w
<1> HIDE DEF slot
<1>10. slot \in Used(wlCache)
  BY <1>4, <1>9 DEF Used
<1>11. wlCache[slot].path \in Seq(Names)
  <2>1. wlCache[slot] \in [wd : Int, path : Seq(Names)]
    BY <1>6, <1>9, UsedSlots, Zenon
  <2> QED
    BY <2>1, Zenon
<1> QED
  BY <1>1, <1>2, <1>3, <1>4, <1>9, <1>10, <1>11, ZenonT(30)

\* createStopFileAndAbort ends the program.
LEMMA AbortOK ==
    ASSUME IInv, UNCHANGED kernel, createStopFileAndAbort, UNCHANGED <<rootDirPaths, checkCache>>
    PROVE  IInv'
<1>1. UNCHANGED <<inst, wlCache, buf>> /\ UNCHANGED <<ret, firstTry>> /\ pc' = "exit"
  BY Zenon DEF createStopFileAndAbort
<1>2. ControlOK'
  BY <1>1, Zenon DEF IInv, ControlOK, Pcs
<1>3. BufferOK'
  BY <1>1, Zenon DEF IInv, BufferOK
<1> QED
  BY <1>1, <1>2, <1>3, Elsewhere, ZenonT(30)

\* An event for a descriptor that is not in the cache: rebuild, or go on.
LEMMA EvUnknownOK ==
    ASSUME IInv, EvUnknown
    PROVE  IInv'
<1>1. UNCHANGED kernel /\ UNCHANGED <<rootDirPaths, checkCache>>
  BY Zenon DEF EvUnknown
<1>2. createStopFileAndAbort \/ reinitialize("select")
  BY Zenon DEF EvUnknown
<1> QED
  BY <1>1, <1>2, AbortOK, ReinitializeOK, ZenonT(30)

\* IN_IGNORED is skipped: the slot is cleared elsewhere.
LEMMA EvIgnoredOK ==
    ASSUME IInv, EvIgnored
    PROVE  IInv'
<1>1. /\ Consumed(1, wlCache) /\ UNCHANGED kernel /\ UNCHANGED <<inst, wlCache, rootDirPaths, checkCache>>
      /\ buf # << >> /\ ev.mask = "IGNORED"
  BY Zenon DEF EvIgnored, Handling
<1>2. ev = buf[1]
  BY <1>1, HeadOfBuffer, Zenon
<1>3. buf[1].mask \notin Ending /\ buf[1].mask # "Q_OVERFLOW"
  BY <1>1, <1>2, EndingMasks, Zenon
<1> QED
  BY <1>1, <1>3, SkippedOK, Zenon

\* IN_CREATE and IN_MOVED_TO start a walk with the event still in the buffer.
LEMMA EvCreatedOK ==
    ASSUME IInv, EvCreated
    PROVE  IInv'
<1>1. /\ UNCHANGED kernel /\ UNCHANGED <<inst, wlCache, rootDirPaths, checkCache>>
      /\ buf # << >> /\ ev.mask \in {"CREATE", "MOVED_TO"}
  BY Zenon DEF EvCreated, Handling
<1>2. ev = buf[1]
  BY <1>1, HeadOfBuffer, Zenon
<1>3. buf[1].mask \notin Ending /\ buf[1].mask # "Q_OVERFLOW"
  BY <1>1, <1>2, EndingMasks, ZenonT(30)
<1>4. CASE Consumed(1, wlCache)
  BY <1>1, <1>3, <1>4, SkippedOK, ZenonT(30)
<1>5. CASE pc' = "walk" /\ ret' = "walked" /\ UNCHANGED <<buf, firstTry>>
  <2>1. ControlOK'
    BY <1>1, <1>5, Zenon DEF IInv, ControlOK, Pcs
  <2>2. BufferOK'
    <3>1. buf \in Seq(Events)
      BY Zenon DEF IInv, BufferOK
    <3> QED
      BY <1>1, <1>2, <1>5, <3>1, ZenonT(30) DEF BufferOK
  <2> QED
    BY <1>1, <1>5, <2>1, <2>2, Elsewhere, ZenonT(30)
<1> QED
  BY <1>4, <1>5, Zenon DEF EvCreated, StartWalk

\* The event is dropped when the walk is over; it ends no watch.
LEMMA EvWalkedOK ==
    ASSUME IInv, EvWalked
    PROVE  IInv'
<1>1. /\ Consumed(1, wlCache) /\ UNCHANGED kernel /\ UNCHANGED <<inst, wlCache, rootDirPaths, checkCache>>
      /\ pc = "walked"
  BY Zenon DEF EvWalked
<1>2. buf = << >> \/ buf[1].mask \in {"CREATE", "MOVED_TO"}
  BY <1>1, Zenon DEF IInv, BufferOK
<1>3. buf # << >> => buf[1].mask \notin Ending /\ buf[1].mask # "Q_OVERFLOW"
  BY <1>2, EndingMasks, Zenon
<1> QED
  BY <1>1, <1>3, SkippedOK, Zenon

\* The slot of a watch that has ended is emptied, and its event is done.
LEMMA EndedOK ==
    ASSUME IInv, NEW masks \in SUBSET Ending, Handling(masks),
           wlCache' = markCacheSlotEmpty(wlCache, slot), inst' = inst, Consumed(1, wlCache'),
           UNCHANGED kernel, rootDirPaths' \subseteq rootDirPaths, checkCache' = checkCache
    PROVE  IInv'
<1>1. "Q_OVERFLOW" \notin masks /\ "IGNORED" \notin masks
  BY EndingMasks, Zenon
<1>2. /\ buf # << >> /\ ev = buf[1] /\ ev \in Unread /\ ev.mask \in masks /\ ev # Overflow
      /\ slot \in Used(wlCache) /\ wlCache[slot].wd = ev.wd
  BY <1>1, SlotOfEvent, Zenon
<1>3. Agree(inst, wlCache, Unread)
  BY Zenon DEF IInv
<1>4. ~Watched(inst, ev.wd)
  BY <1>2, <1>3, Zenon DEF Agree, EndsAreFinal
<1> DEFINE k == slot
           U == Unread
           c == wlCache
<1>5. k \in Used(c) /\ ~Watched(inst, c[k].wd) /\ Agree(inst, c, U)
  BY <1>2, <1>3, <1>4, ZenonT(30)
<1> HIDE DEF k, U, c
<1>6. Agree(inst, markCacheSlotEmpty(c, k), U) /\ c[k].wd \notin WdsOf(markCacheSlotEmpty(c, k))
  BY <1>5, AgreeEmptied, Zenon
<1>7. Agree(inst', wlCache', Range(buf) \cup Range(inst'.queue)) /\ ev.wd \notin WdsOf(wlCache')
  BY <1>2, <1>6, Zenon DEF k, U, c, Unread
<1>8. ASSUME NEW i \in 1..Len(buf), i <= 1
      PROVE  buf[i] # Overflow /\ (buf[i].mask \in Ending => buf[i].wd \notin WdsOf(wlCache'))
  <2>1. i = 1
    BY <1>8, <1>2, HeadOfBuffer, SMTT(30)
  <2> QED
    BY <1>2, <1>7, <2>1, ZenonT(30)
<1> QED
  BY <1>7, <1>8, ConsumedOK, Zenon

\* IN_UNMOUNT: the slot is cleared with the event.
LEMMA EvUnmountOK ==
    ASSUME IInv, EvUnmount
    PROVE  IInv'
<1>1. {"UNMOUNT"} \in SUBSET Ending
  BY Zenon DEF Ending
<1>2. /\ Handling({"UNMOUNT"}) /\ wlCache' = markCacheSlotEmpty(wlCache, slot) /\ inst' = inst
      /\ Consumed(1, wlCache') /\ UNCHANGED kernel /\ rootDirPaths' \subseteq rootDirPaths
      /\ checkCache' = checkCache
  BY Zenon DEF EvUnmount
<1> DEFINE masks == {"UNMOUNT"}
<1>3. masks \in SUBSET Ending /\ Handling(masks)
  BY <1>1, <1>2, Zenon
<1> HIDE DEF masks
<1> QED
  BY <1>2, <1>3, EndedOK, Zenon

\* IN_DELETE_SELF: the slot is cleared with the event.
LEMMA EvDeleteSelfOK ==
    ASSUME IInv, EvDeleteSelf
    PROVE  IInv'
<1>1. /\ UNCHANGED kernel /\ inst' = inst /\ checkCache' = checkCache
      /\ rootDirPaths' \subseteq rootDirPaths /\ Handling({"DELETE_SELF"})
  BY Zenon DEF EvDeleteSelf, zapRootDirPath
<1>2. CASE rootDirPaths' = {}
  <2>1. pc' = "exit" /\ UNCHANGED <<inst, wlCache, buf>> /\ UNCHANGED <<firstTry, ret>>
    BY <1>1, <1>2, Zenon DEF EvDeleteSelf
  <2>2. ControlOK'
    BY <1>1, <2>1, ZenonT(30) DEF IInv, ControlOK, Pcs
  <2>3. BufferOK'
    BY <2>1, Zenon DEF IInv, BufferOK
  <2> QED
    BY <1>1, <2>1, <2>2, <2>3, Elsewhere, SMTT(30)
<1>3. CASE rootDirPaths' # {}
  <2> DEFINE masks == {"DELETE_SELF"}
  <2>1. masks \in SUBSET Ending /\ Handling(masks)
    BY <1>1, Zenon DEF Ending
  <2>2. wlCache' = markCacheSlotEmpty(wlCache, slot) /\ Consumed(1, wlCache')
    BY <1>3, Zenon DEF EvDeleteSelf
  <2> HIDE DEF masks
  <2> QED
    BY <1>1, <2>1, <2>2, EndedOK, ZenonT(30)
<1> QED
  BY <1>2, <1>3, Zenon

\* A matched pair of moves: the paths change, or the cache is rebuilt.
LEMMA EvRenamedOK ==
    ASSUME IInv, EvRenamed
    PROVE  IInv'
<1> DEFINE masks == {"MOVED_FROM"}
           to    == findWatch(wlCache, buf[2].wd)
           old   == Append(wlCache[slot].path, ev.name)
           new   == Append(wlCache[to].path, buf[2].name)
<1>1. /\ UNCHANGED kernel /\ UNCHANGED <<rootDirPaths, checkCache>> /\ Handling(masks)
      /\ Len(buf) > 1 /\ buf[2].mask = "MOVED_TO"
  BY Zenon DEF EvRenamed, Paired
<1>2. "Q_OVERFLOW" \notin masks /\ "IGNORED" \notin masks
  BY Zenon
<1>3. CASE to = 0
  <2>1. createStopFileAndAbort \/ reinitialize("select")
    BY <1>3, Zenon DEF EvRenamed
  <2> QED
    BY <1>1, <2>1, AbortOK, ReinitializeOK, ZenonT(30)
<1>4. CASE to # 0
  <2>1. wlCache' = rewriteCachedPaths(wlCache, old, new) /\ Consumed(2, wlCache') /\ inst' = inst
    BY <1>4, Zenon DEF EvRenamed
  <2>2. /\ buf # << >> /\ ev = buf[1] /\ ev \in Events /\ ev.mask = "MOVED_FROM" /\ ev # Overflow
        /\ wlCache[slot].path \in Seq(Names)
    <3>1. ev.mask \in masks => ev.mask = "MOVED_FROM"
      BY Zenon
    <3> HIDE DEF masks
    <3> QED
      BY <1>1, <1>2, <3>1, SlotOfEvent, ZenonT(30)
  <2>3. buf \in Seq(Events) /\ Len(buf) \in Nat
    BY <2>2, HeadOfBuffer, ZenonT(30)
  <2>4. buf[2] \in Events /\ 2 \in 1..Len(buf)
    BY <1>1, <2>3, ElementOfSeq, SMTT(30)
  <2>5. "MOVED_FROM" \in Naming /\ "MOVED_TO" \in Naming
    BY Zenon DEF Naming
  <2>6. ev.name \in Names /\ buf[2].name \in Names /\ buf[2] # Overflow
    <3>1. ev.mask # "Q_OVERFLOW" /\ buf[2].mask # "Q_OVERFLOW"
      BY <1>1, <2>2, Zenon
    <3>2. ev.mask \in Naming => ev.name \in Names
      BY <2>2, <3>1, EventFacts, ZenonT(30)
    <3> DEFINE b == buf[2]
    <3>3. b \in Events /\ b.mask # "Q_OVERFLOW"
      BY <2>4, <3>1, ZenonT(30)
    <3> HIDE DEF b
    <3>4. b # Overflow /\ (b.mask \in Naming => b.name \in Names)
      BY <3>3, EventFacts, ZenonT(30)
    <3> QED
      BY <1>1, <2>2, <2>5, <3>2, <3>4, SMTT(30) DEF b
  <2>7. wlCache[to].path \in Seq(Names)
    <3> DEFINE w == buf[2].wd
    <3>1. CacheOK(wlCache)
      BY Zenon DEF IInv, Agree
    <3>2. to = findWatch(wlCache, w)
      BY Zenon
    <3> HIDE DEF to, w
    <3>3. to \in 1..Len(wlCache)
      BY <1>4, <3>1, <3>2, Found, ZenonT(30)
    <3>4. wlCache[to] \in [wd : Int, path : Seq(Names)]
      BY <3>1, <3>3, UsedSlots, ZenonT(30)
    <3> QED
      BY <3>4, Zenon
  <2> DEFINE p1 == wlCache[slot].path
             p2 == wlCache[to].path
             n1 == ev.name
             n2 == buf[2].name
  <2>8. p1 \in Seq(Names) /\ p2 \in Seq(Names) /\ n1 \in Names /\ n2 \in Names
    BY <2>2, <2>6, <2>7, Zenon
  <2>9. old = Append(p1, n1) /\ new = Append(p2, n2)
    BY Zenon
  <2> HIDE DEF p1, p2, n1, n2, old, new
  <2>10. old \in Seq(Names) /\ new \in Seq(Names) /\ old # << >>
    <3>1. old \in Seq(Names) /\ new \in Seq(Names) /\ Len(old) = Len(p1) + 1 /\ Len(p1) \in Nat
      BY <2>8, <2>9, AppendProperties, LenProperties, ZenonT(30)
    <3>2. Len(old) # 0
      BY <3>1
    <3> QED
      BY <3>1, <3>2, EmptySeq, ZenonT(30)
  <2> DEFINE U == Unread
             c == wlCache
  <2>11. Agree(inst, c, U)
    BY Zenon DEF IInv
  <2> HIDE DEF U, c
  <2>12. Agree(inst, rewriteCachedPaths(c, old, new), U)
    BY <2>10, <2>11, AgreeRewritten, ZenonT(30)
  <2>13. Agree(inst', wlCache', Range(buf) \cup Range(inst'.queue))
    BY <2>1, <2>12, ZenonT(30) DEF c, U, Unread
  <2>14. ASSUME NEW i \in 1..Len(buf), i <= 2
         PROVE  buf[i] # Overflow /\ (buf[i].mask \in Ending => buf[i].wd \notin WdsOf(wlCache'))
    <3>1. i = 1 \/ i = 2
      BY <2>3, <2>14, SMTT(30)
    <3>2. buf[i] # Overflow
      BY <2>2, <2>6, <3>1, ZenonT(30)
    <3>3. buf[i].mask \in {"MOVED_FROM", "MOVED_TO"}
      BY <1>1, <2>2, <3>1, Zenon
    <3> QED
      BY <3>2, <3>3, EndingMasks, ZenonT(30)
  <2> QED
    BY <1>1, <2>1, <2>13, <2>14, ConsumedOK, ZenonT(30)
<1> QED
  BY <1>3, <1>4, Zenon

\* zapSubtree as it is called for an event
LEMMA ZapConsumeOK ==
    ASSUME IInv, NEW path, zapSubtree(path, Consumed(1, wlCache'), TRUE), UNCHANGED kernel,
           rootDirPaths' \subseteq rootDirPaths, checkCache' = checkCache,
           buf # << >> => buf[1].mask \notin Ending /\ buf[1].mask # "Q_OVERFLOW"
    PROVE  IInv'
<1>1. CASE Stale(path) # {}
  <2>1. reinitialize("select")
    BY <1>1, Zenon DEF zapSubtree
  <2> QED
    BY <2>1, ReinitializeOK, Zenon
<1>2. CASE Stale(path) = {}
  <2>1. /\ inst' = RmWatches(inst, InOrder(Zapped(path)))
        /\ wlCache' = [j \in Slots |-> IF j \in Zapped(path) THEN Empty ELSE wlCache[j]]
        /\ Consumed(1, wlCache')
    BY <1>2, Zenon DEF zapSubtree
  <2>2. Agree(inst', wlCache', Range(buf) \cup Range(inst'.queue))
    BY <2>1, ZappedOK, Zenon
  <2>3. ASSUME NEW i \in 1..Len(buf), i <= 1
        PROVE  buf[i] # Overflow /\ (buf[i].mask \in Ending => buf[i].wd \notin WdsOf(wlCache'))
    <3>1. Len(buf) \in Nat /\ buf \in Seq(Events)
      BY LenProperties, Zenon DEF IInv, BufferOK
    <3>2. i = 1 /\ buf # << >>
      BY <2>3, <3>1, SMTT(30)
    <3> QED
      BY <3>2, OverflowOK, Zenon
  <2> QED
    BY <2>1, <2>2, <2>3, ConsumedOK, ZenonT(30)
<1> QED
  BY <1>1, <1>2, Zenon

\* A move out of the tree: the subtree's slots and watches go.
LEMMA EvMovedOutOK ==
    ASSUME IInv, EvMovedOut
    PROVE  IInv'
<1> DEFINE path == Append(wlCache[slot].path, ev.name)
<1>1. /\ UNCHANGED kernel /\ rootDirPaths' \subseteq rootDirPaths /\ checkCache' = checkCache
      /\ buf # << >> /\ ev.mask = "MOVED_FROM"
  BY Zenon DEF EvMovedOut, Handling
<1>2. zapSubtree(path, Consumed(1, wlCache'), TRUE)
  BY Zenon DEF EvMovedOut
<1> HIDE DEF path
<1>3. ev = buf[1]
  BY <1>1, HeadOfBuffer, Zenon
<1>4. buf[1].mask \notin Ending /\ buf[1].mask # "Q_OVERFLOW"
  BY <1>1, <1>3, EndingMasks, ZenonT(30)
<1> QED
  BY <1>1, <1>2, <1>4, ZapConsumeOK, ZenonT(30)

\* A lone IN_MOVED_FROM at the end of the buffer waits for more.
LEMMA EvHangingOK ==
    ASSUME IInv, EvHanging
    PROVE  IInv'
<1>1. /\ UNCHANGED kernel /\ UNCHANGED <<inst, wlCache, buf>> /\ UNCHANGED <<rootDirPaths, ret, checkCache>>
      /\ pc' = "secondary" /\ firstTry' = FALSE
  BY Zenon DEF EvHanging
<1>2. ControlOK'
  BY <1>1, Zenon DEF IInv, ControlOK, Pcs
<1>3. BufferOK'
  BY <1>1, Zenon DEF IInv, BufferOK
<1> QED
  BY <1>1, <1>2, <1>3, Elsewhere, ZenonT(30)

\* IN_Q_OVERFLOW: what was lost does not matter, since all starts afresh.
LEMMA EvOverflowOK ==
    ASSUME IInv, EvOverflow
    PROVE  IInv'
<1>1. UNCHANGED kernel /\ rootDirPaths' \subseteq rootDirPaths /\ checkCache' = checkCache /\ reinitialize("walked")
  BY Zenon DEF EvOverflow
<1> QED
  BY <1>1, ReinitializeOK, Zenon

\* IN_MOVE_SELF of a root: its subtree goes, and the cache may be rebuilt.
LEMMA EvMoveSelfOK ==
    ASSUME IInv, EvMoveSelf
    PROVE  IInv'
<1> DEFINE path == wlCache[slot].path
<1>1. UNCHANGED kernel /\ checkCache' = checkCache /\ buf # << >> /\ ev.mask = "MOVE_SELF"
  BY Zenon DEF EvMoveSelf, Handling
<1>2. ev = buf[1]
  BY <1>1, HeadOfBuffer, ZenonT(30)
<1>3. buf[1].mask \notin Ending /\ buf[1].mask # "Q_OVERFLOW"
  BY <1>1, <1>2, EndingMasks, ZenonT(30)
<1>4. CASE ~isRootDirPath(path)
  <2>1. Consumed(1, wlCache) /\ UNCHANGED <<inst, wlCache, rootDirPaths>>
    BY <1>4, Zenon DEF EvMoveSelf
  <2> QED
    BY <1>1, <1>3, <2>1, SkippedOK, ZenonT(30)
<1>5. CASE isRootDirPath(path) /\ rootDirPaths' = {}
  <2>1. pc' = "exit" /\ UNCHANGED <<inst, wlCache, buf>> /\ UNCHANGED <<firstTry, ret>>
    BY <1>5, Zenon DEF EvMoveSelf
  <2>2. ControlOK'
    BY <1>1, <1>5, <2>1, ZenonT(30) DEF IInv, ControlOK, Pcs
  <2>3. BufferOK'
    BY <2>1, Zenon DEF IInv, BufferOK
  <2> QED
    BY <1>1, <2>1, <2>2, <2>3, Elsewhere, ZenonT(30)
<1>6. CASE isRootDirPath(path) /\ rootDirPaths' # {}
  <2>1. zapSubtree(path, Consumed(1, wlCache'), TRUE) /\ rootDirPaths' \subseteq rootDirPaths
    BY <1>6, Zenon DEF EvMoveSelf, zapRootDirPath
  <2> HIDE DEF path
  <2> QED
    BY <1>1, <1>3, <2>1, ZapConsumeOK, ZenonT(30)
<1> QED
  BY <1>4, <1>5, <1>6, ZenonT(30)

\* Steps of the main loop, before and after a batch of events
LEMMA LoopOK ==
    ASSUME IInv, Select \/ IsSet \/ SecondaryTimeout \/ AlarmBeforeRead
    PROVE  IInv'
<1>1. /\ UNCHANGED kernel /\ UNCHANGED <<inst, wlCache, buf>>
      /\ UNCHANGED <<rootDirPaths, firstTry, ret, checkCache>>
      /\ \/ pc \in {"select", "isset"} /\ pc' \in {"cmd", "isset", "read", "select"}
         \/ pc = "secondary" /\ pc' \in {"event", "late"}
  BY Zenon DEF Select, IsSet, SecondaryTimeout, AlarmBeforeRead
<1>2. ControlOK'
  BY <1>1, Zenon DEF IInv, ControlOK, Pcs
<1>3. BufferOK'
  BY <1>1, Zenon DEF IInv, BufferOK
<1> QED
  BY <1>1, <1>2, <1>3, Elsewhere, ZenonT(30)

\* The first scan of the trees
LEMMA StartOK ==
    ASSUME IInv, Start
    PROVE  IInv'
<1>1. UNCHANGED kernel /\ rootDirPaths' \subseteq rootDirPaths /\ checkCache' = checkCache /\ reinitialize("select")
  BY Zenon DEF Start
<1> QED
  BY <1>1, ReinitializeOK, ZenonT(30)

\* Events that are read leave the queue for the buffer.
LEMMA ReadOK ==
    ASSUME IInv, NEW n \in 1..Len(inst.queue), inst' = Take(n), wlCache' = wlCache, UNCHANGED kernel,
           UNCHANGED <<rootDirPaths, ret, checkCache>>, firstTry' \in BOOLEAN, pc' = "event",
           buf' \in Seq(Events),
           Range(buf') = Range(buf) \cup Range(SubSeq(inst.queue, 1, n))
    PROVE  IInv'
<1> DEFINE rest  == SubSeq(inst.queue, n + 1, Len(inst.queue))
           front == SubSeq(inst.queue, 1, n)
<1>1. inst'.watch = inst.watch /\ inst'.next = inst.next /\ inst'.queue = rest
  BY Zenon DEF Take, Queued
<1>2. inst.queue \in Seq(Events) /\ Len(inst.queue) \in Nat /\ Len(inst.queue) <= MaxQueue + 1 /\ MaxQueue \in Nat
  <2>1. /\ inst.queue \in Seq(Events) /\ MaxQueue \in Nat \ {0}
        /\ Len(inst.queue) <= MaxQueue \/ Len(inst.queue) = MaxQueue + 1
    BY InotifyAssumption, ZenonT(30) DEF IInv, Agree, InstOK, QueueOK
  <2>2. Len(inst.queue) \in Nat
    BY <2>1, LenProperties, ZenonT(30)
  <2> QED
    BY <2>1, <2>2
<1>3. /\ rest \in Seq(Events) /\ Len(rest) <= Len(inst.queue) - 1
      /\ Range(front) \cup Range(rest) = Range(inst.queue)
  BY <1>2, Cut, SMTT(30)
<1>4. Len(rest) \in Nat
  BY <1>3, LenProperties, ZenonT(30)
<1> HIDE DEF rest, front
<1>6. Len(rest) <= MaxQueue
  BY <1>2, <1>3, <1>4, SMTT(30)
<1>7. QueueOK(inst'.queue)
  BY <1>1, <1>3, <1>6, ZenonT(30) DEF QueueOK
<1>9. Unread' = Unread
  BY <1>1, <1>3, ZenonT(30) DEF Unread, front
<1>10. Agree(inst', wlCache', Unread')
  <2> DEFINE U  == Unread
             in2 == inst'
             c  == wlCache
  <2>1. Agree(inst, c, U) /\ U \in SUBSET U /\ \A e \in U \ U : e # Overflow /\ (e.mask \in Ending => e.wd \notin WdsOf(c))
    BY Zenon DEF IInv
  <2>2. in2.watch = inst.watch /\ in2.next = inst.next /\ QueueOK(in2.queue)
    BY <1>1, <1>7, ZenonT(30)
  <2> HIDE DEF U, in2, c
  <2>3. Agree(in2, c, U)
    BY <2>1, <2>2, AgreeDropped, ZenonT(30)
  <2> QED
    BY <1>9, <2>3, ZenonT(30) DEF U, in2, c
<1>11. ControlOK'
  BY Zenon DEF IInv, ControlOK, Pcs
<1>12. BufferOK'
  BY Zenon DEF BufferOK
<1> QED
  BY <1>10, <1>11, <1>12, Monitored, ZenonT(30)

\* read() in the main loop, into an empty buffer
LEMMA ReadEventsOK ==
    ASSUME IInv, ReadEvents
    PROVE  IInv'
<1> DEFINE q == inst.queue
           n == IF Len(q) < ReadBufEvents THEN Len(q) ELSE ReadBufEvents
<1>1. /\ q # << >> /\ buf' = SubSeq(q, 1, n) /\ inst' = Take(n) /\ pc = "read" /\ pc' = "event" /\ firstTry' = TRUE
      /\ UNCHANGED kernel /\ wlCache' = wlCache /\ UNCHANGED <<rootDirPaths, ret, checkCache>>
  BY Zenon DEF ReadEvents
<1>2. q \in Seq(Events) /\ Len(q) \in Nat /\ ReadBufEvents \in Nat \ {0}
  BY InotifyAssumption, LenProperties, ZenonT(30) DEF IInv, Agree, InstOK, QueueOK
<1>3. Len(q) # 0
  BY <1>1, <1>2, EmptySeq, ZenonT(30)
<1> HIDE DEF q
<1>4. n \in 1..Len(q) /\ n \in 0..Len(q)
  BY <1>2, <1>3, SMTT(30)
<1> HIDE DEF n
<1>5. buf' \in Seq(Events)
  BY <1>1, <1>2, <1>4, Front, ZenonT(30)
<1>6. Range(buf) = {}
  <2>1. buf = << >>
    BY <1>1, Zenon DEF IInv, BufferOK
  <2> QED
    BY <2>1 DEF Range
<1>7. Range(buf') = Range(buf) \cup Range(SubSeq(inst.queue, 1, n))
  BY <1>1, <1>6, ZenonT(30) DEF q
<1>8. n \in 1..Len(inst.queue) /\ firstTry' \in BOOLEAN
  BY <1>1, <1>4, ZenonT(30) DEF q
<1> QED
  BY <1>1, <1>5, <1>7, <1>8, ReadOK, ZenonT(30)

\* read() after the short wait, behind the event that is kept
LEMMA SecondaryReadOK ==
    ASSUME IInv, SecondaryRead
    PROVE  IInv'
<1> DEFINE q == inst.queue
           n == Len(q)
<1>1. /\ q # << >> /\ buf' = buf \o q /\ inst' = Take(n) /\ pc' = "event"
      /\ UNCHANGED kernel /\ wlCache' = wlCache /\ UNCHANGED <<rootDirPaths, firstTry, ret, checkCache>>
  BY Zenon DEF SecondaryRead
<1>2. q \in Seq(Events) /\ n \in Nat /\ buf \in Seq(Events)
  BY LenProperties, Zenon DEF IInv, Agree, InstOK, QueueOK, BufferOK
<1>3. n # 0
  BY <1>1, <1>2, EmptySeq, ZenonT(30)
<1> HIDE DEF q
<1>4. n \in 1..Len(q) /\ n \in 0..Len(q)
  BY <1>2, <1>3, SMTT(30)
<1>5. buf' \in Seq(Events) /\ Range(buf') = Range(buf) \cup Range(q)
  BY <1>1, <1>2, Joined, SMTT(30)
<1>6. Range(SubSeq(q, 1, n)) = Range(q)
  <2> DEFINE m == n
  <2>1. m \in 0..Len(q) /\ m = Len(q)
    BY <1>4, Zenon
  <2> HIDE DEF m, n
  <2>2. Range(SubSeq(q, 1, m)) \subseteq Range(q) /\ \A i \in 1..m : q[i] \in Range(SubSeq(q, 1, m))
    BY <1>2, <2>1, Front, ZenonT(30)
  <2>3. \A x \in Range(q) : \E i \in 1..Len(q) : q[i] = x
    BY <1>2, Elements, ZenonT(30)
  <2>4. Range(SubSeq(q, 1, m)) = Range(q)
    BY <2>1, <2>2, <2>3, ZenonT(30)
  <2> QED
    BY <2>4, Zenon DEF m
<1> HIDE DEF n
<1>7. Range(buf') = Range(buf) \cup Range(SubSeq(inst.queue, 1, n)) /\ n \in 1..Len(inst.queue)
  BY <1>4, <1>5, <1>6, ZenonT(30) DEF q
<1>8. firstTry' \in BOOLEAN
  BY <1>1, Zenon DEF IInv, ControlOK
<1> QED
  BY <1>1, <1>5, <1>7, <1>8, ReadOK, ZenonT(30)

\* A command that leaves the instance, the cache and the buffer alone
LEMMA AnsweredOK ==
    ASSUME IInv, UNCHANGED kernel, UNCHANGED <<inst, wlCache, buf>>, UNCHANGED <<rootDirPaths, firstTry, ret>>,
           pc = "cmd", pc' \in {"isset", "exit"}, checkCache' \in BOOLEAN
    PROVE  IInv'
<1>1. ControlOK'
  BY Zenon DEF IInv, ControlOK, Pcs
<1>2. BufferOK'
  BY Zenon DEF IInv, BufferOK
<1> QED
  BY <1>1, <1>2, Elsewhere, ZenonT(30)

\* zapSubtree as the commands call it
LEMMA ZapCommandOK ==
    ASSUME IInv, NEW path, inst' = RmWatches(inst, InOrder(Zapped(path))),
           wlCache' = [j \in Slots |-> IF j \in Zapped(path) THEN Empty ELSE wlCache[j]],
           UNCHANGED kernel, UNCHANGED <<rootDirPaths, buf, firstTry, checkCache>>, pc = "cmd",
           (pc' = "walk" /\ ret' = "isset") \/ (pc' = "isset" /\ ret' = ret)
    PROVE  IInv'
<1>1. Agree(inst', wlCache', Range(buf) \cup Range(inst'.queue))
  BY ZappedOK, Zenon
<1>2. Unread' = Range(buf) \cup Range(inst'.queue)
  BY Zenon DEF Unread
<1>3. Agree(inst', wlCache', Unread')
  BY <1>1, <1>2, ZenonT(30)
<1>4. ControlOK'
  BY Zenon DEF IInv, ControlOK, Pcs
<1>5. BufferOK'
  BY Zenon DEF IInv, BufferOK
<1> QED
  BY <1>3, <1>4, <1>5, Monitored, ZenonT(30)

\* The commands of executeCommand
LEMMA CommandOK ==
    ASSUME IInv, executeCommand
    PROVE  IInv'
<1>1. CASE CmdAdd
  <2>1. /\ UNCHANGED kernel /\ UNCHANGED <<rootDirPaths, checkCache>> /\ pc = "cmd"
        /\ \E p \in Arg : zapSubtree(p, StartWalk(<<p>>, "isset") /\ UNCHANGED <<buf, firstTry>>, FALSE)
    BY <1>1, Zenon DEF CmdAdd, Typed
  <2>2. PICK p \in Arg : zapSubtree(p, StartWalk(<<p>>, "isset") /\ UNCHANGED <<buf, firstTry>>, FALSE)
    BY <2>1, Zenon
  <2>3. /\ inst' = RmWatches(inst, InOrder(Zapped(p)))
        /\ wlCache' = [j \in Slots |-> IF j \in Zapped(p) THEN Empty ELSE wlCache[j]]
        /\ pc' = "walk" /\ ret' = "isset" /\ UNCHANGED <<buf, firstTry>>
    BY <2>2, Zenon DEF zapSubtree, StartWalk
  <2> QED
    BY <2>1, <2>3, ZapCommandOK, ZenonT(30)
<1>2. CASE CmdZap
  <2>1. /\ UNCHANGED kernel /\ UNCHANGED <<rootDirPaths, checkCache>> /\ pc = "cmd"
        /\ \E p \in Arg : zapSubtree(p, pc' = "isset" /\ UNCHANGED <<buf, firstTry, walk, ret>>, FALSE)
    BY <1>2, Zenon DEF CmdZap, Typed
  <2>2. PICK p \in Arg : zapSubtree(p, pc' = "isset" /\ UNCHANGED <<buf, firstTry, walk, ret>>, FALSE)
    BY <2>1, Zenon
  <2>3. /\ inst' = RmWatches(inst, InOrder(Zapped(p)))
        /\ wlCache' = [j \in Slots |-> IF j \in Zapped(p) THEN Empty ELSE wlCache[j]]
        /\ pc' = "isset" /\ UNCHANGED <<buf, firstTry>> /\ ret' = ret
    BY <2>2, Zenon DEF zapSubtree
  <2> QED
    BY <2>1, <2>3, ZapCommandOK, ZenonT(30)
<1>3. CASE CmdRebuild
  <2>1. UNCHANGED kernel /\ rootDirPaths' \subseteq rootDirPaths /\ checkCache' = checkCache /\ reinitialize("isset")
    BY <1>3, Zenon DEF CmdRebuild, Typed
  <2> QED
    BY <2>1, ReinitializeOK, Zenon
<1>4. CASE CmdToggleCheck \/ CmdOther \/ CmdQuit
  <2>1. /\ UNCHANGED kernel /\ UNCHANGED <<inst, wlCache, buf>> /\ UNCHANGED <<rootDirPaths, firstTry, ret>>
        /\ pc = "cmd" /\ pc' \in {"isset", "exit"}
    BY <1>4, Zenon DEF CmdToggleCheck, CmdOther, CmdQuit, Typed, Answered
  <2>2. checkCache' \in BOOLEAN
    <3>1. checkCache \in BOOLEAN
      BY Zenon DEF IInv, ControlOK
    <3>2. checkCache' = checkCache \/ checkCache' = ~checkCache
      BY <1>4, Zenon DEF CmdToggleCheck, CmdOther, CmdQuit
    <3> QED
      BY <3>1, <3>2, Zenon
  <2> QED
    BY <2>1, <2>2, AnsweredOK, Zenon
<1> QED
  BY <1>1, <1>2, <1>3, <1>4, ZenonT(30) DEF executeCommand

-----------------------------------------------------------------------------
(* The invariant *)

\* The monitor starts with a new instance, no slots and nothing to read.
LEMMA InitOK == Init => IInv
<1> SUFFICES ASSUME Init PROVE IInv
  BY Zenon
<1>1. KernelOK
  <2>1. DOMAIN fs = {<< >>} \cup InitDirs /\ ops = 0 /\ pend = [m \in Mutators |-> << >>]
    BY Zenon DEF Init
  <2>2. InitDirs \subseteq Seq(Names) /\ IsFiniteSet(InitDirs) /\ << >> \in Seq(Names)
    BY InotifyAssumption, EmptySeq, Zenon
  <2>3. IsFiniteSet(InitDirs \cup {<< >>})
    BY <2>2, FS_AddElement, Zenon
  <2>4. DOMAIN fs \subseteq Seq(Names) /\ IsFiniteSet(DOMAIN fs)
    <3>1. DOMAIN fs = InitDirs \cup {<< >>}
      BY <2>1, Zenon
    <3> QED
      BY <2>2, <2>3, <3>1, Zenon
  <2>5. PendOK(<< >>)
    <3>1. << >> \in Seq({}) /\ \A r \in {} : RawOK(r)
      BY EmptySeq, Zenon
    <3> QED
      BY <3>1, Pending, Zenon
  <2> QED
    BY <2>1, <2>4, <2>5, ZenonT(30) DEF KernelOK
<1>2. ControlOK
  BY InotifyAssumption, Zenon DEF Init, ControlOK, Pcs
<1>3. BufferOK
  <2>1. << >> \in Seq(Events)
    BY EmptySeq, Zenon
  <2> QED
    BY <2>1, Zenon DEF Init, BufferOK
<1>4. Agree(inst, wlCache, Unread)
  BY AgreeFresh, Zenon DEF Init, Unread
<1> QED
  BY <1>1, <1>2, <1>3, <1>4, ZenonT(30) DEF IInv

\* Every step of the mutators, the kernel and the monitor keeps the invariant.
LEMMA NextOK == IInv /\ [Next]_vars => IInv'
<1> SUFFICES ASSUME IInv, [Next]_vars PROVE IInv'
  BY Zenon
<1>1. ASSUME NEW m \in Mutators, Mutator(m) PROVE IInv'
  BY <1>1, MkdirOK, RmdirOK, RenameOK, UnmountOK, EmitEventOK, ZenonT(30) DEF Mutator
<1>2. CASE MainLoop
  BY <1>2, StartOK, LoopOK, ReadEventsOK, SecondaryReadOK, ZenonT(30) DEF MainLoop
<1>3. CASE executeCommand
  BY <1>3, CommandOK, ZenonT(30)
<1>4. CASE ProcessEvent
  BY <1>4, EvUnknownOK, EvIgnoredOK, EvCreatedOK, EvWalkedOK, EvDeleteSelfOK, EvUnmountOK,
     EvRenamedOK, EvMovedOutOK, EvHangingOK, EvOverflowOK, EvMoveSelfOK, ZenonT(30) DEF ProcessEvent
<1>5. CASE Walk
  BY <1>5, WalkOK, traverseTreeOK, WalkDoneOK, ZenonT(30) DEF Walk
<1>6. CASE UNCHANGED vars
  <2>1. UNCHANGED kernel /\ UNCHANGED <<inst, wlCache, buf>> /\ UNCHANGED <<rootDirPaths, pc, firstTry, ret, checkCache>>
    BY <1>6, Zenon DEF vars, kernel, monitor
  <2>2. ControlOK'
    BY <2>1, Zenon DEF IInv, ControlOK
  <2>3. BufferOK'
    BY <2>1, Zenon DEF IInv, BufferOK
  <2> QED
    BY <2>1, <2>2, <2>3, Elsewhere, ZenonT(30)
<1> QED
  BY <1>1, <1>2, <1>3, <1>4, <1>5, <1>6, ZenonT(30) DEF Next, Monitor

\* The invariant holds of every behaviour of the kernel and the monitor: whatever
\* processEvents, executeCommand and the walks of traverseTree do, the instance,
\* the cache and the events still to be handled agree.
THEOREM Invariance == Spec => []IInv
  BY InitOK, NextOK, PTL DEF Spec

-----------------------------------------------------------------------------
(* The properties *)

\* The slots, the events and the monitor's control keep their types, and the
\* kernel's queue never outgrows its limit by more than the overflow event.
THEOREM TypeCorrect == Spec => []TypeOK
<1>1. IInv => TypeOK
  <2> SUFFICES ASSUME IInv PROVE TypeOK
    BY Zenon
  <2>1. DOMAIN fs \subseteq Seq(Names)
    BY Zenon DEF IInv, KernelOK
  <2>2. pc \in Pcs /\ ret \in {"select", "walked", "isset"} /\ rootDirPaths \subseteq Range(Roots)
        /\ {firstTry, checkCache} \subseteq BOOLEAN
    BY Zenon DEF IInv, ControlOK
  <2>3. ASSUME NEW j \in Slots
        PROVE  wlCache[j] = Empty \/ (wlCache[j].wd > 0 /\ wlCache[j].path \in Seq(Names))
    <3>1. SlotOK(wlCache[j])
      BY Zenon DEF IInv, Agree, CacheOK, Slots
    <3> QED
      BY <3>1 DEF SlotOK
  <2>4. QueueOK(inst.queue) /\ buf \in Seq(Events)
    BY Zenon DEF IInv, Agree, InstOK, BufferOK
  <2>5. inst.queue \in Seq(Events) /\ Len(inst.queue) \in Nat /\ MaxQueue \in Nat
    BY <2>4, InotifyAssumption, LenProperties, ZenonT(30) DEF QueueOK
  <2>6. Len(inst.queue) <= MaxQueue + 1
    BY <2>4, <2>5 DEF QueueOK
  <2>7. \A e \in Events : e.mask \in Masks
    BY Zenon DEF Events
  <2>8. Range(buf) \subseteq Events /\ Range(inst.queue) \subseteq Events
    BY <2>4, <2>5, Elements, ZenonT(30)
  <2>9. \A e \in Range(buf) \cup Range(inst.queue) : e.mask \in Masks
    BY <2>7, <2>8, ZenonT(30)
  <2> QED
    BY <2>1, <2>2, <2>3, <2>6, <2>9, ZenonT(30) DEF TypeOK
<1> QED
  BY <1>1, Invariance, PTL

\* No two slots of the cache hold the same watch descriptor (traverseTree).
THEOREM DescriptorsUnique == Spec => []UniqueWds
<1>1. IInv => UniqueWds
  BY ZenonT(30) DEF IInv, Agree, CacheOK, UniqueWds
<1> QED
  BY <1>1, Invariance, PTL

\* Every watch has a slot, and every slot a watch or an event that clears it:
\* traverseTree, zapSubtree, reinitialize and the handlers of IN_DELETE_SELF,
\* IN_UNMOUNT and IN_Q_OVERFLOW together lose neither.
THEOREM WatchesHaveSlots == Spec => []WatchesMatchSlots
<1>1. IInv => WatchesMatchSlots
  <2> SUFFICES ASSUME IInv PROVE WatchesMatchSlots
    BY Zenon
  <2>1. Covered(inst, WdsOf(wlCache)) /\ Matched(inst, WdsOf(wlCache), Unread)
    BY Zenon DEF IInv, Agree
  <2>2. CachedWds = WdsOf(wlCache)
    BY Zenon DEF CachedWds, WdsOf
  <2>3. \A i \in DOMAIN inst.watch : inst.watch[i] \in CachedWds
    BY <2>1, <2>2, Zenon DEF Covered
  <2>4. \A wd \in CachedWds : \/ Watched(inst, wd)
                              \/ \E e \in Unread : e.wd = wd /\ e.mask \in {"DELETE_SELF", "UNMOUNT"}
                              \/ Overflow \in Unread
    BY <2>1, <2>2, Zenon DEF Matched, Owed, Ending
  <2> QED
    BY <2>3, <2>4, ZenonT(30) DEF WatchesMatchSlots
<1> QED
  BY <1>1, Invariance, PTL
=============================================================================

------------------------- MODULE InotifyDtreeLemmas -------------------------
(***************************************************************************)
(* What the operations on an inotify instance and on the watch list cache  *)
(* return and keep, for any directories, mutators, sizes of the cache, the *)
(* kernel's queue and the read buffer, and any options: lemmas for         *)
(* InotifyDtreeProofs.  They are about operators; no state appears.        *)
(***************************************************************************)
EXTENDS InotifyDtree, FiniteSetTheorems, SequenceTheorems, TLAPS

Naming == {"CREATE", "MOVED_FROM", "MOVED_TO"}  \* events that name an entry
Ending == {"DELETE_SELF", "UNMOUNT"}            \* events that end a watch

\* Events as the kernel makes them, and as the monitor reads them
RawOK(r) ==
    /\ r.mask \in Masks \ {"Q_OVERFLOW", "IGNORED"} /\ r.cookie \in Nat
    /\ r.name \in Names \cup {NoName} /\ (r.mask \in Naming => r.name \in Names)

Events ==
    {e \in [wd : Int, mask : Masks, name : Names \cup {NoName}, cookie : Nat] :
        e = Overflow \/ (e.wd > 0 /\ e.mask # "Q_OVERFLOW" /\ (e.mask \in Naming => e.name \in Names))}

\* The queue outgrows its limit only by the overflow event.
QueueOK(q) ==
    /\ q \in Seq(Events)
    /\ Len(q) <= MaxQueue \/ (Len(q) = MaxQueue + 1 /\ Overflow \in Range(q))

\* No two watches have the same descriptor, and the next one is new.
InstOK(in) ==
    /\ in.next \in Nat \ {0} /\ in.watch \in [DOMAIN in.watch -> 1..(in.next - 1)]
    /\ \A i, k \in DOMAIN in.watch : in.watch[i] = in.watch[k] => i = k
    /\ QueueOK(in.queue)

\* A watch whose end is announced does not come back.
EndsAreFinal(in, unread) ==
    \A e \in unread : e.mask \in Ending => e.wd \in 1..(in.next - 1) /\ ~Watched(in, e.wd)

SlotOK(s) == s = Empty \/ (s \in [wd : Nat \ {0}, path : Seq(Names)])

CacheOK(c) ==
    /\ c \in Seq([wd : Int, path : Seq(Names)])
    /\ \A j \in 1..Len(c) : SlotOK(c[j])
    /\ \A i, j \in Used(c) : c[i].wd = c[j].wd => i = j

WdsOf(c) == {c[j].wd : j \in Used(c)}

\* Watches have slots; slots have watches, or events that will clear them.
Covered(in, wds) == \A i \in DOMAIN in.watch : in.watch[i] \in wds

Owed(wd, unread) == (\E e \in unread : e.wd = wd /\ e.mask \in Ending) \/ Overflow \in unread

Matched(in, wds, unread) == \A wd \in wds : Watched(in, wd) \/ Owed(wd, unread)

\* An instance, a cache and the unread events that agree
Agree(in, c, unread) ==
    /\ InstOK(in) /\ CacheOK(c) /\ EndsAreFinal(in, unread)
    /\ Covered(in, WdsOf(c)) /\ Matched(in, WdsOf(c), unread)

-----------------------------------------------------------------------------
(* Sequences *)

\* The elements of a sequence are those at its indices.
LEMMA Elements ==
    ASSUME NEW S, NEW s \in Seq(S)
    PROVE  /\ Range(s) \subseteq S /\ Len(s) \in Nat
           /\ \A x : x \in Range(s) <=> \E i \in 1..Len(s) : s[i] = x
  BY LenProperties DEF Range

\* What is left when n elements are taken off the front
LEMMA Rest ==
    ASSUME NEW S, NEW s \in Seq(S), NEW n \in Nat
    PROVE  LET rest == SubSeq(s, n + 1, Len(s)) IN
           /\ rest \in Seq(S) /\ Range(rest) \subseteq Range(s)
           /\ Len(rest) = IF n < Len(s) THEN Len(s) - n ELSE 0
           /\ \A x \in Range(s) : x \in Range(rest) \/ \E i \in 1..Len(s) : i <= n /\ s[i] = x
<1> DEFINE rest == SubSeq(s, n + 1, Len(s))
<1>1. Len(s) \in Nat /\ \A i \in 1..Len(s) : s[i] \in S
  BY LenProperties, ElementOfSeq, Zenon
<1>2. \A i \in (n + 1)..Len(s) : s[i] \in S
  BY <1>1
<1>3. /\ rest \in Seq(S)
      /\ Len(rest) = IF n + 1 <= Len(s) THEN Len(s) - (n + 1) + 1 ELSE 0
      /\ \A i \in 1..(Len(s) - (n + 1) + 1) : rest[i] = s[(n + 1) + i - 1]
  BY <1>1, <1>2, SubSeqProperties
<1>4. Len(rest) = IF n < Len(s) THEN Len(s) - n ELSE 0
  BY <1>1, <1>3
<1>5. \A i \in 1..Len(rest) : rest[i] = s[i + n] /\ i + n \in 1..Len(s)
  BY <1>1, <1>3, <1>4
<1> HIDE DEF rest
<1>6. ASSUME NEW x \in Range(rest) PROVE x \in Range(s)
  <2>1. PICK i \in 1..Len(rest) : rest[i] = x
    BY <1>3, Elements, Zenon
  <2>2. i + n \in 1..Len(s) /\ s[i + n] = x
    BY <1>5, <2>1, Zenon
  <2> QED
    BY <2>2, Elements, Zenon
<1>7. ASSUME NEW x \in Range(s) PROVE x \in Range(rest) \/ \E i \in 1..Len(s) : i <= n /\ s[i] = x
  <2>1. PICK i \in 1..Len(s) : s[i] = x
    BY Elements, Zenon
  <2>2. CASE i <= n
    BY <2>1, <2>2, Zenon
  <2>3. CASE i > n
    <3>1. i - n \in 1..Len(rest) /\ (i - n) + n = i
      BY <1>1, <1>4, <2>3
    <3>2. rest[i - n] = x
      BY <1>5, <2>1, <3>1, Zenon
    <3> QED
      BY <1>3, <3>1, <3>2, Elements, Zenon
  <2> QED
    BY <1>1, <2>2, <2>3
<1> QED
  BY <1>3, <1>4, <1>6, <1>7, Zenon DEF rest

\* The elements of sequences put together
LEMMA Joined ==
    ASSUME NEW S, NEW s \in Seq(S), NEW t \in Seq(S)
    PROVE  /\ s \o t \in Seq(S) /\ Len(s \o t) = Len(s) + Len(t)
           /\ Range(s \o t) = Range(s) \cup Range(t)
<1>1. /\ s \o t \in Seq(S) /\ Len(s \o t) = Len(s) + Len(t)
      /\ \A i \in 1 .. Len(s) + Len(t) : (s \o t)[i] = IF i <= Len(s) THEN s[i] ELSE t[i - Len(s)]
  BY ConcatProperties, Zenon
<1>2. Len(s) \in Nat /\ Len(t) \in Nat
  BY LenProperties, Zenon
<1>3. ASSUME NEW x \in Range(s \o t) PROVE x \in Range(s) \cup Range(t)
  <2>1. PICK i \in 1 .. Len(s) + Len(t) : (s \o t)[i] = x
    BY <1>1, Elements, ZenonT(30)
  <2>2. CASE i <= Len(s)
    BY <1>1, <1>2, <2>1, <2>2, Elements
  <2>3. CASE i > Len(s)
    <3>1. i - Len(s) \in 1..Len(t) /\ t[i - Len(s)] = x
      BY <1>1, <1>2, <2>1, <2>3
    <3> QED
      BY <3>1, Elements, Zenon
  <2> QED
    BY <1>2, <2>2, <2>3
<1>4. ASSUME NEW x \in Range(s) PROVE x \in Range(s \o t)
  <2>1. PICK i \in 1..Len(s) : s[i] = x
    BY Elements, Zenon
  <2>2. i \in 1..(Len(s) + Len(t)) /\ (s \o t)[i] = x
    BY <1>1, <1>2, <2>1
  <2> QED
    BY <1>1, <2>2, Elements, Zenon
<1>5. ASSUME NEW x \in Range(t) PROVE x \in Range(s \o t)
  <2>1. PICK i \in 1..Len(t) : t[i] = x
    BY Elements, Zenon
  <2>2. /\ Len(s) + i \in 1..(Len(s) + Len(t)) /\ ~(Len(s) + i <= Len(s))
        /\ (Len(s) + i) - Len(s) = i
    BY <1>2
  <2>3. (s \o t)[Len(s) + i] = x
    BY <1>1, <2>1, <2>2, Zenon
  <2> QED
    BY <1>1, <2>2, <2>3, Elements, Zenon
<1> QED
  BY <1>1, <1>3, <1>4, <1>5, Zenon

\* One more element
LEMMA Appended ==
    ASSUME NEW S, NEW s \in Seq(S), NEW e \in S
    PROVE  /\ Append(s, e) \in Seq(S) /\ Len(Append(s, e)) = Len(s) + 1
           /\ Range(Append(s, e)) = Range(s) \cup {e}
<1> DEFINE a == Append(s, e)
<1>1. /\ a \in Seq(S) /\ Len(a) = Len(s) + 1 /\ Len(s) \in Nat
      /\ \A i \in 1..Len(s) : a[i] = s[i]
      /\ a[Len(s) + 1] = e
  OBVIOUS
<1> HIDE DEF a
<1>2. ASSUME NEW x \in Range(a) PROVE x \in Range(s) \cup {e}
  <2>1. PICK i \in 1..(Len(s) + 1) : a[i] = x
    BY <1>1, Elements
  <2>2. i \in 1..Len(s) \/ i = Len(s) + 1
    BY <1>1
  <2> QED
    BY <1>1, <2>1, <2>2, Elements, Zenon
<1>3. ASSUME NEW x \in Range(s) PROVE x \in Range(a)
  <2>1. PICK i \in 1..Len(s) : s[i] = x
    BY Elements, Zenon
  <2>2. i \in 1..(Len(s) + 1) /\ a[i] = x
    BY <1>1, <2>1
  <2> QED
    BY <1>1, <2>2, Elements, Zenon
<1>4. e \in Range(a)
  <2>1. Len(s) + 1 \in 1..Len(a)
    BY <1>1
  <2> QED
    BY <1>1, <2>1, Elements, Zenon
<1> QED
  BY <1>1, <1>2, <1>3, <1>4, Zenon DEF a

\* The first elements of a sequence
LEMMA Front ==
    ASSUME NEW S, NEW s \in Seq(S), NEW n \in 0..Len(s)
    PROVE  LET front == SubSeq(s, 1, n) IN
           /\ front \in Seq(S) /\ Range(front) \subseteq Range(s)
           /\ \A i \in 1..n : s[i] \in Range(front)
<1> DEFINE front == SubSeq(s, 1, n)
<1>1. Len(s) \in Nat /\ n \in Nat /\ \A i \in 1..Len(s) : s[i] \in S
  BY LenProperties, ElementOfSeq
<1>2. \A i \in 1..n : s[i] \in S
  BY <1>1
<1>3. /\ front \in Seq(S) /\ Len(front) = IF 1 <= n THEN n - 1 + 1 ELSE 0
      /\ \A i \in 1 .. n - 1 + 1 : front[i] = s[1 + i - 1]
  BY <1>1, <1>2, SubSeqProperties
<1>4. Len(front) = n /\ \A i \in 1..n : front[i] = s[i]
  BY <1>1, <1>3
<1> HIDE DEF front
<1>5. \A i \in 1..n : s[i] \in Range(front)
  BY <1>3, <1>4, Elements, Zenon
<1>6. ASSUME NEW x \in Range(front) PROVE x \in Range(s)
  <2>1. PICK i \in 1..n : front[i] = x
    BY <1>3, <1>4, Elements
  <2>2. i \in 1..Len(s) /\ s[i] = x
    BY <1>1, <1>4, <2>1
  <2> QED
    BY <2>2, Elements, Zenon
<1> QED
  BY <1>3, <1>5, <1>6, Zenon DEF front

\* A sequence cut in two
LEMMA Cut ==
    ASSUME NEW S, NEW s \in Seq(S), NEW n \in 1..Len(s)
    PROVE  LET front == SubSeq(s, 1, n)
               rest  == SubSeq(s, n + 1, Len(s))
           IN  /\ rest \in Seq(S) /\ Len(rest) <= Len(s) - 1
               /\ Range(front) \cup Range(rest) = Range(s)
<1> DEFINE front == SubSeq(s, 1, n)
           rest  == SubSeq(s, n + 1, Len(s))
<1>1. Len(s) \in Nat /\ n \in Nat /\ n \in 0..Len(s) /\ 1 <= n
  BY LenProperties
<1>2. /\ rest \in Seq(S) /\ Range(rest) \subseteq Range(s)
      /\ Len(rest) = IF n < Len(s) THEN Len(s) - n ELSE 0
      /\ \A x \in Range(s) : x \in Range(rest) \/ \E i \in 1..Len(s) : i <= n /\ s[i] = x
  BY <1>1, Rest, SMTT(30)
<1>3. Range(front) \subseteq Range(s) /\ \A i \in 1..n : s[i] \in Range(front)
  BY <1>1, Front, Zenon
<1> HIDE DEF rest, front
<1>4. Len(rest) <= Len(s) - 1
  BY <1>1, <1>2
<1>5. \A i \in 1..Len(s) : i <= n => i \in 1..n
  BY <1>1
<1>6. \A x \in Range(s) : x \in Range(front) \cup Range(rest)
  BY <1>2, <1>3, <1>5, Zenon
<1>7. Range(front) \cup Range(rest) = Range(s)
  BY <1>2, <1>3, <1>6, Zenon
<1> QED
  BY <1>2, <1>4, <1>7, Zenon DEF rest, front

-----------------------------------------------------------------------------
(* The inotify instance *)

\* The kernel's events are events.
LEMMA EventOK ==
    ASSUME NEW wd \in Nat \ {0}, NEW mask \in Masks \ {"Q_OVERFLOW"}, NEW name \in Names \cup {NoName},
           mask \in Naming => name \in Names, NEW cookie \in Nat
    PROVE  Event(wd, mask, name, cookie) \in Events
<1> DEFINE e == Event(wd, mask, name, cookie)
<1>1. /\ e \in [wd : Int, mask : Masks, name : Names \cup {NoName}, cookie : Nat]
      /\ e.wd = wd /\ e.mask = mask /\ e.name = name
  BY DEF Event
<1>2. wd > 0 /\ mask # "Q_OVERFLOW"
  OBVIOUS
<1> HIDE DEF e
<1> QED
  BY <1>1, <1>2, Zenon DEF Events, e

\* The event that rm_watch and the end of a watch queue
LEMMA IgnoredOK ==
    ASSUME NEW wd \in Nat \ {0}
    PROVE  /\ Event(wd, "IGNORED", NoName, 0) \in Events
           /\ Event(wd, "IGNORED", NoName, 0).mask = "IGNORED"
<1> DEFINE ignored == "IGNORED"
           name    == NoName
           cookie  == 0
<1>1. ignored \in Masks \ {"Q_OVERFLOW"} /\ ignored \notin Naming
  BY Zenon DEF Masks, Naming
<1>2. name \in Names \cup {NoName} /\ cookie \in Nat
  BY Zenon
<1> HIDE DEF ignored, name, cookie
<1>3. Event(wd, ignored, name, cookie) \in Events
  BY <1>1, <1>2, EventOK, Zenon
<1>4. Event(wd, ignored, name, cookie).mask = ignored
  BY Zenon DEF Event
<1> QED
  BY <1>3, <1>4, Zenon DEF ignored, name, cookie

\* The event the kernel queues instead of what does not fit
LEMMA OverflowOK == Overflow \in Events /\ Overflow.mask = "Q_OVERFLOW" /\ Overflow.wd = -1
<1>1. /\ Overflow \in [wd : Int, mask : Masks, name : Names \cup {NoName}, cookie : Nat]
      /\ Overflow.mask = "Q_OVERFLOW" /\ Overflow.wd = -1
  BY DEF Overflow, Masks
<1> QED
  BY <1>1, Zenon DEF Events

\* An event is queued, or was the last one, or there is an overflow event.
LEMMA Enqueued ==
    ASSUME NEW q, QueueOK(q), NEW e \in Events
    PROVE  LET q2 == Enqueue(q, e) IN
           /\ QueueOK(q2) /\ Range(q) \subseteq Range(q2)
           /\ Range(q2) \subseteq Range(q) \cup {e, Overflow}
           /\ e \in Range(q2) \/ Overflow \in Range(q2)
<1> DEFINE q2 == Enqueue(q, e)
<1>1. q \in Seq(Events) /\ Len(q) \in Nat /\ MaxQueue \in Nat \ {0}
  BY InotifyAssumption DEF QueueOK
<1>2. CASE q # << >> /\ q[Len(q)] = e
  <2>1. q2 = q
    BY <1>2, Zenon DEF Enqueue
  <2>2. Len(q) \in 1..Len(q)
    BY <1>1, <1>2
  <2>3. e \in Range(q)
    BY <1>1, <1>2, <2>2, Elements, Zenon
  <2> QED
    BY <2>1, <2>3, Zenon
<1>3. CASE ~(q # << >> /\ q[Len(q)] = e) /\ Len(q) < MaxQueue
  <2>1. q2 = Append(q, e)
    BY <1>3, Zenon DEF Enqueue
  <2>2. /\ Append(q, e) \in Seq(Events) /\ Len(Append(q, e)) = Len(q) + 1
        /\ Range(Append(q, e)) = Range(q) \cup {e}
    BY <1>1, Appended
  <2>3. Len(q) + 1 <= MaxQueue
    BY <1>1, <1>3
  <2> QED
    BY <2>1, <2>2, <2>3, Zenon DEF QueueOK
<1>4. CASE ~(q # << >> /\ q[Len(q)] = e) /\ ~(Len(q) < MaxQueue) /\ Overflow \in Range(q)
  BY <1>4, Zenon DEF Enqueue
<1>5. CASE ~(q # << >> /\ q[Len(q)] = e) /\ ~(Len(q) < MaxQueue) /\ Overflow \notin Range(q)
  <2>1. q2 = Append(q, Overflow)
    BY <1>5, Zenon DEF Enqueue
  <2>2. /\ Append(q, Overflow) \in Seq(Events) /\ Len(Append(q, Overflow)) = Len(q) + 1
        /\ Range(Append(q, Overflow)) = Range(q) \cup {Overflow}
    BY <1>1, Appended, OverflowOK
  <2>3. Len(q) = MaxQueue
    BY <1>1, <1>5 DEF QueueOK
  <2> QED
    BY <2>1, <2>2, <2>3, Zenon DEF QueueOK
<1> QED
  BY <1>2, <1>3, <1>4, <1>5, ZenonT(30)

\* The same for a sequence of events
LEMMA AllEnqueued ==
    ASSUME NEW q, QueueOK(q), NEW e \in Seq(Events)
    PROVE  LET q2 == EnqueueAll(q, e) IN
           /\ QueueOK(q2) /\ Range(q) \subseteq Range(q2)
           /\ Range(q2) \subseteq Range(q) \cup Range(e) \cup {Overflow}
<1> DEFINE room == IF Len(q) < MaxQueue THEN MaxQueue - Len(q) ELSE 0
           some == SubSeq(e, 1, room)
           q2   == EnqueueAll(q, e)
<1>1. q \in Seq(Events) /\ Len(q) \in Nat /\ Len(e) \in Nat /\ MaxQueue \in Nat \ {0} /\ room \in Nat
  <2>1. q \in Seq(Events) /\ MaxQueue \in Nat \ {0}
    BY InotifyAssumption, Zenon DEF QueueOK
  <2> QED
    BY <2>1
<1>2. Len(q) < MaxQueue => Len(q) + room = MaxQueue
  BY <1>1
<1>3. ~(Len(q) < MaxQueue) => room = 0
  BY Zenon
<1> HIDE DEF room
<1>4. CASE Len(e) <= room
  <2>1. q2 = q \o e
    BY <1>4, Zenon DEF EnqueueAll, room
  <2>2. q \o e \in Seq(Events) /\ Len(q \o e) = Len(q) + Len(e) /\ Range(q \o e) = Range(q) \cup Range(e)
    BY <1>1, Joined
  <2>3. CASE Len(q) < MaxQueue
    <3>1. Len(q) + Len(e) <= MaxQueue
      BY <1>1, <1>2, <1>4, <2>3
    <3> QED
      BY <2>1, <2>2, <3>1, Zenon DEF QueueOK
  <2>4. CASE ~(Len(q) < MaxQueue)
    <3>1. Len(q) + Len(e) = Len(q)
      BY <1>1, <1>3, <1>4, <2>4
    <3> QED
      BY <2>1, <2>2, <3>1, Zenon DEF QueueOK
  <2> QED
    BY <2>3, <2>4, Zenon
<1>5. CASE ~(Len(e) <= room)
  <2>1. /\ some \in Seq(Events) /\ Len(some) = room /\ Range(some) \subseteq Range(e)
    <3>1. \A i \in 1..room : i \in 1..Len(e) /\ e[i] \in Events
      BY <1>1, <1>5, ElementOfSeq
    <3>2. /\ some \in Seq(Events) /\ Len(some) = IF 1 <= room THEN room - 1 + 1 ELSE 0
          /\ \A i \in 1 .. room - 1 + 1 : some[i] = e[1 + i - 1]
      BY <1>1, <3>1, SubSeqProperties
    <3>3. Len(some) = room /\ \A i \in 1..room : some[i] = e[i]
      BY <1>1, <3>2
    <3> HIDE DEF some
    <3>4. ASSUME NEW x \in Range(some) PROVE x \in Range(e)
      <4>1. PICK i \in 1..room : some[i] = x
        BY <3>2, <3>3, Elements
      <4>2. i \in 1..Len(e) /\ e[i] = x
        BY <3>1, <3>3, <4>1, Zenon
      <4> QED
        BY <4>2, Elements, Zenon
    <3> QED
      BY <3>2, <3>3, <3>4, Zenon
  <2> HIDE DEF some
  <2> DEFINE qs == q \o some
  <2>2. qs \in Seq(Events) /\ Len(qs) = Len(q) + room /\ Range(qs) = Range(q) \cup Range(some)
    BY <1>1, <2>1, Joined
  <2>3. q2 = IF Overflow \in Range(q) THEN qs ELSE Append(qs, Overflow)
    BY <1>5, Zenon DEF EnqueueAll, room, some
  <2> HIDE DEF qs, q2
  <2>4. CASE Overflow \in Range(q)
    <3>1. Len(qs) <= MaxQueue \/ Len(qs) = Len(q)
      BY <1>1, <1>2, <1>3, <2>2
    <3>2. QueueOK(qs)
      BY <2>2, <2>4, <3>1, Zenon DEF QueueOK
    <3> QED
      BY <2>1, <2>2, <2>3, <2>4, <3>2, ZenonT(30) DEF q2
  <2>5. CASE Overflow \notin Range(q)
    <3>1. /\ Append(qs, Overflow) \in Seq(Events) /\ Len(Append(qs, Overflow)) = Len(qs) + 1
          /\ Range(Append(qs, Overflow)) = Range(qs) \cup {Overflow}
      BY <2>2, Appended, OverflowOK
    <3>2. Len(q) <= MaxQueue
      BY <2>5, Zenon DEF QueueOK
    <3>3. Len(qs) = MaxQueue
      BY <1>1, <1>2, <1>3, <2>2, <3>2
    <3>4. QueueOK(Append(qs, Overflow))
      BY <3>1, <3>3, Zenon DEF QueueOK
    <3> QED
      BY <2>1, <2>2, <2>3, <2>5, <3>1, <3>4, ZenonT(30) DEF q2
  <2> QED
    BY <2>4, <2>5, Zenon
<1> QED
  BY <1>4, <1>5, Zenon

\* What DropWatch and Deliver may do to an instance whose watches are OK:
\* only watches that end are lost, and each leaves an event or an overflow.
Lossless(in, in2) ==
    /\ InstOK(in2) /\ in2.next = in.next
    /\ DOMAIN in2.watch \subseteq DOMAIN in.watch
    /\ \A i \in DOMAIN in2.watch : in2.watch[i] = in.watch[i]
    /\ Range(in.queue) \subseteq Range(in2.queue)
    /\ \A e \in Range(in2.queue) \ Range(in.queue) :
          e.mask \in Ending => e.wd \in 1..(in.next - 1) /\ ~Watched(in2, e.wd)
    /\ \A i \in DOMAIN in.watch \ DOMAIN in2.watch :
          \/ Overflow \in Range(in2.queue)
          \/ \E e \in Range(in2.queue) : e.wd = in.watch[i] /\ e.mask \in Ending

\* The two masks of Ending, and those of the events that are dropped unread
LEMMA EndingMasks ==
    /\ Ending \subseteq Masks \ {"Q_OVERFLOW", "IGNORED", "CREATE", "MOVED_TO", "MOVED_FROM", "MOVE_SELF"}
    /\ Ending \cap Naming = {}
  BY Zenon DEF Ending, Masks, Naming

\* Queueing other events, and removing some of the watches
LEMMA Trimmed ==
    ASSUME NEW in, InstOK(in), NEW D \in SUBSET DOMAIN in.watch,
           NEW in2, in2.watch = Restrict(in.watch, D), in2.next = in.next, QueueOK(in2.queue)
    PROVE  InstOK(in2) /\ DOMAIN in2.watch = D /\ \A i \in D : in2.watch[i] = in.watch[i]
<1> DEFINE w == in2.watch
<1>1. w = [i \in D |-> in.watch[i]]
  BY Zenon DEF Restrict
<1> HIDE DEF w
<1>2. in.watch \in [DOMAIN in.watch -> 1..(in.next - 1)]
  BY Zenon DEF InstOK
<1>3. DOMAIN w = D /\ w \in [D -> 1..(in.next - 1)] /\ \A i \in D : w[i] = in.watch[i]
  BY <1>1, <1>2, Zenon
<1> QED
  BY <1>3, Zenon DEF InstOK, w

\* An operation of the mutators loses nothing.
LEMMA Delivered ==
    ASSUME NEW in, InstOK(in), NEW r, RawOK(r)
    PROVE  Lossless(in, Deliver(in, r))
<1> DEFINE i  == r.ino
           wd == in.watch[i]
           e  == Event(wd, r.mask, r.name, r.cookie)
           q1 == Enqueue(in.queue, e)
           in1 == Queued(in, q1)
<1>1. QueueOK(in.queue)
  BY Zenon DEF InstOK
<1>2. CASE i \notin DOMAIN in.watch \/ (r.mask = "MOVE_SELF" /\ i \notin in.self)
  <2>1. Deliver(in, r) = in
    BY <1>2, Zenon DEF Deliver
  <2> QED
    BY <2>1, Zenon DEF Lossless
<1>3. CASE ~(i \notin DOMAIN in.watch \/ (r.mask = "MOVE_SELF" /\ i \notin in.self))
  <2>1. wd \in Nat \ {0} /\ wd \in 1..(in.next - 1) /\ i \in DOMAIN in.watch
    BY <1>3 DEF InstOK
  <2>2. e \in Events
    <3>1. /\ r.mask \in Masks \ {"Q_OVERFLOW"} /\ r.name \in Names \cup {NoName} /\ r.cookie \in Nat
          /\ r.mask \in Naming => r.name \in Names
      BY Zenon DEF RawOK
    <3> QED
      BY <2>1, <3>1, EventOK, Zenon
  <2>3. e.wd = wd /\ e.mask = r.mask
    BY Zenon DEF Event
  <2>4. Deliver(in, r) = IF r.mask \in Ending THEN DropWatch(in1, i) ELSE in1
    BY <1>3, Zenon DEF Deliver, Ending
  <2>5. /\ QueueOK(q1) /\ Range(in.queue) \subseteq Range(q1)
        /\ Range(q1) \subseteq Range(in.queue) \cup {e, Overflow}
        /\ e \in Range(q1) \/ Overflow \in Range(q1)
    BY <1>1, <2>2, Enqueued, Zenon
  <2> HIDE DEF e, q1
  <2>6. in1.next = in.next /\ in1.queue = q1 /\ in1.watch = in.watch /\ in1.self = in.self
    BY Zenon DEF Queued
  <2> HIDE DEF in1, wd, i
  <2>7. InstOK(in1)
    BY <2>5, <2>6, Zenon DEF InstOK
  <2>8. Overflow.mask \notin Ending
    BY OverflowOK, EndingMasks, Zenon
  <2>9. CASE r.mask \notin Ending
    <3>1. \A x \in Range(q1) \ Range(in.queue) : x.mask \notin Ending
      BY <2>3, <2>5, <2>8, <2>9, Zenon
    <3>2. Lossless(in, in1)
      BY <2>5, <2>6, <2>7, <3>1, Zenon DEF Lossless
    <3> QED
      BY <2>4, <2>9, <3>2, Zenon
  <2>10. CASE r.mask \in Ending
    <3> DEFINE g   == Event(wd, "IGNORED", NoName, 0)
               q2  == Enqueue(q1, g)
               D   == DOMAIN in.watch \ {i}
               in2 == DropWatch(in1, i)
    <3>1. in2.watch = Restrict(in1.watch, D) /\ in2.next = in1.next /\ in2.queue = q2
      BY <2>6, Zenon DEF DropWatch, wd
    <3>2. g \in Events /\ g.mask = "IGNORED"
      BY <2>1, IgnoredOK, Zenon
    <3> HIDE DEF g
    <3>3. /\ QueueOK(q2) /\ Range(q1) \subseteq Range(q2)
          /\ Range(q2) \subseteq Range(q1) \cup {g, Overflow}
      BY <2>5, <3>2, Enqueued, Zenon
    <3> HIDE DEF q2
    <3>4. D \in SUBSET DOMAIN in1.watch
      BY <2>6, Zenon
    <3> HIDE DEF D, in2
    <3>5. InstOK(in2) /\ DOMAIN in2.watch = D /\ \A k \in D : in2.watch[k] = in1.watch[k]
      <4>1. in2.watch = Restrict(in1.watch, D) /\ in2.next = in1.next /\ QueueOK(in2.queue)
        BY <3>1, <3>3, Zenon
      <4> QED
        BY <2>7, <3>4, <4>1, Trimmed, ZenonT(30)
    <3>6. ~Watched(in2, wd)
      <4>1. \A k \in D : in.watch[k] # wd
        BY <2>1, Zenon DEF InstOK, D, wd
      <4> QED
        BY <2>6, <3>5, <4>1, Zenon DEF Watched
    <3>7. \A x \in Range(q2) \ Range(in.queue) : x.mask \in Ending => x.wd = wd
      <4>1. g.mask \notin Ending
        BY <3>2, EndingMasks, Zenon
      <4> QED
        BY <2>3, <2>5, <2>8, <3>3, <4>1, ZenonT(30)
    <3>8. \/ Overflow \in Range(q2)
          \/ \E x \in Range(q2) : x.wd = wd /\ x.mask \in Ending
      BY <2>3, <2>5, <2>10, <3>3, Zenon
    <3>9. \A k \in DOMAIN in.watch \ D : in.watch[k] = wd
      BY Zenon DEF D, wd
    <3>10. D \subseteq DOMAIN in.watch /\ \A k \in D : in2.watch[k] = in.watch[k]
      BY <2>6, <3>4, <3>5, Zenon
    <3>11. Range(in.queue) \subseteq Range(q2)
      BY <2>5, <3>3, Zenon
    <3>12. in2.next = in.next /\ in2.queue = q2
      BY <2>6, <3>1, Zenon
    <3>13. Lossless(in, in2)
      BY <2>1, <3>5, <3>6, <3>7, <3>8, <3>9, <3>10, <3>11, <3>12, ZenonT(30) DEF Lossless
    <3> QED
      BY <2>4, <2>10, <3>13, Zenon DEF in2
  <2> QED
    BY <2>9, <2>10, Zenon
<1> QED
  BY <1>2, <1>3, Zenon

\* inotify_rm_watch removes exactly the watches it is called for.
LEMMA Removed ==
    ASSUME NEW in, InstOK(in), NEW wds \in Seq(Nat \ {0})
    PROVE  LET in2 == RmWatches(in, wds) IN
           /\ InstOK(in2) /\ in2.next = in.next
           /\ DOMAIN in2.watch = {i \in DOMAIN in.watch : in.watch[i] \notin Range(wds)}
           /\ \A i \in DOMAIN in2.watch : in2.watch[i] = in.watch[i]
           /\ Range(in.queue) \subseteq Range(in2.queue)
           /\ \A e \in Range(in2.queue) \ Range(in.queue) : e.mask \notin Ending
<1> DEFINE gone == {i \in DOMAIN in.watch : in.watch[i] \in Range(wds)}
           D    == DOMAIN in.watch \ gone
           es   == [k \in DOMAIN wds |-> Event(wds[k], "IGNORED", NoName, 0)]
           q2   == EnqueueAll(in.queue, es)
           in2  == RmWatches(in, wds)
<1>1. in2.watch = Restrict(in.watch, D) /\ in2.next = in.next /\ in2.queue = q2
  BY Zenon DEF RmWatches
<1>2. D = {i \in DOMAIN in.watch : in.watch[i] \notin Range(wds)} /\ D \in SUBSET DOMAIN in.watch
  BY Zenon
<1>3. es \in Seq(Events) /\ \A e \in Range(es) : e.mask = "IGNORED"
  <2>1. DOMAIN wds = 1..Len(wds) /\ Len(wds) \in Nat /\ \A k \in 1..Len(wds) : wds[k] \in Nat \ {0}
    BY LenProperties, ElementOfSeq, Zenon
  <2>2. \A k \in 1..Len(wds) : es[k] \in Events /\ es[k].mask = "IGNORED"
    BY <2>1, IgnoredOK, Zenon
  <2>3. es = [k \in 1..Len(wds) |-> es[k]]
    BY <2>1, Zenon
  <2> HIDE DEF es
  <2>4. es \in [1..Len(wds) -> Events]
    BY <2>2, <2>3, Zenon
  <2>5. es \in Seq(Events)
    BY <2>1, <2>4, SeqDef
  <2>6. DOMAIN es = 1..Len(wds)
    BY <2>4, Zenon
  <2> QED
    BY <2>2, <2>5, <2>6, Zenon DEF Range
<1> HIDE DEF D, es
<1>4. QueueOK(in.queue)
  BY Zenon DEF InstOK
<1>5. /\ QueueOK(q2) /\ Range(in.queue) \subseteq Range(q2)
      /\ Range(q2) \subseteq Range(in.queue) \cup Range(es) \cup {Overflow}
  BY <1>3, <1>4, AllEnqueued, Zenon
<1> HIDE DEF q2, in2
<1>6. QueueOK(in2.queue)
  BY <1>1, <1>5, Zenon
<1>7. InstOK(in2) /\ DOMAIN in2.watch = D /\ \A i \in D : in2.watch[i] = in.watch[i]
  <2>1. in2.watch = Restrict(in.watch, D) /\ in2.next = in.next
    BY <1>1, Zenon
  <2>2. D \in SUBSET DOMAIN in.watch
    BY <1>2, Zenon
  <2> QED
    BY <1>6, <2>1, <2>2, Trimmed, Zenon
<1>8. Overflow.mask \notin Ending /\ "IGNORED" \notin Ending
  BY OverflowOK, EndingMasks, Zenon
<1>9. \A e \in Range(q2) \ Range(in.queue) : e.mask \notin Ending
  BY <1>3, <1>5, <1>8, Zenon
<1> QED
  BY <1>1, <1>2, <1>5, <1>7, <1>9, Zenon DEF in2

\* A new watch has a new descriptor, the others keep theirs.
LEMMA Added ==
    ASSUME NEW in, InstOK(in), NEW i, NEW self
    PROVE  LET in2 == AddWatch(in, i, self) IN
           /\ InstOK(in2) /\ in2.queue = in.queue /\ in2.next >= in.next
           /\ DOMAIN in2.watch = DOMAIN in.watch \cup {i}
           /\ \A k \in DOMAIN in.watch : in2.watch[k] = in.watch[k]
           /\ i \notin DOMAIN in.watch => in2.watch[i] = in.next
<1> DEFINE in2 == AddWatch(in, i, self)
           D   == DOMAIN in.watch \cup {i}
<1>1. in.next \in Nat \ {0} /\ in.watch \in [DOMAIN in.watch -> 1..(in.next - 1)]
  BY Zenon DEF InstOK
<1>2. CASE i \in DOMAIN in.watch
  <2>1. in2.watch = in.watch /\ in2.next = in.next /\ in2.queue = in.queue
    BY <1>2, Zenon DEF AddWatch
  <2> HIDE DEF in2
  <2>2. InstOK(in2)
    BY <2>1, ZenonT(30) DEF InstOK
  <2> QED
    BY <1>1, <1>2, <2>1, <2>2 DEF in2
<1>3. CASE i \notin DOMAIN in.watch
  <2>1. /\ in2.watch = [j \in D |-> IF j = i THEN in.next ELSE in.watch[j]]
        /\ in2.next = in.next + 1 /\ in2.queue = in.queue
    BY <1>3, Zenon DEF AddWatch
  <2> HIDE DEF in2
  <2>2. /\ DOMAIN in2.watch = D /\ in2.watch[i] = in.next
        /\ \A k \in DOMAIN in.watch : in2.watch[k] = in.watch[k]
    BY <1>3, <2>1, Zenon
  <2>3. \A k \in D : in2.watch[k] \in 1..(in2.next - 1)
    BY <1>1, <2>1, <2>2, SMTT(30)
  <2>4. in2.watch \in [D -> 1..(in2.next - 1)]
    <3>1. in2.watch = [j \in D |-> in2.watch[j]]
      BY <2>1, Zenon
    <3> QED
      BY <2>3, <3>1, Zenon
  <2>5. \A k, l \in D : in2.watch[k] = in2.watch[l] => k = l
    <3>1. \A k \in DOMAIN in.watch : in.watch[k] # in.next
      BY <1>1
    <3> QED
      BY <2>2, <3>1, Zenon DEF InstOK
  <2>6. InstOK(in2)
    BY <1>1, <2>1, <2>2, <2>4, <2>5, SMTT(30) DEF InstOK
  <2> QED
    BY <1>1, <1>3, <2>1, <2>2, <2>6, SMTT(30) DEF in2
<1> QED
  BY <1>2, <1>3, Zenon

-----------------------------------------------------------------------------
(* The cache *)

\* A slot is in use exactly if its descriptor is positive.
LEMMA UsedSlots ==
    ASSUME NEW c, CacheOK(c)
    PROVE  /\ Len(c) \in Nat /\ DOMAIN c = 1..Len(c)
           /\ \A j \in 1..Len(c) : /\ c[j] \in [wd : Int, path : Seq(Names)]
                                   /\ j \in Used(c) <=> c[j] # Empty
                                   /\ c[j] = Empty => c[j].wd = -1
                                   /\ c[j] # Empty => c[j].wd \in Nat \ {0}
<1>1. c \in Seq([wd : Int, path : Seq(Names)])
  BY Zenon DEF CacheOK
<1>2. Len(c) \in Nat /\ DOMAIN c = 1..Len(c) /\ \A j \in 1..Len(c) : c[j] \in [wd : Int, path : Seq(Names)]
  <2> DEFINE S == [wd : Int, path : Seq(Names)]
  <2>1. c \in Seq(S)
    BY <1>1, Zenon
  <2> HIDE DEF S
  <2>2. Len(c) \in Nat /\ DOMAIN c = 1..Len(c) /\ \A j \in 1..Len(c) : c[j] \in S
    BY <2>1, LenProperties, ElementOfSeq, Zenon
  <2> QED
    BY <2>2, Zenon DEF S
<1>3. Empty.wd = -1
  BY Zenon DEF Empty
<1>4. \A j \in 1..Len(c) : c[j] = Empty \/ c[j].wd \in Nat \ {0}
  <2>1. ASSUME NEW j \in 1..Len(c) PROVE c[j] = Empty \/ c[j].wd \in Nat \ {0}
    <3>1. c[j] = Empty \/ c[j] \in [wd : Nat \ {0}, path : Seq(Names)]
      BY <2>1, Zenon DEF CacheOK, SlotOK
    <3> QED
      BY <3>1, Zenon
  <2> QED
    BY <2>1, Zenon
<1>5. \A j \in 1..Len(c) : j \in Used(c) <=> c[j] # Empty
  BY <1>2, <1>3, <1>4 DEF Used
<1> QED
  BY <1>2, <1>3, <1>4, <1>5, Zenon

\* InOrder lists the descriptors of the slots, all of them.
LEMMA Listed ==
    ASSUME CacheOK(wlCache), NEW slots \in SUBSET Used(wlCache)
    PROVE  /\ InOrder(slots) \in Seq(Nat \ {0})
           /\ Range(InOrder(slots)) = {wlCache[j].wd : j \in slots}
<1> DEFINE n == Cardinality(slots)
           below(j) == {i \in slots : i <= j}
           rank == [j \in slots |-> Cardinality(below(j))]
           at(k) == CHOOSE j \in slots : Cardinality({i \in slots : i <= j}) = k
           wds == InOrder(slots)
<1>1. /\ slots \subseteq 1..Len(wlCache) /\ Len(wlCache) \in Nat
      /\ \A j \in slots : wlCache[j].wd \in Nat \ {0} /\ j \in Nat
  <2>1. /\ Len(wlCache) \in Nat
        /\ \A j \in 1..Len(wlCache) : j \in Used(wlCache) => wlCache[j].wd \in Nat \ {0}
    BY UsedSlots, Zenon
  <2>2. slots \subseteq 1..Len(wlCache)
    BY Zenon DEF Used
  <2>3. ASSUME NEW j \in slots PROVE wlCache[j].wd \in Nat \ {0} /\ j \in Nat
    <3>1. j \in 1..Len(wlCache) /\ j \in Used(wlCache)
      BY <2>2, Zenon
    <3>2. wlCache[j].wd \in Nat \ {0}
      BY <2>1, <3>1, Zenon
    <3> QED
      BY <2>1, <3>1, <3>2
  <2> QED
    BY <2>1, <2>2, <2>3, Zenon
<1>2. IsFiniteSet(slots) /\ n \in Nat
  <2>1. IsFiniteSet(1..Len(wlCache))
    BY <1>1, FS_Interval
  <2>2. IsFiniteSet(slots)
    BY <1>1, <2>1, FS_Subset, Zenon
  <2> QED
    BY <2>2, FS_CardinalityType, Zenon
<1>3. ASSUME NEW j \in slots PROVE Cardinality(below(j)) \in 1..n
  <2>1. below(j) \in SUBSET slots /\ j \in below(j)
    BY <1>1
  <2> HIDE DEF below
  <2>2. IsFiniteSet(below(j)) /\ Cardinality(below(j)) <= n
    BY <1>2, <2>1, FS_Subset, Zenon
  <2>3. Cardinality(below(j)) \in Nat /\ Cardinality(below(j)) # 0
    BY <2>1, <2>2, FS_CardinalityType, FS_EmptySet, ZenonT(30)
  <2> DEFINE c == Cardinality(below(j))
  <2>4. n \in Nat /\ c \in Nat /\ c # 0 /\ c <= n
    BY <1>2, <2>2, <2>3, Zenon
  <2> HIDE DEF c, n
  <2>5. c \in 1..n
    BY <2>4
  <2> QED
    BY <2>5, Zenon DEF c
<1>4. ASSUME NEW i \in slots, NEW j \in slots, i < j PROVE Cardinality(below(i)) # Cardinality(below(j))
  <2>1. below(i) \in SUBSET below(j) /\ j \in below(j) /\ j \notin below(i) /\ below(j) \in SUBSET slots
    <3>1. i \in Nat /\ \A k \in slots : k \in Nat
      BY <1>1, Zenon
    <3>2. (\A k \in slots : k <= i => k <= j) /\ j <= j /\ ~(j <= i)
      BY <1>4, <3>1
    <3> QED
      BY <3>2, Zenon
  <2> HIDE DEF below
  <2>2. IsFiniteSet(below(j))
    BY <1>2, <2>1, FS_Subset, Zenon
  <2> QED
    BY <2>1, <2>2, FS_Subset, Zenon
<1>5. rank \in [slots -> 1..n] /\ \A j \in slots : rank[j] = Cardinality(below(j))
  BY <1>3, Zenon
<1>6. \A i, j \in slots : rank[i] = rank[j] => i = j
  BY <1>1, <1>4, <1>5
<1> HIDE DEF rank
<1>7. \A k \in 1..n : \E j \in slots : rank[j] = k
  <2>1. rank \in Injection(slots, 1..n)
    BY <1>5, <1>6, Zenon DEF Injection, IsInjective
  <2>2. IsFiniteSet(1..n) /\ Cardinality(1..n) = n
    BY <1>2, FS_Interval
  <2>3. rank \in Surjection(slots, 1..n)
    BY <2>1, <2>2, FS_Injection, Zenon
  <2> QED
    BY <2>3, Zenon DEF Surjection
<1>8. ASSUME NEW k \in 1..n PROVE at(k) \in slots /\ rank[at(k)] = k
  <2>1. \E j \in slots : Cardinality({i \in slots : i <= j}) = k
    BY <1>5, <1>7, Zenon
  <2>2. at(k) \in slots /\ Cardinality({i \in slots : i <= at(k)}) = k
    BY <2>1, Zenon
  <2> HIDE DEF at
  <2> QED
    BY <1>5, <2>2, Zenon
<1>9. wds = [k \in 1..n |-> wlCache[at(k)].wd]
  BY Zenon DEF InOrder
<1> HIDE DEF wds, at, below
<1>10. \A k \in 1..n : wds[k] = wlCache[at(k)].wd
  BY <1>9, Zenon
<1>11. wds \in [1..n -> Nat \ {0}] /\ DOMAIN wds = 1..n
  BY <1>1, <1>8, <1>9, Zenon
<1>12. wds \in Seq(Nat \ {0})
  BY <1>2, <1>11, SeqDef, Zenon
<1>13. ASSUME NEW x \in Range(wds) PROVE x \in {wlCache[j].wd : j \in slots}
  <2>1. PICK k \in 1..n : wds[k] = x
    BY <1>11, Zenon DEF Range
  <2> QED
    BY <1>8, <1>10, <2>1, Zenon
<1>14. ASSUME NEW j \in slots PROVE wlCache[j].wd \in Range(wds)
  <2>1. rank[j] \in 1..n
    BY <1>5, Zenon
  <2>2. at(rank[j]) = j
    BY <1>6, <1>8, <2>1, ZenonT(30)
  <2>3. wds[rank[j]] = wlCache[j].wd
    BY <1>10, <2>1, <2>2, ZenonT(30)
  <2> QED
    BY <1>11, <2>1, <2>3, Zenon DEF Range
<1> QED
  BY <1>12, <1>13, <1>14, Zenon DEF wds

\* A set of natural numbers that is not empty has a least element.
LEMMA Least ==
    ASSUME NEW T \in SUBSET Nat, T # {}
    PROVE  \E x \in T : \A y \in T : x <= y
<1> DEFINE R == {ss \in Nat \X Nat : ss[1] < ss[2]}
<1>1. IsWellFoundedOn(R, Nat)
  BY NatLessThanWellFounded, Zenon DEF OpToRel
<1>2. PICK x \in T : \A y \in T : ~ (<<y, x>> \in R)
  <2> HIDE DEF R
  <2> QED
    BY <1>1, WFMin, Zenon
<1>3. \A y \in T : ~ (y < x)
  BY <1>2, Zenon
<1> QED
  BY <1>3

\* findWatch returns the slot of a descriptor, or none if there is none.
LEMMA Found ==
    ASSUME NEW c, CacheOK(c), NEW wd
    PROVE  LET j == findWatch(c, wd) IN
           \/ j = 0 /\ \A k \in 1..Len(c) : c[k].wd # wd
           \/ j > 0 /\ j \in 1..Len(c) /\ c[j].wd = wd
<1>1. Len(c) \in Nat
  BY UsedSlots, Zenon
<1>2. CASE \E j \in 1..Len(c) : c[j].wd = wd
  <2> DEFINE j == CHOOSE j \in 1..Len(c) : c[j].wd = wd
  <2>1. findWatch(c, wd) = j
    BY <1>2, Zenon DEF findWatch
  <2>2. j \in 1..Len(c) /\ c[j].wd = wd
    BY <1>2, Zenon
  <2> HIDE DEF j
  <2> QED
    BY <1>1, <2>1, <2>2
<1>3. CASE ~ \E j \in 1..Len(c) : c[j].wd = wd
  <2>1. findWatch(c, wd) = 0
    BY <1>3, Zenon DEF findWatch
  <2> QED
    BY <1>3, <2>1, Zenon
<1> QED
  BY <1>2, <1>3, Zenon

\* What a cache is made of
LEMMA Cache ==
    ASSUME NEW n \in Nat, NEW c, DOMAIN c = 1..n, c = [j \in 1..n |-> c[j]],
           \A j \in 1..n : SlotOK(c[j]),
           \A i, j \in 1..n : c[i].wd >= 0 /\ c[i].wd = c[j].wd => i = j
    PROVE  CacheOK(c) /\ Len(c) = n
<1> DEFINE S == [wd : Int, path : Seq(Names)]
<1>1. Empty \in S
  BY DEF Empty
<1>2. \A s : SlotOK(s) => s \in S
  BY <1>1 DEF SlotOK
<1>3. c \in [1..n -> S]
  <2> HIDE DEF S
  <2> QED
    BY <1>2, Zenon
<1>4. c \in Seq(S) /\ Len(c) = n
  <2> HIDE DEF S
  <2>1. c \in Seq(S)
    BY <1>3, SeqDef, Zenon
  <2>2. Len(c) \in Nat /\ DOMAIN c = 1..Len(c)
    BY <2>1, LenProperties, Zenon
  <2> QED
    BY <2>1, <2>2
<1>5. \A i, j \in Used(c) : c[i].wd = c[j].wd => i = j
  BY <1>4, Zenon DEF Used
<1> QED
  BY <1>4, <1>5, Zenon DEF CacheOK

Without(c, Z) == [j \in 1..Len(c) |-> IF j \in Z THEN Empty ELSE c[j]]

\* Emptying slots
LEMMA Emptied ==
    ASSUME NEW c, CacheOK(c), NEW Z
    PROVE  CacheOK(Without(c, Z)) /\ WdsOf(Without(c, Z)) = {c[j].wd : j \in Used(c) \ Z}
<1> DEFINE n == Len(c)
           c2 == Without(c, Z)
<1>1. /\ n \in Nat /\ DOMAIN c = 1..n
      /\ \A j \in 1..n : (j \in Used(c) <=> c[j] # Empty) /\ (c[j] # Empty => c[j].wd \in Nat \ {0})
  BY UsedSlots, Zenon
<1>2. \A j \in 1..n : SlotOK(c[j])
  BY Zenon DEF CacheOK
<1>3. \A i, j \in Used(c) : c[i].wd = c[j].wd => i = j
  BY Zenon DEF CacheOK
<1>4. c2 = [j \in 1..n |-> IF j \in Z THEN Empty ELSE c[j]]
  BY Zenon DEF Without
<1>5. Used(c) \subseteq 1..n
  BY Zenon DEF Used
<1> HIDE DEF n, c2
<1>6. DOMAIN c2 = 1..n /\ c2 = [j \in 1..n |-> c2[j]] /\ \A j \in 1..n : c2[j] = IF j \in Z THEN Empty ELSE c[j]
  BY <1>4, Zenon
<1>7. SlotOK(Empty) /\ Empty.wd = -1
  BY Zenon DEF SlotOK, Empty
<1>8. \A j \in 1..n : SlotOK(c2[j])
  BY <1>2, <1>6, <1>7, ZenonT(30)
<1>9. \A j \in 1..n : c2[j].wd >= 0 <=> j \in Used(c) \ Z
  BY <1>1, <1>6, <1>7, SMTT(30)
<1>10. \A j \in Used(c) \ Z : c2[j] = c[j]
  BY <1>5, <1>6, Zenon
<1>11. \A i, j \in 1..n : c2[i].wd >= 0 /\ c2[i].wd = c2[j].wd => i = j
  BY <1>3, <1>9, <1>10, Zenon
<1>12. CacheOK(c2) /\ Len(c2) = n
  BY <1>1, <1>6, <1>8, <1>11, Cache, ZenonT(30)
<1>13. Used(c2) = Used(c) \ Z
  BY <1>5, <1>9, <1>12, ZenonT(30) DEF Used
<1> QED
  BY <1>10, <1>12, <1>13, Zenon DEF WdsOf, c2

\* Adding a descriptor that has no slot
LEMMA Inserted ==
    ASSUME NEW c, CacheOK(c), NEW wd \in Nat \ {0}, NEW path \in Seq(Names),
           \A j \in 1..Len(c) : c[j].wd # wd
    PROVE  LET c2 == addWatchToCache(c, wd, path) IN
           CacheOK(c2) /\ WdsOf(c2) = WdsOf(c) \cup {wd}
<1> DEFINE n == Len(c)
           S == [wd : Int, path : Seq(Names)]
           new == [j \in 1..ALLOC_INCR |-> Empty]
           some == \E j \in 1..n : c[j] = Empty
           grown == IF some THEN c ELSE c \o new
           at == findEmptyCacheSlot(c)
           s  == [wd |-> wd, path |-> path]
           c2 == addWatchToCache(c, wd, path)
<1>1. /\ n \in Nat /\ DOMAIN c = 1..n
      /\ \A j \in 1..n : (j \in Used(c) <=> c[j] # Empty) /\ (c[j] # Empty => c[j].wd \in Nat \ {0})
  BY UsedSlots, Zenon
<1>2. /\ \A j \in 1..n : SlotOK(c[j])
      /\ \A i, j \in Used(c) : c[i].wd = c[j].wd => i = j
      /\ Used(c) \subseteq 1..n /\ c \in Seq(S)
  BY Zenon DEF CacheOK, Used
<1>3. \A j \in 1..n : c[j].wd # wd
  BY Zenon
<1>4. c2 = [grown EXCEPT ![at] = s]
  BY Zenon DEF addWatchToCache
<1>5. SlotOK(Empty) /\ Empty.wd = -1 /\ Empty \in S
  BY DEF SlotOK, Empty
<1>6. SlotOK(s) /\ s.wd = wd
  BY Zenon DEF SlotOK
<1> HIDE DEF s, c2, S
<1>7. PICK m \in Nat : /\ m >= n /\ grown \in [1..m -> S] /\ at \in 1..m
                       /\ \A j \in 1..m : grown[j] = IF j <= n THEN c[j] ELSE Empty
                       /\ grown[at] = Empty
  <2>1. CASE some
    <3> DEFINE E == {j \in 1..n : c[j] = Empty}
    <3>1. PICK x \in E : \A y \in E : x <= y
      <4>1. E \in SUBSET Nat /\ E # {}
        BY <1>1, <2>1
      <4> HIDE DEF E
      <4> QED
        BY <4>1, Least, Zenon
    <3>2. x \in 1..n /\ c[x] = Empty /\ \A k \in 1..(x-1) : c[k] # Empty
      BY <1>1, <3>1
    <3> DEFINE first == CHOOSE j \in 1..n : c[j] = Empty /\ \A k \in 1..(j-1) : c[k] # Empty
    <3>3. first \in 1..n /\ c[first] = Empty
      BY <3>2, Zenon
    <3>4. at = first
      BY <2>1, Zenon DEF findEmptyCacheSlot
    <3>5. grown = c /\ c \in [1..n -> S]
      BY <1>1, <1>2, <2>1, LenProperties, ZenonT(30)
    <3> HIDE DEF first, at, grown, some
    <3>6. n \in Nat /\ n >= n /\ at \in 1..n /\ grown[at] = Empty
      BY <1>1, <3>3, <3>4, <3>5, SMTT(30)
    <3>7. \A j \in 1..n : grown[j] = IF j <= n THEN c[j] ELSE Empty
      BY <1>1, <3>5
    <3> QED
      BY <3>5, <3>6, <3>7, ZenonT(30)
  <2>2. CASE ~some
    <3> DEFINE m == n + ALLOC_INCR
    <3>1. ALLOC_INCR \in Nat \ {0}
      BY InotifyAssumption, Zenon
    <3>2. new \in Seq(S) /\ Len(new) = ALLOC_INCR /\ \A j \in 1..ALLOC_INCR : new[j] = Empty
      <4>1. new \in [1..ALLOC_INCR -> S] /\ \A j \in 1..ALLOC_INCR : new[j] = Empty
        BY <1>5, Zenon
      <4> HIDE DEF new
      <4>2. new \in Seq(S)
        BY <3>1, <4>1, SeqDef, SMTT(30)
      <4>3. DOMAIN new = 1..Len(new) /\ Len(new) \in Nat /\ DOMAIN new = 1..ALLOC_INCR
        BY <4>1, <4>2, LenProperties, Zenon
      <4> QED
        BY <3>1, <4>1, <4>2, <4>3, SMTT(30)
    <3>3. grown = c \o new /\ at = n + 1
      BY <2>2, Zenon DEF findEmptyCacheSlot
    <3> HIDE DEF new, grown, at, some
    <3>4. /\ c \o new \in Seq(S) /\ Len(c \o new) = n + ALLOC_INCR
          /\ \A j \in 1..(n + ALLOC_INCR) : (c \o new)[j] = IF j <= n THEN c[j] ELSE new[j - n]
      BY <1>2, <3>2, ConcatProperties, SMTT(30)
    <3>5. m \in Nat /\ m >= n /\ at \in 1..m /\ at > n
      BY <1>1, <3>1, <3>3, SMTT(30)
    <3>6. grown \in [1..m -> S]
      BY <3>3, <3>4, LenProperties, ZenonT(30)
    <3> HIDE DEF n
    <3>7. \A j \in 1..m : j <= n \/ j - n \in 1..ALLOC_INCR
      BY <1>1, <3>1
    <3>8. \A j \in 1..m : grown[j] = IF j <= n THEN c[j] ELSE Empty
      BY <3>2, <3>3, <3>4, <3>7, ZenonT(30)
    <3>9. grown[at] = Empty
      <4>1. ~(at <= n)
        BY <1>1, <3>3
      <4> QED
        BY <3>5, <3>8, <4>1, ZenonT(30)
    <3> QED
      BY <3>5, <3>6, <3>8, <3>9, Zenon
  <2> QED
    BY <2>1, <2>2, Zenon
<1> HIDE DEF n, grown, at
<1>8. /\ DOMAIN c2 = 1..m /\ c2 = [j \in 1..m |-> c2[j]]
      /\ \A j \in 1..m : c2[j] = IF j = at THEN s ELSE grown[j]
  BY <1>4, <1>7, ZenonT(30)
<1>9. at \notin Used(c)
  BY <1>1, <1>2, <1>7, SMTT(30)
<1>10. \A j \in 1..m : SlotOK(c2[j])
  <2>1. \A j \in 1..m : j <= n => j \in 1..n
    BY <1>1
  <2> QED
    BY <1>1, <1>2, <1>5, <1>6, <1>7, <1>8, <2>1, ZenonT(30)
<1>11. \A j \in Used(c) : j \in 1..m /\ c2[j] = c[j]
  <2>1. \A j \in Used(c) : j \in 1..m /\ j <= n
    BY <1>1, <1>2, <1>7, SMTT(30)
  <2> QED
    BY <1>7, <1>8, <1>9, <2>1, ZenonT(30)
<1>12. \A j \in 1..m : j \in Used(c) \/ j = at \/ c2[j] = Empty
  <2>1. \A j \in 1..m : j <= n => j \in 1..n
    BY <1>1
  <2> QED
    BY <1>1, <1>7, <1>8, <2>1, ZenonT(30)
<1>13. c2[at] = s
  BY <1>7, <1>8, Zenon
<1>14. \A j \in Used(c) : c2[j].wd \in Nat \ {0} /\ c2[j].wd # wd
  BY <1>1, <1>2, <1>3, <1>11, ZenonT(30)
<1>15. \A j \in 1..m : c2[j].wd >= 0 <=> j \in Used(c) \cup {at}
  <2>1. ASSUME NEW j \in 1..m PROVE c2[j].wd >= 0 <=> j \in Used(c) \cup {at}
    <3>1. CASE j \in Used(c)
      BY <1>14, <3>1
    <3>2. CASE j = at
      BY <1>6, <1>13, <3>2, SMTT(30)
    <3>3. CASE j \notin Used(c) /\ j # at
      BY <1>5, <1>12, <3>3, SMTT(30)
    <3> QED
      BY <3>1, <3>2, <3>3, Zenon
  <2> QED
    BY <2>1, Zenon
<1>16. \A i, j \in Used(c) \cup {at} : c2[i].wd = c2[j].wd => i = j
  BY <1>2, <1>6, <1>11, <1>13, <1>14, ZenonT(30)
<1>17. \A i, j \in 1..m : c2[i].wd >= 0 /\ c2[i].wd = c2[j].wd => i = j
  BY <1>15, <1>16, Zenon
<1>18. CacheOK(c2) /\ Len(c2) = m
  BY <1>8, <1>10, <1>17, Cache, ZenonT(30)
<1>19. Used(c2) = Used(c) \cup {at}
  BY <1>7, <1>11, <1>15, <1>18, ZenonT(30) DEF Used
<1> QED
  BY <1>6, <1>11, <1>13, <1>18, <1>19, SMTT(30) DEF WdsOf, c2

\* Renaming keeps every descriptor in its slot.
LEMMA Rewritten ==
    ASSUME NEW c, CacheOK(c), NEW old \in Seq(Names), old # << >>, NEW new \in Seq(Names)
    PROVE  LET c2 == rewriteCachedPaths(c, old, new) IN
           CacheOK(c2) /\ WdsOf(c2) = WdsOf(c)
<1> DEFINE n == Len(c)
           c2 == rewriteCachedPaths(c, old, new)
           S  == [wd : Int, path : Seq(Names)]
<1>1. /\ n \in Nat /\ DOMAIN c = 1..n
      /\ \A j \in 1..n : c[j] \in S /\ (j \in Used(c) <=> c[j] # Empty) /\ (c[j] # Empty => c[j].wd \in Nat \ {0})
  BY UsedSlots, Zenon
<1>2. /\ \A j \in 1..n : SlotOK(c[j])
      /\ \A i, j \in Used(c) : c[i].wd = c[j].wd => i = j
      /\ Used(c) \subseteq 1..n
  BY Zenon DEF CacheOK, Used
<1>3. c2 = [j \in 1..n |-> IF Under(old, c[j].path) THEN [c[j] EXCEPT !.path = Rebase(c[j].path, old, new)] ELSE c[j]]
  BY Zenon DEF rewriteCachedPaths
<1>4. ASSUME NEW j \in 1..n PROVE SlotOK(c2[j]) /\ c2[j].wd = c[j].wd
  <2>1. CASE ~Under(old, c[j].path)
    BY <1>2, <1>3, <2>1, ZenonT(30)
  <2>2. CASE Under(old, c[j].path)
    <3> DEFINE p == c[j].path
               q == Rebase(p, old, new)
               rest == SubSeq(p, Len(old) + 1, Len(p))
    <3>1. p \in Seq(Names) /\ c[j] \in S
      BY <1>1, Zenon
    <3>2. c2[j] = [c[j] EXCEPT !.path = q]
      BY <1>3, <2>2, Zenon
    <3>3. c[j] # Empty
      <4>1. SUFFICES ASSUME c[j] = Empty PROVE FALSE
        BY Zenon
      <4>2. p = << >>
        BY <4>1 DEF Empty
      <4>3. Len(old) <= 0 /\ Len(old) \in Nat
        <5>1. Len(old) <= Len(p)
          BY <2>2, Zenon DEF Under
        <5>2. Len(p) = 0
          BY <4>2
        <5> QED
          BY <5>1, <5>2, LenProperties, Zenon
      <4> QED
        BY <4>3, EmptySeq
    <3>4. c[j].wd \in Nat \ {0}
      BY <1>1, <3>3, Zenon
    <3> HIDE DEF p
    <3>5. rest \in Seq(Names)
      <4>1. Len(old) \in Nat
        BY LenProperties, Zenon
      <4> DEFINE l == Len(old)
      <4> HIDE DEF l
      <4>2. l \in Nat /\ SubSeq(p, l + 1, Len(p)) \in Seq(Names)
        BY <3>1, <4>1, Rest, ZenonT(30) DEF l
      <4> QED
        BY <4>2, Zenon DEF l
    <3>6. q = new \o rest
      BY Zenon DEF Rebase
    <3> HIDE DEF rest, q
    <3>7. q \in Seq(Names)
      BY <3>5, <3>6, ConcatProperties, ZenonT(30)
    <3>8. c2[j] = [wd |-> c[j].wd, path |-> q]
      BY <3>1, <3>2, Zenon
    <3> HIDE DEF c2
    <3> QED
      BY <3>4, <3>7, <3>8, SMTT(30) DEF SlotOK
  <2> QED
    BY <2>1, <2>2, Zenon
<1>5. DOMAIN c2 = 1..n /\ c2 = [j \in 1..n |-> c2[j]]
  BY <1>3, Zenon
<1>6. \A j \in 1..n : c2[j].wd = c[j].wd
  BY <1>4, Zenon
<1>7. \A j \in 1..n : SlotOK(c2[j])
  BY <1>4, Zenon
<1>8. \A j \in 1..n : j \in Used(c) <=> c2[j].wd >= 0
  BY <1>6, Zenon DEF Used
<1> HIDE DEF c2, n
<1>9. \A i, j \in 1..n : c2[i].wd >= 0 /\ c2[i].wd = c2[j].wd => i = j
  BY <1>2, <1>6, <1>8, Zenon
<1>10. CacheOK(c2) /\ Len(c2) = n
  BY <1>1, <1>5, <1>7, <1>9, Cache, ZenonT(30)
<1>11. Used(c2) = Used(c)
  BY <1>2, <1>8, <1>10, Zenon DEF Used
<1> QED
  BY <1>2, <1>6, <1>10, <1>11, SMTT(30) DEF WdsOf, c2

-----------------------------------------------------------------------------
(* What keeps an instance, a cache and the unread events in agreement *)

\* Reading moves events, handling an event drops it.
LEMMA AgreeDropped ==
    ASSUME NEW in, NEW c, NEW U, Agree(in, c, U),
           NEW in2, in2.watch = in.watch, in2.next = in.next, QueueOK(in2.queue),
           NEW U2 \in SUBSET U,
           \A e \in U \ U2 : e # Overflow /\ (e.mask \in Ending => e.wd \notin WdsOf(c))
    PROVE  Agree(in2, c, U2)
<1>1. InstOK(in2)
  BY Zenon DEF InstOK, Agree
<1>2. \A wd : Watched(in2, wd) <=> Watched(in, wd)
  BY Zenon DEF Watched
<1>3. EndsAreFinal(in2, U2)
  BY <1>2, Zenon DEF EndsAreFinal, Agree
<1>4. Covered(in2, WdsOf(c))
  BY Zenon DEF Covered, Agree
<1>5. \A wd \in WdsOf(c) : Owed(wd, U) => Owed(wd, U2)
  BY Zenon DEF Owed
<1>6. Matched(in2, WdsOf(c), U2)
  BY <1>2, <1>5, Zenon DEF Matched, Agree
<1> QED
  BY <1>1, <1>3, <1>4, <1>6, Zenon DEF Agree

\* Events of mutators
LEMMA AgreeDelivered ==
    ASSUME NEW in, NEW c, NEW B, Agree(in, c, B \cup Range(in.queue)), NEW r, RawOK(r)
    PROVE  Agree(Deliver(in, r), c, B \cup Range(Deliver(in, r).queue))
<1> DEFINE in2 == Deliver(in, r)
           U   == B \cup Range(in.queue)
           U2  == B \cup Range(in2.queue)
<1>1. Lossless(in, in2)
  BY Delivered, Zenon DEF Agree
<1> HIDE DEF in2
<1>2. /\ InstOK(in2) /\ in2.next = in.next
      /\ DOMAIN in2.watch \subseteq DOMAIN in.watch
      /\ \A i \in DOMAIN in2.watch : in2.watch[i] = in.watch[i]
      /\ Range(in.queue) \subseteq Range(in2.queue)
  BY <1>1, Zenon DEF Lossless
<1>3. \A wd : Watched(in2, wd) => Watched(in, wd)
  BY <1>2, Zenon DEF Watched
<1>4. EndsAreFinal(in2, U2)
  <2>1. ASSUME NEW e \in U2, e.mask \in Ending PROVE e.wd \in 1..(in2.next - 1) /\ ~Watched(in2, e.wd)
    <3>1. CASE e \in U
      BY <1>2, <1>3, <2>1, <3>1, ZenonT(30) DEF EndsAreFinal, Agree
    <3>2. CASE e \notin U
      <4>1. e \in Range(in2.queue) \ Range(in.queue)
        BY <3>2, Zenon
      <4> QED
        BY <1>1, <1>2, <2>1, <4>1, ZenonT(30) DEF Lossless
    <3> QED
      BY <3>1, <3>2, Zenon
  <2> QED
    BY <2>1, Zenon DEF EndsAreFinal
<1>5. Covered(in2, WdsOf(c))
  BY <1>2, Zenon DEF Covered, Agree
<1>6. Matched(in2, WdsOf(c), U2)
  <2>1. ASSUME NEW wd \in WdsOf(c) PROVE Watched(in2, wd) \/ Owed(wd, U2)
    <3>1. CASE Owed(wd, U)
      BY <1>2, <3>1, Zenon DEF Owed
    <3>2. CASE Watched(in, wd)
      <4>1. PICK i \in DOMAIN in.watch : in.watch[i] = wd
        BY <3>2, Zenon DEF Watched
      <4>2. CASE i \in DOMAIN in2.watch
        BY <1>2, <4>1, <4>2, Zenon DEF Watched
      <4>3. CASE i \notin DOMAIN in2.watch
        <5>1. \/ Overflow \in Range(in2.queue)
              \/ \E e \in Range(in2.queue) : e.wd = wd /\ e.mask \in Ending
          BY <1>1, <4>1, <4>3, Zenon DEF Lossless
        <5> QED
          BY <5>1, Zenon DEF Owed
      <4> QED
        BY <4>2, <4>3, Zenon
    <3> QED
      BY <3>1, <3>2, Zenon DEF Matched, Agree
  <2> QED
    BY <2>1, Zenon DEF Matched
<1> QED
  BY <1>2, <1>4, <1>5, <1>6, ZenonT(30) DEF Agree, in2

\* markCacheSlotEmpty, for a watch that has ended
LEMMA AgreeEmptied ==
    ASSUME NEW in, NEW c, NEW U, Agree(in, c, U), NEW k \in Used(c), ~Watched(in, c[k].wd)
    PROVE  LET c2 == markCacheSlotEmpty(c, k) IN
           Agree(in, c2, U) /\ c[k].wd \notin WdsOf(c2)
<1> DEFINE c2 == markCacheSlotEmpty(c, k)
<1>1. CacheOK(c) /\ k \in 1..Len(c)
  BY Zenon DEF Agree, Used
<1>2. DOMAIN c = 1..Len(c) /\ c \in Seq([wd : Int, path : Seq(Names)])
  BY <1>1, UsedSlots, Zenon DEF CacheOK
<1>3. c2 = Without(c, {k})
  BY <1>1, <1>2, Zenon DEF markCacheSlotEmpty, Without
<1> HIDE DEF c2
<1>4. CacheOK(c2) /\ WdsOf(c2) = {c[j].wd : j \in Used(c) \ {k}}
  BY <1>1, <1>3, Emptied, Zenon
<1>5. \A j \in Used(c) \ {k} : c[j].wd # c[k].wd
  <2>1. \A i, j \in Used(c) : c[i].wd = c[j].wd => i = j
    BY <1>1, Zenon DEF CacheOK
  <2> QED
    BY <2>1, Zenon
<1>6. WdsOf(c2) \subseteq WdsOf(c) /\ c[k].wd \notin WdsOf(c2)
  BY <1>4, <1>5, Zenon DEF WdsOf
<1>7. \A wd \in WdsOf(c) : wd \in WdsOf(c2) \/ wd = c[k].wd
  BY <1>4, Zenon DEF WdsOf
<1>8. Covered(in, WdsOf(c2))
  BY <1>7, Zenon DEF Covered, Agree, Watched
<1>9. Matched(in, WdsOf(c2), U)
  BY <1>6, Zenon DEF Matched, Agree
<1> QED
  BY <1>4, <1>6, <1>8, <1>9, ZenonT(30) DEF Agree, c2

\* rewriteCachedPaths changes paths only.
LEMMA AgreeRewritten ==
    ASSUME NEW in, NEW c, NEW U, Agree(in, c, U),
           NEW old \in Seq(Names), old # << >>, NEW new \in Seq(Names)
    PROVE  Agree(in, rewriteCachedPaths(c, old, new), U)
<1> DEFINE c2 == rewriteCachedPaths(c, old, new)
<1>1. CacheOK(c2) /\ WdsOf(c2) = WdsOf(c)
  BY Rewritten, Zenon DEF Agree
<1> HIDE DEF c2
<1>2. Agree(in, c2, U)
  BY <1>1, Zenon DEF Agree
<1> QED
  BY <1>2, Zenon DEF c2

\* zapSubtree removes slots and their watches, whichever slots they are.
LEMMA AgreeZapped ==
    ASSUME NEW B, Agree(inst, wlCache, B \cup Range(inst.queue)), NEW Z \in SUBSET Used(wlCache)
    PROVE  LET in2 == RmWatches(inst, InOrder(Z))
               c2  == [j \in Slots |-> IF j \in Z THEN Empty ELSE wlCache[j]] IN
           Agree(in2, c2, B \cup Range(in2.queue)) /\ Range(inst.queue) \subseteq Range(in2.queue)
<1> DEFINE wds == InOrder(Z)
           in2 == RmWatches(inst, wds)
           c2  == [j \in Slots |-> IF j \in Z THEN Empty ELSE wlCache[j]]
           U   == B \cup Range(inst.queue)
           U2  == B \cup Range(in2.queue)
<1>1. InstOK(inst) /\ CacheOK(wlCache)
  BY Zenon DEF Agree
<1>2. wds \in Seq(Nat \ {0}) /\ Range(wds) = {wlCache[j].wd : j \in Z}
  BY <1>1, Listed, Zenon
<1> HIDE DEF wds
<1>3. /\ InstOK(in2) /\ in2.next = inst.next
      /\ DOMAIN in2.watch = {i \in DOMAIN inst.watch : inst.watch[i] \notin Range(wds)}
      /\ \A i \in DOMAIN in2.watch : in2.watch[i] = inst.watch[i]
      /\ Range(inst.queue) \subseteq Range(in2.queue)
      /\ \A e \in Range(in2.queue) \ Range(inst.queue) : e.mask \notin Ending
  BY <1>1, <1>2, Removed, Zenon
<1>4. c2 = Without(wlCache, Z)
  BY Zenon DEF Slots, Without
<1> HIDE DEF in2, c2
<1>5. CacheOK(c2) /\ WdsOf(c2) = {wlCache[j].wd : j \in Used(wlCache) \ Z}
  BY <1>1, <1>4, Emptied, Zenon
<1>6. \A j \in Used(wlCache) \ Z, k \in Z : wlCache[j].wd # wlCache[k].wd
  BY <1>1, Zenon DEF CacheOK
<1>7. \A wd \in WdsOf(c2) : wd \in WdsOf(wlCache) /\ wd \notin Range(wds)
  BY <1>2, <1>5, <1>6, Zenon DEF WdsOf
<1>8. \A wd \in WdsOf(wlCache) : wd \in WdsOf(c2) \/ wd \in Range(wds)
  BY <1>2, <1>5, Zenon DEF WdsOf
<1>9. EndsAreFinal(in2, U2)
  <2>1. \A wd : Watched(in2, wd) => Watched(inst, wd)
    BY <1>3, Zenon DEF Watched
  <2>2. \A e \in U2 : e.mask \in Ending => e \in U
    BY <1>3, Zenon
  <2> HIDE DEF U, U2
  <2>3. EndsAreFinal(inst, U)
    BY Zenon DEF Agree, U
  <2> QED
    BY <1>3, <2>1, <2>2, <2>3, ZenonT(30) DEF EndsAreFinal
<1>10. Covered(in2, WdsOf(c2))
  BY <1>3, <1>8, Zenon DEF Covered, Agree
<1>11. Matched(in2, WdsOf(c2), U2)
  <2>1. ASSUME NEW wd \in WdsOf(c2) PROVE Watched(in2, wd) \/ Owed(wd, U2)
    <3>1. Watched(inst, wd) \/ Owed(wd, U)
      BY <1>7, Zenon DEF Matched, Agree
    <3>2. Watched(inst, wd) => Watched(in2, wd)
      BY <1>3, <1>7, Zenon DEF Watched
    <3>3. Owed(wd, U) => Owed(wd, U2)
      BY <1>3, Zenon DEF Owed
    <3> QED
      BY <3>1, <3>2, <3>3, Zenon
  <2> QED
    BY <2>1, Zenon DEF Matched
<1> QED
  BY <1>3, <1>5, <1>9, <1>10, <1>11, ZenonT(30) DEF Agree, in2, c2, wds

\* traverseTree, on a directory that exists
LEMMA AgreeVisited ==
    ASSUME NEW in, NEW c, NEW U, Agree(in, c, U), NEW i, NEW self, NEW path \in Seq(Names)
    PROVE  LET in2 == AddWatch(in, i, self)
               wd  == in2.watch[i]
               c2  == IF findWatch(c, wd) > 0 THEN c ELSE addWatchToCache(c, wd, path) IN
           Agree(in2, c2, U) /\ in2.queue = in.queue
<1> DEFINE in2 == AddWatch(in, i, self)
           wd  == in2.watch[i]
           c2  == IF findWatch(c, wd) > 0 THEN c ELSE addWatchToCache(c, wd, path)
<1>1. InstOK(in) /\ CacheOK(c)
  BY Zenon DEF Agree
<1>2. /\ InstOK(in2) /\ in2.queue = in.queue /\ in2.next >= in.next
      /\ DOMAIN in2.watch = DOMAIN in.watch \cup {i}
      /\ \A k \in DOMAIN in.watch : in2.watch[k] = in.watch[k]
      /\ i \notin DOMAIN in.watch => in2.watch[i] = in.next
  BY <1>1, Added, ZenonT(30)
<1> HIDE DEF in2
<1>3. wd \in Nat \ {0} /\ in.next \in Nat /\ in2.next \in Nat
  BY <1>1, <1>2 DEF InstOK
<1> HIDE DEF wd
<1>4. CacheOK(c2) /\ WdsOf(c2) = WdsOf(c) \cup {wd}
  <2>1. CASE findWatch(c, wd) > 0
    <3>1. PICK j \in 1..Len(c) : c[j].wd = wd
      BY <1>1, <2>1, Found, SMTT(30)
    <3>2. j \in Used(c)
      BY <1>3, <3>1 DEF Used
    <3>3. wd \in WdsOf(c)
      BY <3>1, <3>2, Zenon DEF WdsOf
    <3> QED
      BY <1>1, <2>1, <3>3, ZenonT(30)
  <2>2. CASE ~(findWatch(c, wd) > 0)
    <3>1. \A j \in 1..Len(c) : c[j].wd # wd
      BY <1>1, <2>2, Found, Zenon
    <3> QED
      BY <1>1, <1>3, <2>2, <3>1, Inserted, ZenonT(30)
  <2> QED
    BY <2>1, <2>2, Zenon
<1> HIDE DEF c2
<1>5. \A x : Watched(in, x) => Watched(in2, x)
  BY <1>2, Zenon DEF Watched
<1>6. EndsAreFinal(in2, U)
  <2>1. ASSUME NEW e \in U, e.mask \in Ending PROVE e.wd \in 1..(in2.next - 1) /\ ~Watched(in2, e.wd)
    <3>1. e.wd \in 1..(in.next - 1) /\ ~Watched(in, e.wd)
      BY <2>1, Zenon DEF EndsAreFinal, Agree
    <3>2. ASSUME NEW k \in DOMAIN in2.watch, in2.watch[k] = e.wd PROVE FALSE
      <4>1. CASE k \in DOMAIN in.watch
        BY <1>2, <3>1, <3>2, <4>1, ZenonT(30) DEF Watched
      <4>2. CASE k \notin DOMAIN in.watch
        <5>1. e.wd = in.next
          BY <1>2, <3>2, <4>2, Zenon
        <5> QED
          BY <1>3, <3>1, <5>1, SMTT(30)
      <4> QED
        BY <4>1, <4>2, Zenon
    <3>3. ~Watched(in2, e.wd)
      BY <3>2, Zenon DEF Watched
    <3>4. e.wd \in 1..(in2.next - 1)
      BY <1>2, <1>3, <3>1, SMTT(30)
    <3> QED
      BY <3>3, <3>4, Zenon
  <2> QED
    BY <2>1, Zenon DEF EndsAreFinal
<1>7. Covered(in2, WdsOf(c2))
  BY <1>2, <1>4, Zenon DEF Covered, Agree, wd
<1>8. Matched(in2, WdsOf(c2), U)
  <2>1. Watched(in2, wd)
    BY <1>2, Zenon DEF Watched, wd
  <2> QED
    BY <1>4, <1>5, <2>1, Zenon DEF Matched, Agree
<1> QED
  BY <1>2, <1>4, <1>6, <1>7, <1>8, ZenonT(30) DEF Agree, in2, c2, wd

\* reinitialize
LEMMA AgreeFresh == Agree(NewInstance, << >>, Range(<< >>) \cup Range(NewInstance.queue))
<1> DEFINE in == NewInstance
           c  == << >>
           q  == << >>
<1>1. in.watch = << >> /\ in.next = 1 /\ in.queue = << >>
  BY Zenon DEF NewInstance
<1>2. << >> \in Seq(Events) /\ << >> \in Seq([wd : Int, path : Seq(Names)]) /\ Len(<< >>) = 0 /\ DOMAIN << >> = {}
  BY EmptySeq
<1>3. Range(<< >>) = {}
  BY <1>2, Zenon DEF Range
<1>4. MaxQueue \in Nat
  BY InotifyAssumption, Zenon
<1>5. QueueOK(<< >>)
  BY <1>2, <1>4, SMTT(30) DEF QueueOK
<1> HIDE DEF in
<1>6. in.watch \in [DOMAIN in.watch -> 1..(in.next - 1)] /\ DOMAIN in.watch = {}
  BY <1>1, <1>2, SMTT(30)
<1>7. InstOK(in)
  BY <1>1, <1>5, <1>6, SMTT(30) DEF InstOK
<1>8. Used(c) = {}
  BY <1>2 DEF Used
<1>9. CacheOK(c)
  BY <1>2, <1>8 DEF CacheOK
<1>10. WdsOf(c) = {}
  BY <1>8, Zenon DEF WdsOf
<1>11. Agree(in, << >>, {})
  BY <1>6, <1>7, <1>9, <1>10, Zenon DEF Agree, EndsAreFinal, Covered, Matched
<1> QED
  BY <1>1, <1>3, <1>11, ZenonT(30) DEF in
=============================================================================

----------------------------- MODULE PathSplit -----------------------------
(***************************************************************************)
(* dirname_tsd() and basename_tsd() of threads/name_tsd.c, and their twins *)
(* ydirname() and ybasename() of threads/exr3101_test.c, as functions of   *)
(* the pathname.  A pathname is a sequence of characters; "/" is the only  *)
(* one that is told apart, besides the "." of a result.                    *)
(***************************************************************************)
EXTENDS Integers, Sequences, FiniteSetsExt

CONSTANT MAX_PATH       \* size of the per-thread buffer

ASSUME PathAssumption == MAX_PATH \in Nat \ {0, 1}

Slash == "/"
Dot   == "."

\* Mutant: the pathname is copied whole.
Copy_Whole(p) == p

\* strncpy() into the buffer, and the forced terminator
Copy(p) == SubSeq(p, 1, Min({Len(p), MAX_PATH - 1}))

\* Trailing slashes go, but never the first character.
Strip(buf) == SubSeq(buf, 1, Max({1} \cup {i \in DOMAIN buf : buf[i] # Slash}))

\* strrchr(buf, '/'): 0 when there is none
LastSlash(buf) == Max({0} \cup {i \in DOMAIN buf : buf[i] = Slash})

\* Mutant: trailing slashes are kept.
dirname_tsd_NoStrip(p) ==
    LET c == LastSlash(p)
    IN CASE c = 0 -> <<Dot>>
         [] c = 1 -> <<Slash>>
         [] OTHER -> SubSeq(p, 1, c - 1)

dirname_tsd(p) ==
    IF p = << >> THEN <<Dot>>
    ELSE IF Copy(p) = <<Slash>> THEN <<Slash>>
    ELSE LET buf == Strip(Copy(p))
             c   == LastSlash(buf)
         IN CASE c = 0 -> <<Dot>>
              [] c = 1 -> <<Slash>>
              [] OTHER -> SubSeq(buf, 1, c - 1)

\* Mutant: a pathname of slashes only is cut like any other.
basename_tsd_NoRoot(p) ==
    IF p = << >> THEN <<Dot>>
    ELSE LET buf == Strip(Copy(p)) IN SubSeq(buf, LastSlash(buf) + 1, Len(buf))

basename_tsd(p) ==
    IF p = << >> THEN <<Dot>>
    ELSE IF Copy(p) = <<Slash>> THEN <<Slash>>
    ELSE LET buf == Strip(Copy(p))
             c   == LastSlash(buf)
         IN IF c = 0 \/ Len(buf) = 1 THEN buf ELSE SubSeq(buf, c + 1, Len(buf))

ydirname(p)  == dirname_tsd(p)
ybasename(p) == basename_tsd(p)

-----------------------------------------------------------------------------
(* What the pathname means: the reference *)

\* The components of a pathname, as intervals of positions
Components(p) ==
    {<<i, j>> \in (DOMAIN p) \X (DOMAIN p) :
        /\ i <= j /\ \A k \in i..j : p[k] # Slash
        /\ i = 1 \/ p[i - 1] = Slash
        /\ j = Len(p) \/ p[j + 1] = Slash}

\* The directories a pathname goes through, "." aside, in order; and whether it
\* starts at the root
Names(p) ==
    LET comps == {c \in Components(p) : SubSeq(p, c[1], c[2]) # <<Dot>>}
        nth(n) == CHOOSE c \in comps : Cardinality({d \in comps : d[1] < c[1]}) = n - 1
    IN [n \in 1..Cardinality(comps) |-> SubSeq(p, nth(n)[1], nth(n)[2])]
Absolute(p) == p # << >> /\ p[1] = Slash
SameFile(p, q) == Names(p) = Names(q) /\ Absolute(p) = Absolute(q)

\* basename(3): the last component
LastComponent(p) ==
    IF p = << >> THEN <<Dot>>
    ELSE IF Components(p) = {} THEN <<Slash>>
    ELSE LET c == CHOOSE c \in Components(p) : \A d \in Components(p) : d[1] <= c[1]
         IN SubSeq(p, c[1], c[2])

\* dirname(3): what precedes the last component, without trailing slashes
BeforeLast(p) ==
    IF p = << >> THEN <<Dot>>
    ELSE IF Components(p) = {} THEN <<Slash>>
    ELSE LET c == CHOOSE c \in Components(p) : \A d \in Components(p) : d[1] <= c[1]
             before == SubSeq(p, 1, c[1] - 1)
         IN IF before = << >> THEN <<Dot>> ELSE Strip(before)

-----------------------------------------------------------------------------
(* threadRoutine's two calls, for every pathname up to a length *)

CONSTANTS Chars, MaxLen

VARIABLES path, dir, base

NotCalled == <<"not called">>

Init ==
    /\ path \in UNION {[1..n -> Chars \cup {Slash}] : n \in 0..MaxLen}
    /\ dir = NotCalled /\ base = NotCalled

CallDirname  == dir = NotCalled /\ dir' = ydirname(path) /\ UNCHANGED <<path, base>>
CallBasename == base = NotCalled /\ base' = ybasename(path) /\ UNCHANGED <<path, dir>>

Next == CallDirname \/ CallBasename

Spec == Init /\ [][Next]_<<path, dir, base>>

-----------------------------------------------------------------------------
(* Properties.  The buffer is long enough for these pathnames or, in a run  *)
(* of its own, is not.                                                      *)

Called == dir # NotCalled /\ base # NotCalled
Fits   == Len(path) < MAX_PATH

\* The two results, put together again, name the file the pathname names
\* (name_tsd.c:38-91, 107-154).
Recombines == Called /\ Fits /\ path # << >> => SameFile(dir \o <<Slash>> \o base, path)

\* Neither result is ever empty or longer than the buffer holds.
ResultFits == Called => Len(dir) \in 1..(MAX_PATH - 1) /\ Len(base) \in 1..(MAX_PATH - 1)

\* "Thread-safe implementation of dirname()" (name_tsd.c:36) and of basename()
\* (105-106): the results are those of the library functions, but for one case
\* of dirname(): of doubled slashes only the last is cut off ("a//a" gives "a/").
DoubledSlash == \E i \in DOMAIN path : i > 1 /\ path[i] = Slash /\ path[i - 1] = Slash
LikeLibrary ==
    Called /\ Fits => base = LastComponent(path) /\ (DoubledSlash \/ dir = BeforeLast(path))
=============================================================================

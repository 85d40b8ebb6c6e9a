------------------------------ MODULE Handoff -------------------------------
(***************************************************************************)
(* What the two sides of a lock-step transfer promise: items are given and *)
(* taken in strict alternation, and what is taken is what was given.       *)
(***************************************************************************)
EXTENDS Integers, Sequences

CONSTANT Item

VARIABLES given, taken

Init == given = << >> /\ taken = << >>

\* The giver's turn: everything given so far has been taken.
Give ==
    /\ given = taken
    /\ \E i \in Item : given' = Append(given, i)
    /\ UNCHANGED taken

\* The taker's turn: it takes the one item outstanding.
Take ==
    /\ given # taken
    /\ taken' = given
    /\ UNCHANGED given

Next == Give \/ Take

Spec == Init /\ [][Next]_<<given, taken>>
=============================================================================

------------------------------- MODULE Lists -------------------------------
(***************************************************************************)
(* What the code does with Python lists: sorted, and comprehensions with a *)
(* condition.  An order of places is a function that gives every place the *)
(* set of the places before it; a place with n - 1 places before it is the *)
(* n-th.                                                                   *)
(***************************************************************************)
EXTENDS Integers, Sequences, FiniteSets, SequencesExt

\* The elements of s at the places of an order.
InOrder(s, before) ==
    [n \in 1 .. Cardinality(DOMAIN before) |->
        s[CHOOSE i \in DOMAIN before : Cardinality(before[i]) = n - 1]]

\* The elements of s at some of its places.
Selected(s, places) == InOrder(s, [i \in places |-> {j \in places : j < i}])

\* [x for x in s if Test(x)].
Filtered(s, Test(_)) == Selected(s, {i \in DOMAIN s : Test(s[i])})

\* sorted(s): elements that compare equal keep their order.
Sorted(s, Before(_, _)) ==
    LET Earlier(i, j) == Before(s[i], s[j]) \/ (~Before(s[j], s[i]) /\ i < j)
    IN  InOrder(s, [i \in DOMAIN s |-> {j \in DOMAIN s : Earlier(j, i)}])

\* Tuples compare element by element.
PairBefore(p, q) == p[1] < q[1] \/ (p[1] = q[1] /\ p[2] < q[2])
=============================================================================

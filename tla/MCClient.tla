------------------------------ MODULE MCClient ------------------------------
(***************************************************************************)
(* A client that is asked for one thing while something goes wrong, or for *)
(* two things at once.                                                     *)
(***************************************************************************)
EXTENDS Client

Ask(kind, amount) == [kind |-> kind, asset |-> "base", amount |-> amount, note |-> 2]
Nothing == Ask("none", 0)

Confirmed1(amount) == [NewNote("base", amount, 0) EXCEPT !.indexed = TRUE]
Order == NewNote("quote", 1, 1)

Wrong(crash, lost, fail) == [crash |-> crash, lost |-> lost, fail |-> fail]
AllWell == Wrong(0, 0, 0)

\* A note of 2 and an order, and every kind of call; two notes to be joined
\* while an order may be filled.
Alone ==
  {[notes |-> <<Confirmed1(2), Order>>, request |-> <<Ask(k, 1), Nothing>>, left |-> w] :
     k \in {"shield", "place_order", "unshield", "cancel_order"},
     w \in {Wrong(1, 0, 0), Wrong(0, 1, 0), Wrong(0, 0, 1)}}
  \cup
  {[notes |-> <<Confirmed1(1), Order, Confirmed1(1)>>, request |-> <<Ask(k, 2), Nothing>>,
    left |-> w] : k \in {"place_order", "unshield"}, w \in {AllWell, Wrong(0, 1, 0)}}

\* Two calls that choose the same note or cancel the same order, and calls that
\* have nothing to do with each other.
Both(k, l) == <<Ask(k, 1), Ask(l, 1)>>
Rivals ==
  {[notes |-> <<Confirmed1(1), Order>>, request |-> both, left |-> w] :
     both \in {Both("place_order", "unshield"), Both("unshield", "unshield"),
               Both("cancel_order", "cancel_order"), Both("shield", "unshield"),
               Both("cancel_order", "place_order")},
     w \in {AllWell, Wrong(0, 1, 0)}}

AloneOrRivals == Alone \cup Rivals
=============================================================================

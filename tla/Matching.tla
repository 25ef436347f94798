------------------------------ MODULE Matching ------------------------------
(***************************************************************************)
(* The arithmetic of the on-chain order book                               *)
(* (contracts/settlement/src/lib.rs): crossing, lots, price priority and   *)
(* the sorted insertion.  Everything here is a pure operator; the book     *)
(* itself lives in Settlement.                                             *)
(*                                                                         *)
(* An order offers amount_in of one asset and wants at least min_out of    *)
(* the other; both are positive integers whose ratio is its limit price.   *)
(***************************************************************************)
EXTENDS Integers, SequencesExt

Buy  == "Buy"
Sell == "Sell"
Side == {Buy, Sell}

\* The side a taker on side s trades against.
Opposite(s) == IF s = Buy THEN Sell ELSE Buy

CommonDivisors(a, b) == {d \in 1..a : a % d = 0 /\ b % d = 0}

\* What gcd_i128 returns for positive arguments; module Euclid models its
\* loop and shows that it computes this value.
Gcd(a, b) ==
  CHOOSE g \in CommonDivisors(a, b) : \A d \in CommonDivisors(a, b) : d <= g

\* Variant: the second order's terms are taken the wrong way round.
CrossAmounts_TermsSwapped(a_amount_in, a_min_out, b_amount_in, b_min_out) ==
  a_min_out * b_amount_in <= a_amount_in * b_min_out

\* Two orders on opposite sides cross when their limit prices overlap.  The
\* products are taken in U256, so they never overflow.
CrossAmounts(a_amount_in, a_min_out, b_amount_in, b_min_out) ==
  a_min_out * b_min_out <= a_amount_in * b_amount_in

\* One lot of an order is its price ratio in lowest terms: Lot(o) of what it
\* offers for LotPrice(o) of what it wants.
Lot(o)      == o.amount_in \div Gcd(o.amount_in, o.min_out)
LotPrice(o) == o.min_out \div Gcd(o.amount_in, o.min_out)

\* compute_lots: whole lots the maker's remaining funds cover, and whole lots
\* the taker's remaining funds pay for.  The code splits each lot into base
\* and quote by the maker's side; give and want name the same two numbers.
KMaker(maker)            == maker.remaining_in \div Lot(maker)
KTaker(maker, remaining) == remaining \div LotPrice(maker)
FillLots(maker, remaining) ==
  IF KMaker(maker) < KTaker(maker, remaining) THEN KMaker(maker)
                                              ELSE KTaker(maker, remaining)

\* entry_better: a ranks strictly ahead of b.  Asks rank by ascending
\* min_out/amount_in, bids by descending amount_in/min_out.
EntryBetter(a, b, side) ==
  IF side = Sell THEN a.min_out * b.amount_in < b.min_out * a.amount_in
                 ELSE a.amount_in * b.min_out > b.amount_in * a.min_out

\* A book side is sorted when no order ranks strictly ahead of an earlier one.
SortedSide(orders, side) ==
  \A k, l \in DOMAIN orders : k < l => ~EntryBetter(orders[l], orders[k], side)

\* Variant: a new order goes to the end.
InsertPosition_Last(orders, e, side) == Len(orders) + 1

\* Variant: a new order goes ahead of the orders of an equal price.
InsertPosition_BeforeEquals(orders, e, side) ==
  Cardinality({j \in 1..Len(orders) : EntryBetter(orders[j], e, side)}) + 1

\* The first position whose order the new one beats, or one past the end: a
\* new order goes behind every order of an equal or better price.
InsertPosition(orders, e, side) ==
  LET beaten == {j \in 1..Len(orders) : EntryBetter(e, orders[j], side)}
  IN  CHOOSE p \in 1..(Len(orders) + 1) :
        /\ p \in beaten \/ p = Len(orders) + 1
        /\ \A j \in beaten : p <= j

BookInsertSorted(orders, e, side) ==
  InsertAt(orders, InsertPosition(orders, e, side), e)
=============================================================================

------------------------------- MODULE Value --------------------------------
(***************************************************************************)
(* Sums of amounts.  An amount n held by x is counted as n units           *)
(* <<x, 1>> .. <<x, n>>, so that the total of a set of holders is the      *)
(* cardinality of the set of their units: a definition without recursion   *)
(* that TLC can evaluate and the provers can reason about.                 *)
(***************************************************************************)
EXTENDS Integers, FiniteSets

Units(amount, S) == UNION {{x} \X (1..amount[x]) : x \in S}

\* The sum of amount[x] over the x in the finite set S.
Total(amount, S) == Cardinality(Units(amount, S))
=============================================================================

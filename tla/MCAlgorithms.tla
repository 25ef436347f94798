---------------------------- MODULE MCAlgorithms ----------------------------
(***************************************************************************)
(* The contract's loops against their definitions: gcd_i128 on all small   *)
(* arguments, and the incremental tree; one of them moves at a time.       *)
(***************************************************************************)
EXTENDS Euclid, NoteTree

\* Large enough for six iterations (13 and 21) and for every shape of ratio.
SmallAmounts == 1..24

VARIABLE part  \* the one that moves

MCInit ==
  /\ EuclidInit /\ TreeInit
  /\ \/ part = "gcd"
     \/ part = "tree" /\ a0 = 1 /\ b0 = 1

MCNext ==
  \/ part = "gcd" /\ Iterate /\ UNCHANGED <<part, treeVars>>
  \/ part = "tree" /\ TreeNext /\ UNCHANGED <<part, euclidVars>>

MCSpec == MCInit /\ [][MCNext]_<<part, euclidVars, treeVars>>
=============================================================================

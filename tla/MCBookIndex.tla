---------------------------- MODULE MCBookIndex -----------------------------
(***************************************************************************)
(* Small books for BookIndex: orders 1 and 2 compete on one side at one    *)
(* price, order 3 is alone on the other side; with four orders, 4 beats 1  *)
(* and 2.  Only order 1 is ever filled in part.                            *)
(***************************************************************************)
EXTENDS BookIndex

MCSideOf == [o \in Order |-> IF o = 3 THEN 1 ELSE 0]
MCRank   == [o \in Order |-> IF o = 4 THEN 0 ELSE 1]
MCFunds  == [o \in Order |-> IF o = 1 THEN 2 ELSE 1]
=============================================================================

------------------------------- MODULE MCDesks -------------------------------
(***************************************************************************)
(* Desks, one matter at a time: a submission on the server's desk, or the  *)
(* browser's own desk beside it; and what the activity page shows of       *)
(* shields and operations.  One of the two moves, the other is at rest.    *)
(***************************************************************************)
EXTENDS Desks, ActivityFeed

CONSTANT OwnDesk  \* stands for the browser's own desk

\* A failed call or a reload.
OneTrouble ==
  {[fault |-> 1, reload |-> 0, overtaken |-> 0], [fault |-> 0, reload |-> 1, overtaken |-> 0]}

VARIABLE part  \* the one that moves

\* What the scenario leaves out is closed from the start.
Scenario(s) ==
  /\ form = [f \in Form \cup Agent |->
               IF f = s THEN [Closed EXCEPT !.at = "none"] ELSE Closed]
  /\ local = [at |-> IF OwnDesk = s THEN "none" ELSE "stored",
              status |-> "none", bridge |-> None, contract |-> None]

MCInit ==
  /\ InitServer /\ FeedInit
  /\ \/ part = "desks" /\ left.fault = 1
        /\ \E s \in Form \cup Agent \cup {OwnDesk} : Scenario(s)
     \/ part = "feed" /\ Scenario(OwnDesk)

MCNext ==
  \/ part = "desks" /\ Next /\ UNCHANGED <<part, feedVars>>
  \/ part = "feed" /\ FeedNext /\ UNCHANGED <<part, desksVars>>

MCFairness ==
  \/ part = "desks" /\ Fairness
  \/ part = "feed" /\ FeedFairness

MCSpec == MCInit /\ [][MCNext]_<<part, desksVars, feedVars>> /\ MCFairness
=============================================================================

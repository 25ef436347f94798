--------------------------- MODULE MCEventSource ----------------------------
(***************************************************************************)
(* One page with a poller and an order flow.                               *)
(***************************************************************************)
EXTENDS EventSource

OnePage == [c \in Caller |-> "page"]
=============================================================================

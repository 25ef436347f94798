--------------------------- MODULE OperationQueue ---------------------------
(***************************************************************************)
(* The MCP server's durable queue of wallet operations: one client action  *)
(* per operation, leased to whichever tab asks first.  Time is reduced to  *)
(* the one thing the store compares: whether lease_expires_at has passed.  *)
(***************************************************************************)
EXTENDS Naturals

CONSTANTS
  Op,       \* the operations of one wallet, numbered in created_at order
  Request,  \* what an operation may ask for
  None      \* no request yet
ASSUME OpAssumption == Op \subseteq Nat \ {0}

VARIABLES
  operation,  \* status of each operation, "none" before it is created
  request,    \* what it asks for
  action      \* its client action: status, lease token, lease not yet expired

queueVars == <<operation, request, action>>

OperationStatus ==
  {"none", "waiting_for_client", "succeeded", "failed", "cancelled"}
ActionStatus == {"none", "available", "leased", "complete", "failed"}

QueueTypeOK ==
  /\ operation \in [Op -> OperationStatus]
  /\ request \in [Op -> Request \cup {None}]
  /\ action \in [Op -> [status : ActionStatus, lease : Nat, live : BOOLEAN]]

QueueInit ==
  /\ operation = [o \in Op |-> "none"] /\ request = [o \in Op |-> None]
  /\ action = [o \in Op |-> [status |-> "none", lease |-> 0, live |-> FALSE]]

\* An idempotency key that was seen before returns the operation it made.
CreateOperation(o, r) ==
  /\ operation[o] = "none"
  /\ \A p \in Op : p < o => operation[p] # "none"
  /\ operation' = [operation EXCEPT ![o] = "waiting_for_client"]
  /\ request' = [request EXCEPT ![o] = r]
  /\ action' = [action EXCEPT ![o].status = "available"]

\* A lease in force does not keep the user from cancelling.
CancelOperation(o) ==
  /\ operation[o] = "waiting_for_client"
  /\ operation' = [operation EXCEPT ![o] = "cancelled"]
  /\ UNCHANGED <<request, action>>

\* Variant: an action is handed out once.
ActionClaimable_Once(o) ==
  operation[o] = "waiting_for_client" /\ action[o].status = "available"

ActionClaimable(o) ==
  /\ operation[o] = "waiting_for_client"
  /\ \/ action[o].status = "available"
     \/ action[o].status = "leased" /\ ~action[o].live

ClaimAction(o) ==
  /\ ActionClaimable(o)
  /\ \A p \in Op : ActionClaimable(p) => o <= p
  /\ action' = [action EXCEPT ![o] = [status |-> "leased", live |-> TRUE,
                                      lease |-> @.lease + 1]]
  /\ UNCHANGED <<operation, request>>

\* The token and its expiry are all that is looked at, not any status.
ValidLease(o, lease) == action[o].live /\ action[o].lease = lease

\* A heartbeat that arrives late puts a finished action back to "leased".
HeartbeatAction(o, lease) ==
  /\ ValidLease(o, lease)
  /\ action' = [action EXCEPT ![o].status = "leased"]
  /\ UNCHANGED <<operation, request>>

CompleteAction(o, lease) ==
  /\ ValidLease(o, lease)
  /\ operation' = [operation EXCEPT ![o] = "succeeded"]
  /\ action' = [action EXCEPT ![o].status = "complete"]
  /\ UNCHANGED request

FailAction(o, lease, retryable) ==
  /\ ValidLease(o, lease)
  /\ operation' =
       [operation EXCEPT ![o] = IF retryable THEN "waiting_for_client"
                                             ELSE "failed"]
  /\ action' =
       [action EXCEPT ![o].status = IF retryable THEN "available" ELSE "failed"]
  /\ UNCHANGED request

LeaseExpires(o) ==
  /\ action[o].live
  /\ action' = [action EXCEPT ![o].live = FALSE]
  /\ UNCHANGED <<operation, request>>

Settled(o) == operation[o] \in {"succeeded", "failed", "cancelled"}
=============================================================================

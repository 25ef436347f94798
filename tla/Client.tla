------------------------------- MODULE Client -------------------------------
(***************************************************************************)
(* The SDK's wallet without a queue (packages/sdk/src/client.ts): calls of *)
(* shield, placeOrder, unshield and cancelOrder run at once over one note  *)
(* store, with neither locks nor reservations, beside the loop that brings *)
(* the store up to date from the chain (startNoteLoop).  They submit with  *)
(* DirectSubmitter or SponsoredSubmitter, for which only the outcome is    *)
(* told apart: the transaction landed, failed, or may still land.          *)
(*                                                                         *)
(* A note stands for its secrets and its owner tag.  A store update is a   *)
(* read and a write (NoteManager.update), and others write between them.   *)
(***************************************************************************)
EXTENDS OrderPlan, Integers, SequencesExt, FiniteSetsExt, TLC

CONSTANTS
  Op,          \* the calls made of the client
  Scenarios,   \* what the wallet has, what is asked of it, and what goes wrong
  MaxNotes     \* bound on the notes

NoteId == 1..MaxNotes
Loop == 0
Process == Op \cup {Loop}

Note == [asset : STRING, amount : Nat, cancel : Nat, status : {"active", "spent", "cancelled"},
         indexed : BOOLEAN, state : {"none"}]
Request == [kind : STRING, asset : STRING, amount : Nat, note : Nat]

ASSUME ClientAssumption == Op \subseteq Nat \ {Loop} /\ MaxNotes \in Nat

\* A scenario's notes are in use, those of resting orders not on the chain, and
\* an order that is to be cancelled is among them.
ASSUME ScenarioAssumption ==
  \A s \in Scenarios :
    /\ s.notes \in Seq(Note) /\ Len(s.notes) <= MaxNotes
    /\ \A n \in DOMAIN s.notes : /\ s.notes[n].status = "active"
                                 /\ s.notes[n].indexed => s.notes[n].cancel = 0
    /\ s.request \in [Op -> Request]
    /\ \A o \in Op : s.request[o].kind = "cancel_order" => s.request[o].note \in DOMAIN s.notes

VARIABLES
  store,    \* the NoteStore: the notes made so far, by id
  leaves,   \* the notes in the contract's tree, in order
  visible,  \* how many of them the event source shows
  spent,    \* the notes whose nullifier the contract has
  resting,  \* the orders in the book, by output note
  request,  \* what each call is asked to do
  tx,       \* the last transaction of each call
  proc,     \* the local state of each call, and of the loop
  left      \* mishaps still to come

chainVars  == <<leaves, visible, spent, resting>>
clientVars == <<store, chainVars, request, tx, proc, left>>
-----------------------------------------------------------------------------
NoCall == [status |-> "pending", spends |-> {}, mints |-> <<>>, rests |-> {}, removes |-> {}]
NoTx   == [NoCall EXCEPT !.status = "none"]

\* An order's output note has the amount it gives in cancel, and the least it
\* takes as its amount until the chain tells the real one.
NewNote(asset, amount, cancel) ==
  [asset |-> asset, amount |-> amount, cancel |-> cancel, status |-> "active",
   indexed |-> FALSE, state |-> "none"]

Coin(n, amount) == [id |-> n, amount |-> amount]
Tags(coins) == {c.id : c \in coins}

\* A call or the loop before its first step; a call keeps the coin to give, the
\* joins that are left to make it and the amounts its notes had when they were
\* chosen.
Nobody == [id |-> 0]
Ready  == [at |-> "start", todo |-> <<>>, held |-> Nobody, call |-> NoCall, next |-> "start",
           offer |-> Coin(0, 0), steps |-> <<>>, pool |-> <<>>, root |-> 0]

\* An object with these fields changed: { ...object, ...fields }.
With(object, fields) ==
  [k \in DOMAIN object \cup DOMAIN fields |->
     IF k \in DOMAIN fields THEN fields[k] ELSE object[k]]

\* The last id in use.
used == Len(store)

OnChain == ToSet(leaves)
Shown == {leaves[i] : i \in 1..visible}

At(x, step) == proc[x].at = step /\ proc[x].todo = <<>> /\ proc[x].held = Nobody
Goto(x, fields) == proc' = [proc EXCEPT ![x] = With(@, fields)]
Fail(o) == Goto(o, [at |-> "failed"])
-----------------------------------------------------------------------------
(***************************************************************************)
(* The chain.                                                              *)
(***************************************************************************)

\* A proof spends notes that are in the tree with these amounts.
Applies(t) ==
  /\ t.spends \subseteq OnChain /\ Tags(t.spends) \cap spent = {}
  /\ t.removes \subseteq resting

TxLands(o) ==
  /\ tx[o].status = "pending" /\ Applies(tx[o])
  /\ tx' = [tx EXCEPT ![o].status = "landed"]
  /\ leaves' = leaves \o tx[o].mints
  /\ spent' = spent \cup Tags(tx[o].spends)
  /\ resting' = (resting \ tx[o].removes) \cup tx[o].rests
  /\ UNCHANGED <<store, visible, request, proc, left>>

\* It runs and fails, or its time bounds pass before it is included.
TxFails(o) ==
  /\ tx[o].status = "pending"
  /\ \/ ~Applies(tx[o]) /\ UNCHANGED left
     \/ Applies(tx[o]) /\ left.fail > 0 /\ left' = [left EXCEPT !.fail = @ - 1]
  /\ tx' = [tx EXCEPT ![o].status = "failed"]
  /\ UNCHANGED <<store, chainVars, request, proc>>

\* An order is filled at its price or better.
OrderFills(n, amount) ==
  /\ n \in resting
  /\ resting' = resting \ {n}
  /\ leaves' = Append(leaves, Coin(n, amount))
  /\ UNCHANGED <<store, visible, spent, request, tx, proc, left>>

\* The event source learns of the next leaf.
ShowLeaf ==
  /\ visible < Len(leaves)
  /\ visible' = visible + 1
  /\ UNCHANGED <<store, leaves, spent, resting, request, tx, proc, left>>
-----------------------------------------------------------------------------
(***************************************************************************)
(* The store.                                                              *)
(***************************************************************************)

\* NoteManager.update reads the note, and puts it back changed.
GetNote(x) ==
  /\ proc[x].held = Nobody /\ proc[x].todo # <<>>
  /\ LET u == Head(proc[x].todo)
     IN  Goto(x, [todo |-> Tail(proc[x].todo),
                  held |-> [id |-> u.id, note |-> With(store[u.id], u.patch)]])
  /\ UNCHANGED <<store, chainVars, request, tx, left>>

PutNote(x) ==
  /\ proc[x].held # Nobody
  /\ store' = [store EXCEPT ![proc[x].held.id] = proc[x].held.note]
  /\ Goto(x, [held |-> Nobody])
  /\ UNCHANGED <<chainVars, request, tx, left>>

\* Variant: the outputs of orders are not looked for on the chain.
Unseen_PlainNotes(notes) ==
  {n \in DOMAIN notes : /\ notes[n].status # "cancelled" /\ ~notes[n].indexed
                        /\ n \in Tags(Shown) /\ notes[n].cancel = 0}

\* The notes that the chain shows for the first time.
Unseen(notes) ==
  {n \in DOMAIN notes : /\ notes[n].status # "cancelled" /\ ~notes[n].indexed
                        /\ n \in Tags(Shown)}

\* Variant: the note keeps the amount it was estimated to have.
Seen_Estimate(coin) == [indexed |-> TRUE]

Seen(coin) == [indexed |-> TRUE, amount |-> coin.amount]

\* reconcile reads the chain and the store, and then updates note by note.
Reconcile(x) ==
  /\ Unseen(store) # {}
  /\ LET news == SetToSeq({c \in Shown : c.id \in Unseen(store)})
     IN  Goto(x, [todo |-> [i \in DOMAIN news |-> [id |-> news[i].id, patch |-> Seen(news[i])]]])
  /\ UNCHANGED <<store, chainVars, request, tx, left>>

LoopTick == At(Loop, "start") /\ Reconcile(Loop)
-----------------------------------------------------------------------------
(***************************************************************************)
(* Submission.                                                             *)
(***************************************************************************)

\* New notes are stored, and then the invocation is submitted.
StageAndSubmit(o, notes, call, local) ==
  /\ Len(store \o notes) \in NoteId
  /\ store' = store \o notes
  /\ Goto(o, With(local, [at |-> "submit", call |-> With(NoCall, call)]))
  /\ UNCHANGED <<chainVars, request, tx, left>>

\* The simulation refuses what the contract would.
Submit(o) ==
  /\ At(o, "submit")
  /\ IF Applies(proc[o].call)
     THEN tx' = [tx EXCEPT ![o] = proc[o].call] /\ Goto(o, [at |-> "poll"])
     ELSE Fail(o) /\ UNCHANGED tx
  /\ UNCHANGED <<store, chainVars, request, left>>

\* What a call writes when its transaction has landed: the hash to the new
\* notes, and what it consumed.
Updates(t) ==
  LET made == SetToSeq(Tags(ToSet(t.mints)) \cup t.rests)
      gone == SetToSeq(Tags(t.spends))
      cancelled == SetToSeq(t.removes)
  IN  [i \in DOMAIN made |-> [id |-> made[i], patch |-> <<>>]]
        \o [i \in DOMAIN gone |-> [id |-> gone[i], patch |-> [status |-> "spent"]]]
        \o [i \in DOMAIN cancelled |-> [id |-> cancelled[i], patch |-> [status |-> "cancelled"]]]

\* Variant: a transaction that is still pending is taken for one that landed.
Succeeded_Pending(t) == t.status \in {"landed", "pending"}
Succeeded(t) == t.status = "landed"

Poll(o) ==
  /\ At(o, "poll")
  /\ \/ Succeeded(tx[o]) /\ Goto(o, [at |-> proc[o].next, todo |-> Updates(tx[o])])
     \/ tx[o].status = "failed" /\ Fail(o)
  /\ UNCHANGED <<store, chainVars, request, tx, left>>

\* The polling ends, or its answer or the sponsor's is lost, with the outcome
\* unknown.
GiveUp(o) ==
  /\ At(o, "poll") /\ left.lost > 0
  /\ left' = [left EXCEPT !.lost = @ - 1]
  /\ Fail(o)
  /\ UNCHANGED <<store, chainVars, request, tx>>
-----------------------------------------------------------------------------
(***************************************************************************)
(* The calls.                                                              *)
(***************************************************************************)

Spendable(n) == store[n].status = "active" /\ store[n].indexed

Shield(o) ==
  LET n == used + 1
      amount == request[o].amount
  IN  /\ At(o, "start") /\ request[o].kind = "shield"
      /\ StageAndSubmit(o, <<NewNote(request[o].asset, amount, 0)>>,
                        [mints |-> <<Coin(n, amount)>>],
                        [offer |-> Coin(n, amount), steps |-> <<>>, next |-> "confirm"])

\* assemble: an exact note, or the joins that make one.
Assemble(o) ==
  LET plans == PlanAssembly(store, request[o].asset, request[o].amount)
  IN  /\ At(o, "start") /\ request[o].kind \in {"place_order", "unshield"}
      /\ \/ plans = {} /\ Fail(o)
         \/ \E plan \in plans :
              Goto(o, [at |-> IF plan.steps = <<>> THEN "confirm" ELSE "path",
                       offer |-> Coin(plan.note, request[o].amount), steps |-> plan.steps,
                       pool |-> [n \in DOMAIN store |-> store[n].amount]])
      /\ UNCHANGED <<store, chainVars, request, tx, left>>

\* The inputs of the next join; the first may be the target of the last one.
Chosen(o, n) == Coin(n, proc[o].pool[n])
InputA(o) == LET a == Head(proc[o].steps).a IN IF a = 0 THEN proc[o].offer ELSE Chosen(o, a)
InputB(o) == Head(proc[o].steps).b

\* executeJoin: the path of one input, then that of the other ...
JoinPath(o) ==
  /\ At(o, "path") /\ InputA(o).id \in Tags(Shown)
  /\ Goto(o, [at |-> IF InputB(o) = 0 THEN "join" ELSE "path2", root |-> visible])
  /\ UNCHANGED <<store, chainVars, request, tx, left>>

\* ... in the same tree.
JoinPath2(o) ==
  /\ At(o, "path2") /\ InputB(o) \in Tags(Shown)
  /\ IF visible = proc[o].root THEN Goto(o, [at |-> "join"]) ELSE Fail(o)
  /\ UNCHANGED <<store, chainVars, request, tx, left>>

ExecuteJoin(o) ==
  LET step   == Head(proc[o].steps)
      target == Coin(used + 1, step.target)
      change == IF step.change > 0 THEN <<Coin(used + 2, step.change)>> ELSE <<>>
      outs   == <<target>> \o change
  IN  /\ At(o, "join")
      /\ StageAndSubmit(o, [i \in DOMAIN outs |-> NewNote(request[o].asset, outs[i].amount, 0)],
                        [mints |-> outs,
                         spends |-> {InputA(o)} \cup {Chosen(o, n) : n \in {InputB(o)} \ {0}}],
                        [offer |-> target, steps |-> Tail(proc[o].steps), next |-> "confirm"])

\* waitForConfirm: the note is confirmed ...
Confirmed(o) ==
  /\ At(o, "confirm") /\ Spendable(proc[o].offer.id)
  /\ Goto(o, [at |-> IF request[o].kind = "shield" THEN "done"
                     ELSE IF proc[o].steps # <<>> THEN "path" ELSE "spend"])
  /\ UNCHANGED <<store, chainVars, request, tx, left>>

\* ... or the store is reconciled once more ...
ConfirmTick(o) == At(o, "confirm") /\ Reconcile(o)

\* ... or the time is over, which only shield takes for a success.
ConfirmTimesOut(o) ==
  /\ At(o, "confirm") /\ ~Spendable(proc[o].offer.id)
  /\ IF request[o].kind = "shield" THEN Goto(o, [at |-> "done"]) ELSE Fail(o)
  /\ UNCHANGED <<store, chainVars, request, tx, left>>

\* The least the order takes is 1 of the other asset.
PlaceOrder(o) ==
  LET n == used + 1
      offer == proc[o].offer
  IN  /\ At(o, "spend") /\ request[o].kind = "place_order" /\ offer.id \in Tags(Shown)
      /\ StageAndSubmit(o, <<NewNote("quote", 1, offer.amount)>>,
                        [spends |-> {offer}, rests |-> {n}], [next |-> "done"])

Unshield(o) ==
  LET offer == proc[o].offer
  IN  /\ At(o, "spend") /\ request[o].kind = "unshield" /\ offer.id \in Tags(Shown)
      /\ StageAndSubmit(o, <<>>, [spends |-> {offer}], [next |-> "done"])

\* cancelOrder: the note that returns is worth what the order gave.
CancelOrder(o) ==
  LET order  == request[o].note
      refund == used + 1
      note   == store[order]
  IN  /\ At(o, "start") /\ request[o].kind = "cancel_order"
      /\ IF note.cancel = 0 \/ note.status # "active"
         THEN Fail(o) /\ UNCHANGED <<store, chainVars, request, tx, left>>
         ELSE StageAndSubmit(o, <<NewNote("base", note.cancel, 0)>>,
                             [mints |-> <<Coin(refund, note.cancel)>>, removes |-> {order}],
                             [next |-> "done"])

\* The process ends: the store and the submitted transactions are left.
Crash ==
  /\ left.crash > 0
  /\ left' = [left EXCEPT !.crash = @ - 1]
  /\ proc' = [x \in Process |->
                IF x = Loop THEN Ready
                ELSE IF At(x, "done") \/ At(x, "failed")
                THEN proc[x] ELSE [Ready EXCEPT !.at = "gone"]]
  /\ UNCHANGED <<store, chainVars, request, tx>>
-----------------------------------------------------------------------------
\* A scenario: the notes on the chain and the orders in the book, the request
\* of each call, and bounds on crashes, lost answers and failed transactions.
Init ==
  \E s \in Scenarios :
    LET onChain == {n \in DOMAIN s.notes : s.notes[n].cancel = 0}
    IN  /\ store = s.notes /\ request = s.request /\ left = s.left
        /\ leaves = SetToSeq({Coin(n, s.notes[n].amount) : n \in onChain})
        /\ visible = Len(leaves) /\ spent = {} /\ resting = DOMAIN s.notes \ onChain
        /\ tx = [o \in Op |-> NoTx] /\ proc = [x \in Process |-> Ready]

OpStep(o) ==
  \/ Shield(o) \/ Assemble(o) \/ JoinPath(o) \/ JoinPath2(o) \/ ExecuteJoin(o)
  \/ Confirmed(o) \/ ConfirmTick(o) \/ ConfirmTimesOut(o)
  \/ PlaceOrder(o) \/ Unshield(o) \/ CancelOrder(o) \/ Submit(o) \/ Poll(o)

Next ==
  \/ \E o \in Op : OpStep(o) \/ GiveUp(o) \/ TxLands(o) \/ TxFails(o)
  \/ \E x \in Process : GetNote(x) \/ PutNote(x)
  \/ \E n \in NoteId, amount \in {2} : OrderFills(n, amount)
  \/ ShowLeaf \/ LoopTick \/ Crash

\* The network decides on transactions and shows leaves; the process runs.
Fairness ==
  /\ WF_clientVars(ShowLeaf) /\ WF_clientVars(LoopTick)
  /\ \A x \in Process : WF_clientVars(GetNote(x) \/ PutNote(x))
  /\ \A o \in Op : WF_clientVars(OpStep(o)) /\ WF_clientVars(TxLands(o) \/ TxFails(o))

Spec == Init /\ [][Next]_clientVars /\ Fairness
-----------------------------------------------------------------------------
\* Nothing on the chain is out of the wallet's reach: it has the note of every
\* unspent leaf and of every resting order and has not written it off, whatever
\* the calls that made it came to; and what it shows as confirmed is on the
\* chain with that amount.
StoreCoversChain ==
  /\ \A c \in OnChain : c.id \notin spent =>
       c.id \in DOMAIN store /\ store[c.id].status = "active"
  /\ \A n \in resting : n \in DOMAIN store /\ store[n].status = "active" /\ store[n].cancel > 0
  /\ \A n \in DOMAIN store : store[n].indexed => Coin(n, store[n].amount) \in OnChain

\* A call that reports success has done on the chain exactly what it was asked:
\* the amount was deposited, withdrawn or put on order, or the order returned.
Delivered ==
  \A o \in Op : At(o, "done") =>
    /\ tx[o].status = "landed"
    /\ LET moved == IF request[o].kind \in {"shield", "cancel_order"}
                    THEN ToSet(tx[o].mints) ELSE tx[o].spends
           asked == IF request[o].kind = "cancel_order" THEN store[request[o].note].cancel
                    ELSE request[o].amount
       IN  \E n \in NoteId : moved = {Coin(n, asked)}

\* Every unspent note is in the end shown with its amount, although the loop
\* and the calls overwrite each other's updates.
FundsShown ==
  \A n \in NoteId :
    <>[](n \in Tags(OnChain) \ spent =>
           /\ n \in DOMAIN store /\ store[n].indexed
           /\ Coin(n, store[n].amount) \in OnChain)

\* "If the response is lost after acceptance, the deterministic hash still lets
\* a later reconciliation query the outcome": a spent note is noticed.
SpentNoticed ==
  \A n \in NoteId : [](n \in spent => <>(n \in DOMAIN store /\ store[n].status = "spent"))
=============================================================================

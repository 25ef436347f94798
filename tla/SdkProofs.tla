------------------------------ MODULE SdkProofs ------------------------------
(***************************************************************************)
(* Theorems about the SDK's client, for every set of calls and scenarios.  *)
(*                                                                         *)
(* A note is made by one call.  Until its transaction has landed or failed *)
(* it may still come (May); when it has come it is a leaf or the output of *)
(* a resting order (Born); and what was spent or cancelled stays so.  Of   *)
(* each note the store says only what stays true (Right), and so do the    *)
(* updates that are still to be written (Patch): that is why it does no    *)
(* harm that a copy read before another call's update is put back after    *)
(* it.  ClientInv adds what each call knows of the coin it gives, from the *)
(* plan that makes it to the transaction that spends it.                   *)
(***************************************************************************)
EXTENDS FiniteSetTheorems, SequenceTheorems, Client, TLAPS

\* A finite set, written as a sequence, has the elements that it had.
LEMMA ListsSet ==
  ASSUME NEW S, IsFiniteSet(S)
  PROVE  SetToSeq(S) \in Seq(S) /\ ToSet(SetToSeq(S)) = S
<1> DEFINE n == Cardinality(S)
           s == SetToSeq(S)
<1>1. n \in Nat /\ IsFiniteSet(1..n) /\ Cardinality(1..n) = n
  BY FS_CardinalityType, FS_Interval
<1>2. \E f \in [1..n -> S] : IsInjective(f)
  <2>1. ExistsBijection(1..n, S)
    BY FS_CardinalityType
  <2> QED
    BY <2>1 DEF ExistsBijection, Bijection, Injection
<1>3. s \in [1..n -> S] /\ IsInjective(s)
  BY <1>2 DEF SetToSeq
<1>4. s \in Surjection(1..n, S)
  BY <1>1, <1>3, FS_Injection DEF Injection
<1> HIDE DEF s
<1>5. s \in Seq(S) /\ DOMAIN s = 1..n
  BY <1>1, <1>3
<1>6. ToSet(s) = S
  BY <1>3, <1>4, <1>5 DEF ToSet, Surjection
<1> QED
  BY <1>5, <1>6 DEF s

\* The fields that a step sets have their new values, the others their old ones.
LEMMA Merged ==
  ASSUME NEW f, NEW r
  PROVE  /\ DOMAIN With(r, f) = DOMAIN f \cup DOMAIN r
         /\ \A k \in DOMAIN f : With(r, f)[k] = f[k]
         /\ \A k \in DOMAIN r : k \notin DOMAIN f => With(r, f)[k] = r[k]
BY DEF With

\* What a call and the loop know: no step adds a field or drops one.
Fields == {"at", "todo", "held", "call", "next", "offer", "steps", "pool", "root"}
Locals == DOMAIN proc = Process /\ \A x \in Process : DOMAIN proc[x] = Fields

\* A step of one call or of the loop changes the fields it names, and nothing of
\* the others.
LEMMA Went ==
  ASSUME Locals, NEW x \in Process, NEW f, Goto(x, f), DOMAIN f \subseteq Fields
  PROVE  /\ Locals'
         /\ \A y \in Process : y # x => proc'[y] = proc[y]
         /\ \A k \in DOMAIN f : proc'[x][k] = f[k]
         /\ \A k \in Fields : k \notin DOMAIN f => proc'[x][k] = proc[x][k]
<1>1. /\ proc'[x] = With(proc[x], f) /\ DOMAIN proc' = Process
      /\ \A y \in Process : y # x => proc'[y] = proc[y]
  BY DEF Goto, Locals
<1>2. DOMAIN proc[x] = Fields
  BY DEF Locals
<1> DEFINE r == proc[x]
<1>3. /\ DOMAIN With(r, f) = DOMAIN f \cup DOMAIN r
      /\ \A k \in DOMAIN f : With(r, f)[k] = f[k]
      /\ \A k \in DOMAIN r : k \notin DOMAIN f => With(r, f)[k] = r[k]
  BY Merged
<1>4. DOMAIN f \cup Fields = Fields
  OBVIOUS
<1>5. DOMAIN proc'[x] = Fields
  BY <1>1, <1>2, <1>3, <1>4
<1> QED
  BY <1>1, <1>2, <1>3, <1>5 DEF Locals

-----------------------------------------------------------------------------
\* A sequence, of whatever its elements are.
IsList(s) == s \in Seq(ToSet(s))

\* The notes that a call makes, on the chain or in the book.
MadeIds(t) == Tags(ToSet(t.mints)) \cup t.rests

\* What the transactions of a call that may still land would put on the chain.
May(o) == IF proc[o].at = "submit" THEN MadeIds(proc[o].call)
          ELSE IF tx[o].status = "pending" THEN MadeIds(tx[o]) ELSE {}

\* The chain has the note, as a leaf or as the output of a resting order.
Born(n) == n \in Tags(OnChain) \/ n \in resting

\* The note is not on the chain, and no call can put it there any more.
Dead(n) == n \in DOMAIN store /\ ~Born(n) /\ \A o \in Op : n \notin May(o)

\* What a note says is so: it was spent, it will never come, or it is on the
\* chain with that amount.  This stays true, so that a stale copy may be written.
Right(n, note) ==
  /\ {"amount", "cancel", "status", "indexed"} \subseteq DOMAIN note
  /\ note.status \in {"active", "spent", "cancelled"} /\ note.indexed \in BOOLEAN
  /\ note.status = "spent" => n \in spent
  /\ note.status = "cancelled" => Dead(n)
  /\ note.indexed => Coin(n, note.amount) \in OnChain

\* A change to a note that is right whenever it is written.
Patch(n, p) ==
  \/ p = <<>>
  \/ p = [status |-> "spent"] /\ n \in spent
  \/ p = [status |-> "cancelled"] /\ Dead(n)
  \/ \E a : p = [indexed |-> TRUE, amount |-> a] /\ Coin(n, a) \in OnChain

\* An invocation makes notes that are in the store already.
CallFields == {"status", "spends", "mints", "rests", "removes"}
CallInv(t) ==
  /\ DOMAIN t = CallFields
  /\ IsFiniteSet(t.spends) /\ IsFiniteSet(t.rests) /\ IsFiniteSet(t.removes)
  /\ IsList(t.mints) /\ \A c \in ToSet(t.mints) : c = Coin(c.id, c.amount)
  /\ MadeIds(t) \subseteq DOMAIN store

\* The chain has the notes of the wallet, each once.
ChainInv ==
  /\ IsList(leaves) /\ visible \in 0..Len(leaves)
  /\ \A c \in OnChain : c = Coin(c.id, c.amount) /\ c.id \in DOMAIN store
  /\ \A c, d \in OnChain : c.id = d.id => c = d
  /\ spent \subseteq Tags(OnChain)
  /\ resting \subseteq DOMAIN store /\ resting \cap Tags(OnChain) = {}
  /\ \A n \in resting : store[n].cancel > 0

\* A note that may still come has not come yet, and one call only brings it.
MayInv ==
  /\ \A o \in Op : \A n \in May(o) : ~Born(n)
  /\ \A o, q \in Op : o # q => May(o) \cap May(q) = {}

\* Every note of the store is right.
StoreInv ==
  /\ IsList(store) /\ DOMAIN store \subseteq NoteId
  /\ \A n \in DOMAIN store : Right(n, store[n])

\* So is every update that is still to be made, and the copy that one is made
\* from; no update changes what an order gave.
UpdateInv(x) ==
  /\ IsList(proc[x].todo)
  /\ \A u \in ToSet(proc[x].todo) : u.id \in DOMAIN store /\ Patch(u.id, u.patch)
  /\ proc[x].held # Nobody =>
       /\ proc[x].held.id \in DOMAIN store
       /\ Right(proc[x].held.id, proc[x].held.note)
       /\ proc[x].held.note.cancel = store[proc[x].held.id].cancel

\* An order gives a note of the amount that its output note has in cancel.
Funded(t) ==
  \A n \in t.rests : \E c \in OnChain : c.amount > 0 /\ t.spends = {Coin(c.id, store[n].cancel)}

\* A transaction makes every note once.
Distinct(t) ==
  /\ \A c, d \in ToSet(t.mints) : c.id = d.id => c = d
  /\ Tags(ToSet(t.mints)) \cap t.rests = {}

\* A call submits what it has staged, and what has landed is on the chain.
TxInv(o) ==
  /\ CallInv(proc[o].call) /\ CallInv(tx[o])
  /\ proc[o].at = "submit" => Distinct(proc[o].call) /\ Funded(proc[o].call)
  /\ tx[o].status = "pending" =>
       Distinct(tx[o]) /\ Funded(tx[o]) /\ proc[o].at \in {"poll", "failed", "gone"}
  /\ tx[o].status = "landed" =>
       /\ tx[o].spends \subseteq OnChain /\ Tags(tx[o].spends) \subseteq spent
       /\ ToSet(tx[o].mints) \subseteq OnChain
       /\ \A n \in tx[o].removes : Dead(n)

\* What a step keeps of everything that the other calls know: nothing leaves the
\* store, the tree or the nullifiers, and only a call can bring a note to the chain.
Grew ==
  /\ DOMAIN store \subseteq DOMAIN store' /\ OnChain \subseteq OnChain' /\ spent \subseteq spent'
  /\ request' = request
  /\ \A n \in DOMAIN store : store'[n].cancel = store[n].cancel
  /\ \A n \in DOMAIN store : Born(n)' => Born(n) \/ \E o \in Op : n \in May(o)
  /\ \A n \in DOMAIN store, o \in Op : n \in May(o)' => n \in May(o)

\* A note that will never come never does.
LEMMA DeadStays ==
  ASSUME Grew
  PROVE  \A n : Dead(n) => Dead(n)'
BY DEF Grew, Dead

\* A note, and a stale copy of it, stays right whatever the others do.
LEMMA RightStays ==
  ASSUME Grew
  PROVE  \A n, note : Right(n, note) => Right(n, note)'
BY DeadStays DEF Grew, Right

\* And so does a change that is still to be made.
LEMMA PatchStays ==
  ASSUME Grew
  PROVE  \A n, p : Patch(n, p) => Patch(n, p)'
BY DeadStays DEF Grew, Patch

\* So a step leaves the updates of the others as right as they were.
LEMMA UpdatesStay ==
  ASSUME Grew, NEW x, UpdateInv(x), proc'[x].todo = proc[x].todo, proc'[x].held = proc[x].held
  PROVE  UpdateInv(x)'
BY RightStays, PatchStays DEF UpdateInv, Grew

\* A step leaves the transactions of the other calls as they were.
LEMMA TxStays ==
  ASSUME Grew, NEW o \in Op, TxInv(o), proc'[o] = proc[o], tx'[o] = tx[o]
  PROVE  TxInv(o)'
BY DeadStays DEF TxInv, Grew, CallInv, Funded, Distinct, MadeIds

\* The calls that give a note of an exact amount.
Spending(o) == request[o].kind \in {"place_order", "unshield"}

\* The steps of a plan end in a note of the amount that was asked for.
Planned(o) ==
  /\ request[o].amount > 0 /\ IsList(proc[o].steps)
  /\ proc[o].steps # <<>> => proc[o].steps[Len(proc[o].steps)].target = request[o].amount
  /\ proc[o].steps = <<>> => proc[o].offer = Coin(proc[o].offer.id, request[o].amount)

\* What the invocations of the calls do, and where each goes from there.
ShieldCall(o, t) ==
  /\ request[o].kind = "shield" /\ proc[o].next = "confirm"
  /\ \E n : proc[o].offer = Coin(n, request[o].amount)
  /\ t.mints = <<proc[o].offer>>
CancelCall(o, t) ==
  /\ request[o].kind = "cancel_order" /\ proc[o].next = "done"
  /\ \E n \in NoteId : t.mints = <<Coin(n, store[request[o].note].cancel)>>
JoinCall(o, t) ==
  /\ Spending(o) /\ Planned(o) /\ proc[o].next = "confirm"
  /\ proc[o].offer \in ToSet(t.mints)
SpendCall(o, t) ==
  /\ Spending(o) /\ proc[o].next = "done"
  /\ t.spends = {proc[o].offer} /\ proc[o].offer \in OnChain
  /\ proc[o].offer = Coin(proc[o].offer.id, request[o].amount)
Called(o, t) ==
  ShieldCall(o, t) \/ CancelCall(o, t) \/ JoinCall(o, t) \/ SpendCall(o, t)

\* Where a call is, it knows that the coin it gives is on the chain, or that its
\* plan will make it; it is done when the chain has done what it was asked.
OpInv(o) ==
  /\ request[o].amount \in Nat
  /\ request[o].kind = "cancel_order" => request[o].note \in DOMAIN store
  /\ proc[o].at \in {"start", "submit", "poll", "confirm", "path", "path2", "join", "spend",
                     "done", "failed", "gone"}
  /\ proc[o].at = "submit" => Called(o, proc[o].call) /\ proc[o].call.status = "pending"
  /\ proc[o].at = "poll" => Called(o, tx[o])
  /\ proc[o].at = "confirm" =>
       /\ proc[o].offer \in OnChain
       /\ \/ tx[o].status = "landed" /\ ShieldCall(o, tx[o])
          \/ Spending(o) /\ Planned(o)
  /\ proc[o].at \in {"path", "path2", "join"} =>
       Spending(o) /\ Planned(o) /\ proc[o].steps # <<>>
  /\ proc[o].at = "spend" =>
       Spending(o) /\ Planned(o) /\ proc[o].steps = <<>> /\ proc[o].offer \in OnChain
  /\ proc[o].at = "done" =>
       /\ tx[o].status = "landed"
       /\ ShieldCall(o, tx[o]) \/ CancelCall(o, tx[o]) \/ SpendCall(o, tx[o])

\* A step of another call takes nothing of this away.
LEMMA OpStays ==
  ASSUME Grew, NEW o \in Op, OpInv(o), proc'[o] = proc[o], tx'[o] = tx[o]
  PROVE  OpInv(o)'
<1>1. \A t : Called(o, t) => Called(o, t)'
  BY DEF Grew, OpInv, Called, ShieldCall, CancelCall, JoinCall, SpendCall, Spending, Planned
<1>2. \A t : ShieldCall(o, t) => ShieldCall(o, t)'
  BY DEF Grew, ShieldCall
<1>3. \A t : CancelCall(o, t) => CancelCall(o, t)'
  BY DEF Grew, CancelCall, OpInv
<1>4. \A t : SpendCall(o, t) => SpendCall(o, t)'
  BY DEF Grew, SpendCall, Spending
<1>5. (Spending(o) => Spending(o)') /\ (Planned(o) => Planned(o)')
  BY DEF Grew, Spending, Planned
<1> QED
  BY <1>1, <1>2, <1>3, <1>4, <1>5 DEF Grew, OpInv

\* The inductive invariant.
ClientInv ==
  /\ Locals /\ DOMAIN tx = Op
  /\ StoreInv /\ ChainInv /\ MayInv
  /\ \A x \in Process : UpdateInv(x)
  /\ \A o \in Op : TxInv(o) /\ OpInv(o)
  /\ proc[Loop].at = "start"

-----------------------------------------------------------------------------
\* What is left to show of a step of one call or of the loop.
LEMMA StepOf ==
  ASSUME ClientInv, Grew, NEW x \in Process,
         \A y \in Process : y # x => proc'[y] = proc[y],
         \A o \in Op : o # x => tx'[o] = tx[o],
         Locals', DOMAIN tx' = Op, StoreInv', ChainInv', MayInv', UpdateInv(x)',
         x \in Op => TxInv(x)' /\ OpInv(x)', proc'[Loop].at = "start"
  PROVE  ClientInv'
<1>1. ASSUME NEW y \in Process
      PROVE  UpdateInv(y)'
  <2>1. CASE y = x
    BY <2>1
  <2>2. CASE y # x
    BY <2>2, UpdatesStay DEF ClientInv
  <2> QED
    BY <2>1, <2>2
<1>2. ASSUME NEW o \in Op
      PROVE  TxInv(o)' /\ OpInv(o)'
  <2>1. CASE o = x
    BY <2>1
  <2>2. CASE o # x
    BY <2>2, TxStays, OpStays DEF ClientInv, Process
  <2> QED
    BY <2>1, <2>2
<1> QED
  BY <1>1, <1>2 DEF ClientInv

\* A step that changes neither the store nor the chain leaves them as they were,
\* if no call can bring more than before.
LEMMA Kept ==
  ASSUME ClientInv, UNCHANGED <<store, chainVars, request>>,
         \A o \in Op : May(o)' \subseteq May(o)
  PROVE  Grew /\ StoreInv' /\ ChainInv' /\ MayInv'
<1>1. UNCHANGED <<store, leaves, visible, spent, resting, request>>
  BY DEF chainVars
<1>2. Grew
  BY <1>1 DEF Grew, Born, OnChain
<1>3. StoreInv'
  BY <1>1, <1>2, RightStays DEF ClientInv, StoreInv
<1>4. ChainInv'
  BY <1>1 DEF ClientInv, ChainInv, OnChain
<1>5. MayInv'
  BY <1>1 DEF ClientInv, MayInv, Born, OnChain
<1> QED
  BY <1>2, <1>3, <1>4, <1>5

\* A step that changes only what one call or the loop knows.
LEMMA LocalStep ==
  ASSUME ClientInv, NEW x \in Process, NEW f, Goto(x, f), DOMAIN f \subseteq Fields,
         UNCHANGED <<store, chainVars, request, tx>>,
         proc'[x].at = "submit" => proc[x].at = "submit" /\ proc'[x].call = proc[x].call,
         x = Loop => proc'[x].at = proc[x].at,
         Grew => UpdateInv(x)',
         x \in Op => (Grew => TxInv(x)' /\ OpInv(x)')
  PROVE  ClientInv'
<1>1. /\ Locals' /\ \A y \in Process : y # x => proc'[y] = proc[y]
  BY Went DEF ClientInv
<1>2. ASSUME NEW o \in Op
      PROVE  May(o)' \subseteq May(o)
  <2>1. CASE o = x
    BY <2>1 DEF May, ClientInv, TxInv
  <2>2. CASE o # x
    BY <1>1, <2>2 DEF May, Process
  <2> QED
    BY <2>1, <2>2
<1>3. Grew /\ StoreInv' /\ ChainInv' /\ MayInv'
  BY <1>2, Kept
<1>4. proc'[Loop].at = "start" /\ DOMAIN tx' = Op
  BY <1>1 DEF ClientInv, Process
<1> QED
  BY <1>1, <1>3, <1>4, StepOf

\* A call is not the loop.
LEMMA OpIsProcess == \A o \in Op : o \in Process /\ o # Loop
BY ClientAssumption DEF Process

\* A step after which the call has nothing to write: where it goes, its call and
\* its transaction decide.
LEMMA Quiet ==
  ASSUME ClientInv, NEW o \in Op, NEW f, Goto(o, f), DOMAIN f \subseteq Fields,
         UNCHANGED <<store, chainVars, request, tx>>,
         "call" \notin DOMAIN f, "todo" \notin DOMAIN f, "held" \notin DOMAIN f,
         proc'[o].at # "submit",
         tx[o].status = "pending" => proc'[o].at \in {"poll", "failed", "gone"},
         Grew => OpInv(o)'
  PROVE  ClientInv'
<1>1. /\ o \in Process /\ o # Loop
      /\ proc'[o].call = proc[o].call /\ proc'[o].todo = proc[o].todo
      /\ proc'[o].held = proc[o].held
  BY Went, OpIsProcess DEF ClientInv, Fields
<1>2. ASSUME Grew
      PROVE  UpdateInv(o)' /\ TxInv(o)'
  <2>1. UpdateInv(o)'
    BY <1>1, <1>2, UpdatesStay DEF ClientInv
  <2>2. TxInv(o)'
    BY <1>1, <1>2, DeadStays
       DEF ClientInv, TxInv, Grew, CallInv, Funded, Distinct, MadeIds
  <2> QED
    BY <2>1, <2>2
<1> QED
  BY <1>1, <1>2, LocalStep

\* A step that only goes elsewhere keeps all else.
LEMMA AtOnly ==
  ASSUME ClientInv, NEW o \in Op, NEW a, Goto(o, [at |-> a])
  PROVE  /\ DOMAIN [at |-> a] = {"at"} /\ {"at"} \subseteq Fields
         /\ proc'[o].at = a /\ proc'[o].next = proc[o].next /\ proc'[o].offer = proc[o].offer
         /\ proc'[o].steps = proc[o].steps /\ proc'[o].call = proc[o].call
         /\ proc'[o].todo = proc[o].todo /\ proc'[o].held = proc[o].held
<1> DEFINE f == [at |-> a]
<1>1. DOMAIN f = {"at"} /\ {"at"} \subseteq Fields /\ f.at = a
  BY DEF Fields
<1> HIDE DEF f
<1>2. Goto(o, f)
  BY DEF f
<1> QED
  BY <1>1, <1>2, Went, OpIsProcess DEF ClientInv, Fields, f

\* A call may fail wherever it is.
LEMMA FailStep ==
  ASSUME ClientInv, NEW o \in Op, Fail(o), UNCHANGED <<store, chainVars, request, tx>>
  PROVE  ClientInv'
<1>1. Goto(o, [at |-> "failed"])
  BY DEF Fail
<1>2. Grew => OpInv(o)'
  BY <1>1, AtOnly DEF ClientInv, OpInv, Grew
<1> QED
  BY <1>1, <1>2, AtOnly, Quiet

\* It fails too when it gives up waiting, and its transaction may still land.
LEMMA GiveUpStep ==
  ASSUME ClientInv, NEW o \in Op, GiveUp(o)
  PROVE  ClientInv'
BY FailStep DEF GiveUp

\* A path that is read changes nothing of the plan.
LEMMA JoinPathStep ==
  ASSUME ClientInv, NEW o \in Op, JoinPath(o)
  PROVE  ClientInv'
<1> DEFINE f == [at |-> IF InputB(o) = 0 THEN "join" ELSE "path2", root |-> visible]
<1>1. DOMAIN f = {"at", "root"} /\ DOMAIN f \subseteq Fields /\ f.at \in {"join", "path2"}
  BY DEF Fields
<1>2. Goto(o, f) /\ proc[o].at = "path" /\ UNCHANGED <<store, chainVars, request, tx>>
  BY DEF JoinPath, At
<1> HIDE DEF f
<1>3. /\ proc'[o].at = f.at /\ proc'[o].next = proc[o].next /\ proc'[o].offer = proc[o].offer
      /\ proc'[o].steps = proc[o].steps
  BY <1>1, <1>2, Went, OpIsProcess DEF ClientInv, Fields
<1>4. OpInv(o)'
  BY <1>1, <1>2, <1>3 DEF ClientInv, OpInv, Spending, Planned
<1>5. tx[o].status # "pending"
  BY <1>2 DEF ClientInv, TxInv
<1> QED
  BY <1>1, <1>2, <1>3, <1>4, <1>5, Quiet

\* Nor does the second one.
LEMMA JoinPath2Step ==
  ASSUME ClientInv, NEW o \in Op, JoinPath2(o)
  PROVE  ClientInv'
<1>1. proc[o].at = "path2" /\ UNCHANGED <<store, chainVars, request, tx>>
  BY DEF JoinPath2, At
<1>2. CASE Goto(o, [at |-> "join"])
  <2>1. OpInv(o)'
    BY <1>1, <1>2, AtOnly DEF ClientInv, OpInv, Spending, Planned
  <2>2. tx[o].status # "pending"
    BY <1>1 DEF ClientInv, TxInv
  <2> QED
    BY <1>1, <1>2, <2>1, <2>2, AtOnly, Quiet
<1>3. CASE Fail(o)
  BY <1>1, <1>3, FailStep
<1> QED
  BY <1>2, <1>3 DEF JoinPath2

\* A confirmed note is on the chain: the call goes on with its plan.
LEMMA ConfirmedStep ==
  ASSUME ClientInv, NEW o \in Op, Confirmed(o)
  PROVE  ClientInv'
<1> DEFINE a == IF request[o].kind = "shield" THEN "done"
                ELSE IF proc[o].steps # <<>> THEN "path" ELSE "spend"
<1>1. /\ proc[o].at = "confirm" /\ UNCHANGED <<store, chainVars, request, tx>>
      /\ Goto(o, [at |-> a])
  BY DEF Confirmed, At
<1>2. tx[o].status # "pending"
  BY <1>1 DEF ClientInv, TxInv
<1>3. OpInv(o)'
  <2>1. CASE tx[o].status = "landed" /\ ShieldCall(o, tx[o])
    <3>1. a = "done"
      BY <2>1 DEF ShieldCall
    <3> QED
      BY <1>1, <2>1, <3>1, AtOnly DEF ClientInv, OpInv, ShieldCall
  <2>2. CASE Spending(o) /\ Planned(o)
    <3>1. a = IF proc[o].steps # <<>> THEN "path" ELSE "spend"
      BY <2>2 DEF Spending
    <3> HIDE DEF a
    <3>2. proc[o].offer \in OnChain
      BY <1>1 DEF ClientInv, OpInv
    <3> QED
      BY <1>1, <2>2, <3>1, <3>2, AtOnly DEF ClientInv, OpInv, Spending, Planned, chainVars, OnChain
  <2> QED
    BY <1>1, <2>1, <2>2 DEF ClientInv, OpInv
<1>4. a # "submit"
  OBVIOUS
<1> HIDE DEF a
<1> QED
  BY <1>1, <1>2, <1>3, <1>4, AtOnly, Quiet

\* A shield that is not confirmed in time has landed all the same.
LEMMA ConfirmTimesOutStep ==
  ASSUME ClientInv, NEW o \in Op, ConfirmTimesOut(o)
  PROVE  ClientInv'
<1>1. proc[o].at = "confirm" /\ UNCHANGED <<store, chainVars, request, tx>>
  BY DEF ConfirmTimesOut, At
<1>2. CASE request[o].kind = "shield" /\ Goto(o, [at |-> "done"])
  <2>1. tx[o].status = "landed" /\ ShieldCall(o, tx[o])
    BY <1>1, <1>2 DEF ClientInv, OpInv, Spending
  <2>2. OpInv(o)'
    BY <1>1, <1>2, <2>1, AtOnly DEF ClientInv, OpInv, ShieldCall
  <2> QED
    BY <1>1, <1>2, <2>1, <2>2, AtOnly, Quiet
<1>3. CASE Fail(o)
  BY <1>1, <1>3, FailStep
<1> QED
  BY <1>2, <1>3 DEF ConfirmTimesOut

-----------------------------------------------------------------------------
\* A plan names a note of the amount, or its last join makes one.
LEMMA PlanExact ==
  ASSUME NEW notes, NEW asset, NEW target \in Nat, NEW plan \in PlanAssembly(notes, asset, target)
  PROVE  /\ target > 0 /\ IsList(plan.steps)
         /\ plan.steps = <<>> =>
              /\ plan.note \in DOMAIN notes /\ notes[plan.note].indexed
              /\ notes[plan.note].amount = target
         /\ plan.steps # <<>> => plan.steps[Len(plan.steps)].target = target
<1> DEFINE spendable == SpendableNotes(notes, asset)
           exact == {n \in spendable : notes[n].amount = target}
<1>1. target > 0
  BY DEF PlanAssembly
<1>2. CASE \E n \in exact : plan = [note |-> n, steps |-> <<>>]
  BY <1>1, <1>2 DEF SpendableNotes, IsList, ToSet
<1>3. CASE \E n \in DOMAIN notes : plan = [note |-> 0, steps |-> Split(notes, n, target)]
  <2>1. PICK n \in DOMAIN notes : plan = [note |-> 0, steps |-> Split(notes, n, target)]
    BY <1>3
  <2> DEFINE step == [a |-> n, b |-> 0, target |-> target, change |-> notes[n].amount - target]
  <2>2. plan.steps = <<step>> /\ step.target = target
    BY <2>1 DEF Split
  <2> HIDE DEF step
  <2>3. Len(<<step>>) = 1 /\ <<step>>[1] = step /\ <<step>> # <<>> /\ IsList(<<step>>)
    BY DEF IsList, ToSet
  <2> QED
    BY <1>1, <2>2, <2>3
<1>4. CASE \E s \in Merges(notes, spendable, target) :
             plan = [note |-> 0, steps |-> Joins(notes, s, target)]
  <2>1. PICK s \in Merges(notes, spendable, target) :
          plan = [note |-> 0, steps |-> Joins(notes, s, target)]
    BY <1>4
  <2>2. PICK k \in 2..Cardinality(spendable) : s \in [1..k -> spendable]
    BY DEF Merges
  <2>3. k \in Nat /\ k >= 2 /\ Len(s) = k
    BY <2>2
  <2> DEFINE t == plan.steps
  <2>4. /\ DOMAIN t = 1..(k - 1) /\ t = [i \in 1..(k - 1) |-> t[i]]
        /\ t[k - 1].target = target
    BY <2>1, <2>3 DEF Joins
  <2> HIDE DEF t
  <2>5. t \in Seq(ToSet(t)) /\ Len(t) = k - 1
    <3>1. t \in [1..(k - 1) -> ToSet(t)]
      BY <2>4 DEF ToSet
    <3> QED
      BY <2>3, <3>1
  <2>6. t # <<>>
    BY <2>3, <2>5
  <2> QED
    BY <1>1, <2>4, <2>5, <2>6 DEF t, IsList
<1> QED
  BY <1>1, <1>2, <1>3, <1>4 DEF PlanAssembly, SpendableNotes

\* The coin that a call assembles is on the chain, or its plan makes it.
LEMMA AssembleStep ==
  ASSUME ClientInv, NEW o \in Op, Assemble(o)
  PROVE  ClientInv'
<1>1. /\ proc[o].at = "start" /\ Spending(o) /\ UNCHANGED <<store, chainVars, request, tx>>
      /\ request[o].amount \in Nat
  BY DEF Assemble, At, Spending, ClientInv, OpInv
<1>2. CASE Fail(o)
  BY <1>1, <1>2, FailStep
<1>3. ASSUME NEW plan \in PlanAssembly(store, request[o].asset, request[o].amount),
             Goto(o, [at |-> IF plan.steps = <<>> THEN "confirm" ELSE "path",
                      offer |-> Coin(plan.note, request[o].amount), steps |-> plan.steps,
                      pool |-> [n \in DOMAIN store |-> store[n].amount]])
      PROVE  ClientInv'
  <2> DEFINE f == [at |-> IF plan.steps = <<>> THEN "confirm" ELSE "path",
                   offer |-> Coin(plan.note, request[o].amount), steps |-> plan.steps,
                   pool |-> [n \in DOMAIN store |-> store[n].amount]]
  <2>1. /\ DOMAIN f = {"at", "offer", "steps", "pool"} /\ DOMAIN f \subseteq Fields
        /\ f.at = (IF plan.steps = <<>> THEN "confirm" ELSE "path") /\ f.steps = plan.steps
        /\ f.offer = Coin(plan.note, request[o].amount) /\ Goto(o, f)
    BY <1>3 DEF Fields
  <2> HIDE DEF f
  <2>2. /\ proc'[o].at = f.at /\ proc'[o].offer = f.offer /\ proc'[o].steps = f.steps
    BY <2>1, Went, OpIsProcess DEF ClientInv, Fields
  <2>3. /\ request[o].amount > 0 /\ IsList(plan.steps)
        /\ plan.steps = <<>> => plan.note \in DOMAIN store /\ store[plan.note].indexed
                                  /\ store[plan.note].amount = request[o].amount
        /\ plan.steps # <<>> => plan.steps[Len(plan.steps)].target = request[o].amount
    BY <1>1, PlanExact
  <2>4. f.offer = Coin(f.offer.id, request[o].amount)
    BY <2>1 DEF Coin
  <2>5. plan.steps = <<>> => f.offer \in OnChain
    BY <2>1, <2>3 DEF ClientInv, StoreInv, Right
  <2>6. Spending(o)' /\ Planned(o)'
    BY <1>1, <2>1, <2>2, <2>3, <2>4 DEF Spending, Planned
  <2>7. OpInv(o)'
    BY <1>1, <2>1, <2>2, <2>5, <2>6 DEF ClientInv, OpInv, chainVars, OnChain
  <2>8. tx[o].status # "pending"
    BY <1>1 DEF ClientInv, TxInv
  <2> QED
    BY <1>1, <2>1, <2>2, <2>7, <2>8, Quiet
<1> QED
  BY <1>2, <1>3 DEF Assemble

-----------------------------------------------------------------------------
\* A sequence over a set has elements of it only.
LEMMA ListOf ==
  ASSUME NEW T, NEW s \in Seq(T)
  PROVE  IsList(s) /\ ToSet(s) \subseteq T
<1>1. DOMAIN s = 1..Len(s) /\ Len(s) \in Nat /\ s \in [1..Len(s) -> ToSet(s)]
  BY DEF ToSet
<1> QED
  BY <1>1 DEF IsList, ToSet

\* Two sequences, joined, have the elements of both.
LEMMA Joined ==
  ASSUME NEW s, NEW t, IsList(s), IsList(t)
  PROVE  IsList(s \o t) /\ ToSet(s \o t) = ToSet(s) \cup ToSet(t)
<1> DEFINE S == ToSet(s)
           T == ToSet(t)
<1>1. s \in Seq(S) /\ t \in Seq(T) /\ s \in Seq(S \cup T) /\ t \in Seq(S \cup T)
  BY DEF IsList
<1>2. s \o t \in Seq(S \cup T)
  BY <1>1
<1>3. /\ DOMAIN (s \o t) = 1..(Len(s) + Len(t)) /\ Len(s) \in Nat /\ Len(t) \in Nat
      /\ DOMAIN s = 1..Len(s) /\ DOMAIN t = 1..Len(t)
      /\ \A i \in 1..Len(s) : (s \o t)[i] = s[i]
      /\ \A i \in 1..Len(t) : (s \o t)[Len(s) + i] = t[i]
  BY <1>1
<1>4. ASSUME NEW x \in S
      PROVE  x \in ToSet(s \o t)
  BY <1>3, <1>4 DEF ToSet
<1>5. ASSUME NEW x \in T
      PROVE  x \in ToSet(s \o t)
  <2>1. PICK i \in 1..Len(t) : x = t[i]
    BY <1>3, <1>5 DEF ToSet
  <2>2. Len(s) + i \in DOMAIN (s \o t) /\ (s \o t)[Len(s) + i] = x
    BY <1>3, <2>1
  <2> QED
    BY <2>2 DEF ToSet
<1>6. IsList(s \o t) /\ ToSet(s \o t) \subseteq S \cup T
  BY <1>2, ListOf
<1> QED
  BY <1>4, <1>5, <1>6

\* The same patch for every element of a set.
LEMMA Mapped ==
  ASSUME NEW S, IsFiniteSet(S), NEW p
  PROVE  LET s == SetToSeq(S)
             us == [i \in DOMAIN s |-> [id |-> s[i], patch |-> p]]
         IN  IsList(us) /\ ToSet(us) \subseteq {[id |-> n, patch |-> p] : n \in S}
<1> DEFINE s == SetToSeq(S)
           us == [i \in DOMAIN s |-> [id |-> s[i], patch |-> p]]
           T == {[id |-> n, patch |-> p] : n \in S}
<1>1. s \in Seq(S)
  BY ListsSet
<1> HIDE DEF s
<1>2. us \in Seq(T)
  BY <1>1
<1> HIDE DEF us, T
<1>3. IsList(us) /\ ToSet(us) \subseteq T
  BY <1>2, ListOf
<1> QED
  BY <1>3 DEF s, us, T

\* A finite set of coins has a finite set of tags.
LEMMA FiniteTags ==
  ASSUME NEW S, IsFiniteSet(S)
  PROVE  IsFiniteSet(Tags(S))
<1> DEFINE f == [c \in S |-> c.id]
<1>1. f \in Surjection(S, Tags(S))
  BY DEF Surjection, Tags
<1> QED
  BY <1>1, FS_Surjection

\* A sequence has a finite set of elements.
LEMMA FiniteList ==
  ASSUME NEW s, IsList(s)
  PROVE  IsFiniteSet(ToSet(s))
<1>1. s \in Surjection(1..Len(s), ToSet(s)) /\ Len(s) \in Nat
  BY DEF Surjection, IsList, ToSet
<1> QED
  BY <1>1, FS_Surjection, FS_Interval

\* What a landed transaction has a call write is so.
LEMMA UpdatesRight ==
  ASSUME NEW t, CallInv(t), t.spends \subseteq OnChain, Tags(t.spends) \subseteq spent,
         ChainInv, \A n \in t.removes : Dead(n)
  PROVE  /\ IsList(Updates(t))
         /\ \A u \in ToSet(Updates(t)) : u.id \in DOMAIN store /\ Patch(u.id, u.patch)
<1> DEFINE M == Tags(ToSet(t.mints)) \cup t.rests
           G == Tags(t.spends)
           made == SetToSeq(M)
           gone == SetToSeq(G)
           cancelled == SetToSeq(t.removes)
           a == [i \in DOMAIN made |-> [id |-> made[i], patch |-> <<>>]]
           b == [i \in DOMAIN gone |-> [id |-> gone[i], patch |-> [status |-> "spent"]]]
           c == [i \in DOMAIN cancelled |->
                   [id |-> cancelled[i], patch |-> [status |-> "cancelled"]]]
<1>1. IsFiniteSet(M) /\ IsFiniteSet(G) /\ IsFiniteSet(t.removes)
  BY FiniteTags, FiniteList, FS_Union DEF CallInv
<1>2. IsList(a) /\ ToSet(a) \subseteq {[id |-> n, patch |-> <<>>] : n \in M}
  BY <1>1, Mapped
<1>3. IsList(b) /\ ToSet(b) \subseteq {[id |-> n, patch |-> [status |-> "spent"]] : n \in G}
  BY <1>1, Mapped
<1>4. /\ IsList(c)
      /\ ToSet(c) \subseteq {[id |-> n, patch |-> [status |-> "cancelled"]] : n \in t.removes}
  BY <1>1, Mapped
<1>5. Updates(t) = a \o b \o c
  BY DEF Updates
<1>6. /\ M \subseteq DOMAIN store /\ G \subseteq DOMAIN store /\ G \subseteq spent
  BY DEF CallInv, MadeIds, ChainInv, Tags
<1>7. \A n \in t.removes : n \in DOMAIN store /\ Dead(n)
  BY DEF Dead
<1> HIDE DEF a, b, c, M, G
<1>8. IsList(a \o b) /\ ToSet(a \o b) = ToSet(a) \cup ToSet(b)
  BY <1>2, <1>3, Joined
<1>9. IsList(Updates(t)) /\ ToSet(Updates(t)) = ToSet(a) \cup ToSet(b) \cup ToSet(c)
  BY <1>4, <1>5, <1>8, Joined
<1>10. \A u \in ToSet(a) : u.id \in DOMAIN store /\ Patch(u.id, u.patch)
  BY <1>2, <1>6 DEF Patch
<1>11. \A u \in ToSet(b) : u.id \in DOMAIN store /\ Patch(u.id, u.patch)
  BY <1>3, <1>6 DEF Patch
<1>12. \A u \in ToSet(c) : u.id \in DOMAIN store /\ Patch(u.id, u.patch)
  BY <1>4, <1>7 DEF Patch
<1> QED
  BY <1>9, <1>10, <1>11, <1>12

\* A call learns that its transaction has landed, and what it then writes is so.
LEMMA PollStep ==
  ASSUME ClientInv, NEW o \in Op, Poll(o)
  PROVE  ClientInv'
<1>1. proc[o].at = "poll" /\ UNCHANGED <<store, chainVars, request, tx>> /\ proc[o].held = Nobody
  BY DEF Poll, At
<1>2. CASE Fail(o)
  BY <1>1, <1>2, FailStep
<1>3. CASE tx[o].status = "landed" /\ Goto(o, [at |-> proc[o].next, todo |-> Updates(tx[o])])
  <2> DEFINE f == [at |-> proc[o].next, todo |-> Updates(tx[o])]
  <2>1. /\ DOMAIN f = {"at", "todo"} /\ DOMAIN f \subseteq Fields
        /\ f.at = proc[o].next /\ f.todo = Updates(tx[o]) /\ Goto(o, f)
    BY <1>3 DEF Fields
  <2> HIDE DEF f
  <2>2. /\ proc'[o].at = proc[o].next /\ proc'[o].todo = Updates(tx[o])
        /\ proc'[o].held = Nobody /\ proc'[o].call = proc[o].call /\ proc'[o].next = proc[o].next
        /\ proc'[o].offer = proc[o].offer /\ proc'[o].steps = proc[o].steps
    BY <1>1, <2>1, Went, OpIsProcess DEF ClientInv, Fields
  <2>3. /\ CallInv(tx[o]) /\ tx[o].spends \subseteq OnChain /\ Tags(tx[o].spends) \subseteq spent
        /\ ChainInv /\ \A n \in tx[o].removes : Dead(n)
        /\ ToSet(tx[o].mints) \subseteq OnChain
    BY <1>3 DEF ClientInv, TxInv
  <2>4. /\ IsList(Updates(tx[o]))
        /\ \A u \in ToSet(Updates(tx[o])) : u.id \in DOMAIN store /\ Patch(u.id, u.patch)
    BY <2>3, UpdatesRight
  <2>5. ASSUME Grew
        PROVE  UpdateInv(o)'
    BY <1>1, <2>2, <2>4, <2>5, PatchStays DEF UpdateInv
  <2>6. proc[o].next \in {"confirm", "done"} /\ Called(o, tx[o])
    BY <1>1 DEF ClientInv, OpInv, Called, ShieldCall, CancelCall, JoinCall, SpendCall
  <2>7. ASSUME Grew
        PROVE  TxInv(o)'
    BY <1>1, <1>3, <2>2, <2>6, <2>7, DeadStays
       DEF ClientInv, TxInv, Grew, CallInv, Funded, Distinct, MadeIds
  <2>8. ShieldCall(o, tx[o]) \/ JoinCall(o, tx[o]) => proc[o].offer \in OnChain
    BY <2>3 DEF ShieldCall, JoinCall, ToSet
  <2>9. ASSUME Grew
        PROVE  OpInv(o)'
    <3>1. CASE ShieldCall(o, tx[o])
      BY <1>1, <1>3, <2>2, <2>8, <2>9, <3>1 DEF ClientInv, OpInv, ShieldCall, Grew
    <3>2. CASE CancelCall(o, tx[o])
      BY <1>1, <1>3, <2>2, <2>9, <3>2 DEF ClientInv, OpInv, CancelCall, Grew
    <3>3. CASE JoinCall(o, tx[o])
      BY <1>1, <1>3, <2>2, <2>8, <2>9, <3>3
         DEF ClientInv, OpInv, JoinCall, Grew, Spending, Planned
    <3>4. CASE SpendCall(o, tx[o])
      BY <1>1, <1>3, <2>2, <2>9, <3>4 DEF ClientInv, OpInv, SpendCall, Grew, Spending
    <3> QED
      BY <2>6, <3>1, <3>2, <3>3, <3>4 DEF Called
  <2> QED
    BY <1>1, <2>1, <2>2, <2>5, <2>6, <2>7, <2>9, OpIsProcess, LocalStep
<1> QED
  BY <1>1, <1>2, <1>3 DEF Poll, Succeeded

-----------------------------------------------------------------------------
\* A step of a call or the loop that concerns only its updates of the store.
LEMMA UpdateStep ==
  ASSUME ClientInv, NEW x \in Process, NEW f, Goto(x, f), DOMAIN f \subseteq {"todo", "held"},
         UNCHANGED <<store, chainVars, request, tx>>, Grew => UpdateInv(x)'
  PROVE  ClientInv'
<1>1. /\ proc'[x].at = proc[x].at /\ proc'[x].call = proc[x].call /\ proc'[x].next = proc[x].next
      /\ proc'[x].offer = proc[x].offer /\ proc'[x].steps = proc[x].steps
      /\ DOMAIN f \subseteq Fields
  BY Went DEF ClientInv, Fields
<1>2. ASSUME x \in Op, Grew
      PROVE  TxInv(x)' /\ OpInv(x)'
  <2>1. TxInv(x)'
    BY <1>1, <1>2, DeadStays DEF ClientInv, TxInv, Grew, CallInv, Funded, Distinct, MadeIds
  <2>2. /\ Called(x, tx[x]) => Called(x, tx[x])'
        /\ Called(x, proc[x].call) => Called(x, proc[x].call)'
        /\ ShieldCall(x, tx[x]) => ShieldCall(x, tx[x])'
        /\ SpendCall(x, tx[x]) => SpendCall(x, tx[x])'
        /\ Spending(x) => Spending(x)'
        /\ Planned(x) => Planned(x)'
    BY <1>1, <1>2 DEF ClientInv, OpInv, Grew, Called, ShieldCall, CancelCall, JoinCall,
                      SpendCall, Spending, Planned
  <2>3. CancelCall(x, tx[x]) => CancelCall(x, tx[x])'
    BY <1>1, <1>2 DEF ClientInv, OpInv, Grew, CancelCall
  <2>4. OpInv(x)'
    BY <1>1, <1>2, <2>2, <2>3 DEF ClientInv, OpInv, Grew
  <2> QED
    BY <2>1, <2>4
<1> QED
  BY <1>1, <1>2, LocalStep

\* The first of a list and what is left of it.
LEMMA HeadTail ==
  ASSUME NEW s, IsList(s), s # <<>>
  PROVE  Head(s) \in ToSet(s) /\ IsList(Tail(s)) /\ ToSet(Tail(s)) \subseteq ToSet(s)
<1>1. Tail(s) \in Seq(ToSet(s)) /\ Head(s) \in ToSet(s)
  BY DEF IsList
<1> QED
  BY <1>1, ListOf

\* A patch that is right makes a right note of one that was.
LEMMA PatchRight ==
  ASSUME NEW n, NEW note, NEW p, Right(n, note), Patch(n, p)
  PROVE  Right(n, With(note, p)) /\ With(note, p).cancel = note.cancel
<1> DEFINE new == With(note, p)
<1>1. /\ DOMAIN new = DOMAIN p \cup DOMAIN note
      /\ \A k \in DOMAIN p : new[k] = p[k]
      /\ \A k \in DOMAIN note : k \notin DOMAIN p => new[k] = note[k]
  BY Merged
<1>2. {"amount", "cancel", "status", "indexed"} \subseteq DOMAIN note
  BY DEF Right
<1> HIDE DEF new
<1>3. ASSUME p = <<>>
      PROVE  Right(n, new) /\ new.cancel = note.cancel
  BY <1>1, <1>2, <1>3 DEF Right
<1>4. ASSUME p = [status |-> "spent"] /\ n \in spent
      PROVE  Right(n, new) /\ new.cancel = note.cancel
  BY <1>1, <1>2, <1>4 DEF Right
<1>5. ASSUME p = [status |-> "cancelled"] /\ Dead(n)
      PROVE  Right(n, new) /\ new.cancel = note.cancel
  BY <1>1, <1>2, <1>5 DEF Right
<1>6. ASSUME NEW a, p = [indexed |-> TRUE, amount |-> a], Coin(n, a) \in OnChain
      PROVE  Right(n, new) /\ new.cancel = note.cancel
  BY <1>1, <1>2, <1>6 DEF Right
<1> QED
  BY <1>3, <1>4, <1>5, <1>6 DEF Patch, new

\* The copy that an update reads is right with the change that it makes.
LEMMA GetNoteStep ==
  ASSUME ClientInv, NEW x \in Process, GetNote(x)
  PROVE  ClientInv'
<1> DEFINE u == Head(proc[x].todo)
           f == [todo |-> Tail(proc[x].todo),
                 held |-> [id |-> u.id, note |-> With(store[u.id], u.patch)]]
<1>1. proc[x].todo # <<>> /\ UNCHANGED <<store, chainVars, request, tx>> /\ Goto(x, f)
  BY DEF GetNote
<1>2. /\ u \in ToSet(proc[x].todo) /\ IsList(Tail(proc[x].todo))
      /\ ToSet(Tail(proc[x].todo)) \subseteq ToSet(proc[x].todo)
  BY <1>1, HeadTail DEF ClientInv, UpdateInv
<1>3. u.id \in DOMAIN store /\ Patch(u.id, u.patch) /\ Right(u.id, store[u.id])
  BY <1>2 DEF ClientInv, UpdateInv, StoreInv
<1> HIDE DEF u
<1>4. /\ Right(u.id, With(store[u.id], u.patch))
      /\ With(store[u.id], u.patch).cancel = store[u.id].cancel
  BY <1>3, PatchRight
<1>5. /\ DOMAIN f = {"todo", "held"} /\ f.todo = Tail(proc[x].todo)
      /\ f.held.id = u.id /\ f.held.note = With(store[u.id], u.patch)
  OBVIOUS
<1> HIDE DEF f
<1>6. proc'[x].todo = f.todo /\ proc'[x].held = f.held
  <2>1. DOMAIN f \subseteq Fields /\ Locals
    BY <1>5 DEF Fields, ClientInv
  <2>2. \A k \in DOMAIN f : proc'[x][k] = f[k]
    BY <1>1, <2>1, Went
  <2> QED
    BY <1>5, <2>2
<1>7. ASSUME Grew
      PROVE  UpdateInv(x)'
  <2>1. /\ IsList(proc[x].todo)'
        /\ \A v \in ToSet(proc[x].todo)' : v.id \in DOMAIN store' /\ Patch(v.id, v.patch)'
    BY <1>1, <1>2, <1>5, <1>6, <1>7, PatchStays DEF ClientInv, UpdateInv
  <2>3. ASSUME NEW n, NEW note, n = u.id, note = With(store[u.id], u.patch)
        PROVE  Right(proc[x].held.id, proc[x].held.note)'
    <3>1. Right(n, note)
      BY <1>4, <2>3
    <3>2. Right(n, note)'
      BY <1>7, <3>1, RightStays
    <3>3. n = proc'[x].held.id /\ note = proc'[x].held.note
      BY <1>5, <1>6, <2>3
    <3> QED
      BY <3>2, <3>3 DEF Right, Dead, Born, May
  <2> QED
    BY <1>1, <1>3, <1>4, <1>5, <1>6, <1>7, <2>1, <2>3 DEF UpdateInv, Grew
<1> QED
  BY <1>1, <1>5, <1>7, UpdateStep

\* What the event source shows is on the chain.
LEMMA ShownOnChain ==
  ASSUME ChainInv
  PROVE  Shown \subseteq OnChain /\ IsFiniteSet(Shown)
<1>1. Shown \subseteq OnChain
  BY DEF ChainInv, Shown, OnChain, ToSet, IsList
<1>2. IsFiniteSet(OnChain)
  BY FiniteList DEF ChainInv, OnChain
<1> QED
  BY <1>1, <1>2, FS_Subset

\* What a reconciliation writes the chain has shown.
LEMMA ReconcileStep ==
  ASSUME ClientInv, NEW x \in Process, proc[x].held = Nobody, Reconcile(x)
  PROVE  ClientInv'
<1> DEFINE S == {c \in Shown : c.id \in Unseen(store)}
           news == SetToSeq(S)
           us == [i \in DOMAIN news |-> [id |-> news[i].id, patch |-> Seen(news[i])]]
           T == {[id |-> c.id, patch |-> Seen(c)] : c \in S}
           f == [todo |-> us]
<1>1. S \subseteq Shown /\ IsFiniteSet(S)
  BY ShownOnChain, FS_Subset DEF ClientInv
<1>2. news \in Seq(S)
  BY <1>1, ListsSet
<1>3. UNCHANGED <<store, chainVars, request, tx>> /\ Goto(x, f)
  BY DEF Reconcile
<1>4. \A u \in T : u.id \in DOMAIN store /\ Patch(u.id, u.patch)
  <2>1. ASSUME NEW c \in S
        PROVE  /\ c.id \in DOMAIN store
               /\ Seen(c) = [indexed |-> TRUE, amount |-> c.amount]
               /\ Coin(c.id, c.amount) \in OnChain
    BY <1>1, <2>1, ShownOnChain DEF ClientInv, ChainInv, Seen
  <2>2. ASSUME NEW c \in S
        PROVE  Patch(c.id, Seen(c))
    BY <2>1 DEF Patch
  <2> QED
    BY <2>1, <2>2
<1> HIDE DEF news
<1>5. us \in Seq(T)
  BY <1>2
<1> HIDE DEF us, T
<1>6. IsList(us) /\ ToSet(us) \subseteq T
  BY <1>5, ListOf
<1>7. DOMAIN f = {"todo"} /\ f.todo = us
  OBVIOUS
<1> HIDE DEF f
<1>8. proc'[x].todo = us /\ proc'[x].held = Nobody
  <2>1. DOMAIN f \subseteq Fields /\ Locals
    BY <1>7 DEF Fields, ClientInv
  <2>2. \A k \in DOMAIN f : proc'[x][k] = f[k]
    BY <1>3, <2>1, Went
  <2>3. proc'[x].held = proc[x].held
    BY <1>3, <1>7, <2>1, Went DEF Fields
  <2> QED
    BY <1>7, <2>2, <2>3
<1>9. ASSUME Grew
      PROVE  UpdateInv(x)'
  BY <1>3, <1>4, <1>6, <1>8, <1>9, PatchStays DEF UpdateInv
<1> QED
  BY <1>3, <1>7, <1>9, UpdateStep

\* The copy that is put back is right, although it may be stale.
LEMMA PutNoteStep ==
  ASSUME ClientInv, NEW x \in Process, PutNote(x)
  PROVE  ClientInv'
<1> DEFINE h == proc[x].held
           f == [held |-> Nobody]
<1>1. /\ h # Nobody /\ store' = [store EXCEPT ![h.id] = h.note] /\ Goto(x, f)
      /\ UNCHANGED <<leaves, visible, spent, resting, request, tx>>
  BY DEF PutNote, chainVars
<1>2. /\ h.id \in DOMAIN store /\ Right(h.id, h.note) /\ h.note.cancel = store[h.id].cancel
  BY <1>1 DEF ClientInv, UpdateInv
<1> HIDE DEF h
<1>3. DOMAIN f = {"held"} /\ f.held = Nobody /\ DOMAIN f \subseteq Fields
  BY DEF Fields
<1> HIDE DEF f
<1>4. /\ proc'[x].held = Nobody /\ proc'[x].todo = proc[x].todo
      /\ proc'[x].at = proc[x].at /\ proc'[x].call = proc[x].call /\ proc'[x].next = proc[x].next
      /\ proc'[x].offer = proc[x].offer /\ proc'[x].steps = proc[x].steps
  BY <1>1, <1>3, Went DEF ClientInv, Fields
<1>5. Locals' /\ \A y \in Process : y # x => proc'[y] = proc[y]
  BY <1>1, <1>3, Went DEF ClientInv
<1>6. /\ DOMAIN store' = DOMAIN store /\ store'[h.id] = h.note
      /\ \A n \in DOMAIN store : n # h.id => store'[n] = store[n]
  BY <1>1, <1>2
<1>7. \A o \in Op : May(o)' = May(o)
  BY <1>1, <1>4, <1>5, OpIsProcess DEF May
<1>8. Grew
  BY <1>1, <1>2, <1>6, <1>7 DEF Grew, Born, OnChain
<1>9. StoreInv'
  <2>1. IsList(store')
    <3>1. store \in Seq(ToSet(store))
      BY DEF ClientInv, StoreInv, IsList
    <3> DEFINE T == ToSet(store) \cup {h.note}
    <3>2. store \in Seq(T) /\ h.note \in T
      BY <3>1
    <3> HIDE DEF T
    <3>3. store' \in Seq(T)
      BY <1>1, <1>2, <3>2
    <3> QED
      BY <3>3, ListOf
  <2>2. ASSUME NEW n \in DOMAIN store
        PROVE  Right(n, store[n])'
    <3>1. CASE n = h.id
      <4>1. ASSUME NEW note, note = h.note
            PROVE  Right(n, store[n])'
        <5>1. Right(n, note)'
          BY <1>2, <1>8, <3>1, <4>1, RightStays
        <5> QED
          BY <1>6, <3>1, <4>1, <5>1 DEF Right
      <4> QED
        BY <4>1
    <3>2. CASE n # h.id
      <4>1. ASSUME NEW note, note = store[n]
            PROVE  Right(n, store[n])'
        <5>1. Right(n, note)'
          BY <1>8, <4>1, RightStays DEF ClientInv, StoreInv
        <5> QED
          BY <1>6, <3>2, <4>1, <5>1 DEF Right
      <4> QED
        BY <4>1
    <3> QED
      BY <3>1, <3>2
  <2> QED
    BY <1>6, <2>1, <2>2 DEF ClientInv, StoreInv
<1>10. ChainInv'
  BY <1>1, <1>6, <1>8 DEF ClientInv, ChainInv, OnChain, Grew
<1>11. MayInv'
  BY <1>1, <1>7 DEF ClientInv, MayInv, Born, OnChain
<1>12. UpdateInv(x)'
  BY <1>4, <1>6, <1>8, PatchStays DEF ClientInv, UpdateInv
<1>13. ASSUME x \in Op
       PROVE  TxInv(x)' /\ OpInv(x)'
  <2>1. TxInv(x)'
    BY <1>1, <1>4, <1>8, <1>13, DeadStays
       DEF ClientInv, TxInv, Grew, CallInv, Funded, Distinct, MadeIds
  <2>2. /\ Called(x, tx[x]) => Called(x, tx[x])'
        /\ Called(x, proc[x].call) => Called(x, proc[x].call)'
        /\ ShieldCall(x, tx[x]) => ShieldCall(x, tx[x])'
        /\ SpendCall(x, tx[x]) => SpendCall(x, tx[x])'
        /\ Spending(x) => Spending(x)'
        /\ Planned(x) => Planned(x)'
    BY <1>1, <1>4, <1>8, <1>13 DEF ClientInv, OpInv, Grew, Called, ShieldCall, CancelCall, JoinCall,
                      SpendCall, Spending, Planned
  <2>3. CancelCall(x, tx[x]) => CancelCall(x, tx[x])'
    BY <1>1, <1>4, <1>8, <1>13 DEF ClientInv, OpInv, Grew, CancelCall
  <2>4. OpInv(x)'
    BY <1>1, <1>4, <1>8, <1>13, <2>2, <2>3 DEF ClientInv, OpInv, Grew
  <2> QED
    BY <2>1, <2>4
<1>14. proc'[Loop].at = "start" /\ DOMAIN tx' = Op
  BY <1>1, <1>4, <1>5 DEF ClientInv, Process
<1> QED
  BY <1>1, <1>5, <1>8, <1>9, <1>10, <1>11, <1>12, <1>13, <1>14, StepOf

\* A crash loses what the calls know; what they stored and submitted is left.
LEMMA CrashStep ==
  ASSUME ClientInv, Crash
  PROVE  ClientInv'
<1>1. UNCHANGED <<store, chainVars, request, tx>>
  BY DEF Crash
<1>2. /\ DOMAIN proc' = Process /\ proc'[Loop] = Ready
      /\ \A o \in Op : proc'[o] = proc[o] \/ proc'[o] = [Ready EXCEPT !.at = "gone"]
  BY OpIsProcess DEF Crash, Process
<1> DEFINE gone == [Ready EXCEPT !.at = "gone"]
<1>3. /\ DOMAIN Ready = Fields /\ DOMAIN gone = Fields /\ gone.at = "gone" /\ Ready.at = "start"
      /\ gone.todo = <<>> /\ gone.held = Nobody /\ Ready.todo = <<>> /\ Ready.held = Nobody
      /\ gone.call = NoCall
  BY DEF Ready, Fields
<1> HIDE DEF gone
<1>4. Locals'
  BY <1>2, <1>3 DEF ClientInv, Locals, Process, gone
<1>5. ASSUME NEW o \in Op
      PROVE  May(o)' \subseteq May(o)
  BY <1>1, <1>2, <1>3, <1>5 DEF May, ClientInv, TxInv, gone
<1>6. Grew /\ StoreInv' /\ ChainInv' /\ MayInv'
  BY <1>1, <1>5, Kept
<1>7. IsList(<<>>) /\ ToSet(<<>>) = {}
  BY DEF IsList, ToSet
<1>8. ASSUME NEW x \in Process
      PROVE  UpdateInv(x)'
  <2>1. CASE proc'[x] = proc[x]
    BY <1>6, <2>1, UpdatesStay DEF ClientInv
  <2>2. CASE proc'[x].todo = <<>> /\ proc'[x].held = Nobody
    BY <1>7, <2>2 DEF UpdateInv
  <2> QED
    BY <1>2, <1>3, <1>8, <2>1, <2>2 DEF Process, gone
<1>9. CallInv(NoCall)
  BY <1>7, FS_EmptySet DEF CallInv, NoCall, MadeIds, Tags, CallFields
<1>10. ASSUME NEW o \in Op
       PROVE  TxInv(o)' /\ OpInv(o)'
  <2>1. CASE proc'[o] = proc[o]
    BY <1>1, <1>6, <2>1, TxStays, OpStays DEF ClientInv
  <2>2. CASE proc'[o] = gone
    <3>1. TxInv(o)'
      BY <1>1, <1>3, <1>6, <1>9, <2>2, DeadStays
         DEF ClientInv, TxInv, Grew, CallInv, Funded, Distinct, MadeIds
    <3>2. OpInv(o)'
      BY <1>1, <1>3, <1>6, <2>2 DEF ClientInv, OpInv, Grew
    <3> QED
      BY <3>1, <3>2
  <2> QED
    BY <1>2, <2>1, <2>2 DEF gone
<1> QED
  BY <1>1, <1>2, <1>3, <1>4, <1>6, <1>8, <1>10 DEF ClientInv

-----------------------------------------------------------------------------
\* What was staged is submitted, and may land from now on.
LEMMA SubmitStep ==
  ASSUME ClientInv, NEW o \in Op, Submit(o)
  PROVE  ClientInv'
<1>1. proc[o].at = "submit" /\ UNCHANGED <<store, chainVars, request>>
  BY DEF Submit, At
<1>2. CASE Fail(o) /\ UNCHANGED tx
  BY <1>1, <1>2, FailStep
<1>3. CASE tx' = [tx EXCEPT ![o] = proc[o].call] /\ Goto(o, [at |-> "poll"])
  <2>1. /\ proc'[o].at = "poll" /\ proc'[o].next = proc[o].next /\ proc'[o].offer = proc[o].offer
        /\ proc'[o].steps = proc[o].steps /\ proc'[o].call = proc[o].call
        /\ proc'[o].todo = proc[o].todo /\ proc'[o].held = proc[o].held
    BY <1>3, AtOnly
  <2>2. Locals' /\ \A y \in Process : y # o => proc'[y] = proc[y]
    BY <1>3, AtOnly, Went, OpIsProcess DEF ClientInv
  <2>3. DOMAIN tx' = Op /\ tx'[o] = proc[o].call /\ \A q \in Op : q # o => tx'[q] = tx[q]
    BY <1>3 DEF ClientInv
  <2>4. ASSUME NEW q \in Op
        PROVE  May(q)' \subseteq May(q)
    <3>1. CASE q = o
      BY <1>1, <2>1, <2>3, <3>1 DEF May
    <3>2. CASE q # o
      BY <2>2, <2>3, <3>2, OpIsProcess DEF May
    <3> QED
      BY <3>1, <3>2
  <2>5. Grew /\ StoreInv' /\ ChainInv' /\ MayInv'
    BY <1>1, <2>4, Kept
  <2>6. UpdateInv(o)'
    BY <2>1, <2>5, UpdatesStay, OpIsProcess DEF ClientInv
  <2>7. /\ proc[o].call.status = "pending" /\ Called(o, proc[o].call)
        /\ Distinct(proc[o].call) /\ Funded(proc[o].call) /\ CallInv(proc[o].call)
    BY <1>1 DEF ClientInv, TxInv, OpInv
  <2>8. TxInv(o)'
    BY <2>1, <2>3, <2>5, <2>7 DEF TxInv, Grew, CallInv, Funded, Distinct, MadeIds
  <2>9. Called(o, tx[o])'
    BY <1>1, <2>1, <2>3, <2>5, <2>7
       DEF Grew, ClientInv, OpInv, Called, ShieldCall, CancelCall, JoinCall, SpendCall,
           Spending, Planned
  <2>10. OpInv(o)'
    BY <2>1, <2>5, <2>9 DEF ClientInv, OpInv, Grew
  <2>11. proc'[Loop].at = "start"
    BY <2>2, OpIsProcess DEF ClientInv, Process
  <2> QED
    BY <2>2, <2>3, <2>5, <2>6, <2>8, <2>10, <2>11, OpIsProcess, StepOf
<1> QED
  BY <1>2, <1>3 DEF Submit

\* A transaction that failed brings nothing.
LEMMA TxFailsStep ==
  ASSUME ClientInv, NEW o \in Op, TxFails(o)
  PROVE  ClientInv'
<1>1. /\ tx[o].status = "pending" /\ UNCHANGED <<store, chainVars, request, proc>>
      /\ tx' = [tx EXCEPT ![o].status = "failed"]
  BY DEF TxFails
<1>2. /\ DOMAIN tx' = Op /\ \A q \in Op : q # o => tx'[q] = tx[q]
      /\ tx'[o] = [tx[o] EXCEPT !.status = "failed"]
  BY <1>1 DEF ClientInv
<1>3. DOMAIN tx[o] = CallFields
  BY DEF ClientInv, TxInv, CallInv
<1>4. /\ DOMAIN tx'[o] = CallFields /\ tx'[o].status = "failed" /\ tx'[o].spends = tx[o].spends
      /\ tx'[o].mints = tx[o].mints /\ tx'[o].rests = tx[o].rests /\ tx'[o].removes = tx[o].removes
  BY <1>2, <1>3 DEF CallFields
<1>5. ASSUME NEW q \in Op
      PROVE  May(q)' \subseteq May(q)
  BY <1>1, <1>2, <1>4 DEF May
<1>6. Grew /\ StoreInv' /\ ChainInv' /\ MayInv'
  BY <1>1, <1>5, Kept
<1>7. UpdateInv(o)'
  BY <1>1, <1>6, UpdatesStay, OpIsProcess DEF ClientInv
<1>8. TxInv(o)'
  BY <1>1, <1>4, <1>6 DEF ClientInv, TxInv, Grew, CallInv, Funded, Distinct, MadeIds
<1>9. proc[o].at \in {"poll", "failed", "gone"}
  BY <1>1 DEF ClientInv, TxInv
<1>10. proc[o].at = "poll" => Called(o, tx[o])'
  BY <1>1, <1>4, <1>6 DEF ClientInv, Grew, OpInv, Called, ShieldCall, CancelCall, JoinCall,
                          SpendCall, Spending, Planned
<1>11. OpInv(o)'
  BY <1>1, <1>6, <1>9, <1>10 DEF ClientInv, OpInv, Grew
<1>12. Locals' /\ proc'[Loop].at = "start"
  BY <1>1 DEF ClientInv, Locals
<1> QED
  BY <1>1, <1>2, <1>6, <1>7, <1>8, <1>11, <1>12, OpIsProcess, StepOf

\* The next leaf is shown.
LEMMA ShowLeafStep ==
  ASSUME ClientInv, ShowLeaf
  PROVE  ClientInv'
<1>1. /\ visible' = visible + 1 /\ visible < Len(leaves)
      /\ UNCHANGED <<store, leaves, spent, resting, request, tx, proc>>
  BY DEF ShowLeaf
<1>2. \A o \in Op : May(o)' = May(o)
  BY <1>1 DEF May
<1>3. Grew
  BY <1>1, <1>2 DEF Grew, Born, OnChain
<1>4. StoreInv'
  BY <1>1, <1>3, RightStays DEF ClientInv, StoreInv
<1>5. ChainInv'
  BY <1>1 DEF ClientInv, ChainInv, OnChain, IsList
<1>6. MayInv'
  BY <1>1, <1>2 DEF ClientInv, MayInv, Born, OnChain
<1>7. \A x \in Process : UpdateInv(x)'
  BY <1>1, <1>3, UpdatesStay DEF ClientInv
<1>8. \A o \in Op : TxInv(o)' /\ OpInv(o)'
  BY <1>1, <1>3, TxStays, OpStays DEF ClientInv
<1> QED
  BY <1>1, <1>4, <1>5, <1>6, <1>7, <1>8 DEF ClientInv, Locals

-----------------------------------------------------------------------------
\* The notes are as right as they were when only the chain moves on.
LEMMA ChainStep ==
  ASSUME ClientInv, Grew, UNCHANGED <<store, request, proc>>, DOMAIN tx' = Op, ChainInv', MayInv',
         NEW o, \A q \in Op : q # o => tx'[q] = tx[q], o \in Op => TxInv(o)' /\ OpInv(o)'
  PROVE  ClientInv'
<1>1. StoreInv'
  BY RightStays DEF ClientInv, StoreInv
<1>2. \A x \in Process : UpdateInv(x)'
  BY UpdatesStay DEF ClientInv
<1>3. \A q \in Op : TxInv(q)' /\ OpInv(q)'
  BY TxStays, OpStays DEF ClientInv
<1> QED
  BY <1>1, <1>2, <1>3 DEF ClientInv, Locals

\* The output of a filled order moves from the book to the tree.
LEMMA OrderFillsStep ==
  ASSUME ClientInv, NEW n \in NoteId, NEW amount, OrderFills(n, amount)
  PROVE  ClientInv'
<1> DEFINE c == Coin(n, amount)
<1>1. /\ n \in resting /\ resting' = resting \ {n} /\ leaves' = Append(leaves, c)
      /\ UNCHANGED <<store, visible, spent, request, tx, proc>>
  BY DEF OrderFills
<1>2. c.id = n /\ c = Coin(c.id, c.amount)
  BY DEF Coin
<1> HIDE DEF c
<1>3. IsList(leaves') /\ OnChain' = OnChain \cup {c} /\ Len(leaves') = Len(leaves) + 1
  <2>1. IsList(<<c>>) /\ ToSet(<<c>>) = {c} /\ leaves \in Seq(OnChain)
    BY DEF IsList, ToSet, ClientInv, ChainInv, OnChain
  <2>2. leaves' = leaves \o <<c>> /\ Len(leaves') = Len(leaves) + 1
    BY <1>1, <2>1
  <2> QED
    BY <2>1, <2>2, Joined DEF ClientInv, ChainInv, OnChain
<1>4. /\ n \in DOMAIN store /\ n \notin Tags(OnChain) /\ Tags(OnChain)' = Tags(OnChain) \cup {n}
  BY <1>1, <1>2, <1>3 DEF ClientInv, ChainInv, Tags
<1>5. \A o \in Op : May(o)' = May(o)
  BY <1>1 DEF May
<1>6. \A m : Born(m)' <=> Born(m)
  BY <1>1, <1>4 DEF Born
<1>7. Grew
  BY <1>1, <1>3, <1>5, <1>6 DEF Grew
<1>8. ChainInv'
  <2>1. visible \in 0..Len(leaves')
    BY <1>3 DEF ClientInv, ChainInv, IsList
  <2>2. \A d \in OnChain' : d = Coin(d.id, d.amount) /\ d.id \in DOMAIN store
    BY <1>2, <1>3, <1>4 DEF ClientInv, ChainInv
  <2>3. \A d \in OnChain : d.id # n
    BY <1>4 DEF Tags
  <2>4. \A d, e \in OnChain' : d.id = e.id => d = e
    BY <1>2, <1>3, <2>3 DEF ClientInv, ChainInv
  <2> QED
    BY <1>1, <1>3, <1>4, <2>1, <2>2, <2>4 DEF ClientInv, ChainInv
<1>9. MayInv'
  BY <1>5, <1>6 DEF ClientInv, MayInv
<1> QED
  BY <1>1, <1>7, <1>8, <1>9, ChainStep, ClientAssumption, TxStays, OpStays DEF ClientInv

\* A transaction that lands brings its notes, and no other can.
LEMMA TxLandsStep ==
  ASSUME ClientInv, NEW o \in Op, TxLands(o)
  PROVE  ClientInv'
<1> DEFINE t == tx[o]
<1>1. /\ t.status = "pending" /\ t.spends \subseteq OnChain /\ Tags(t.spends) \cap spent = {}
      /\ t.removes \subseteq resting
      /\ tx' = [tx EXCEPT ![o].status = "landed"] /\ leaves' = leaves \o t.mints
      /\ spent' = spent \cup Tags(t.spends) /\ resting' = (resting \ t.removes) \cup t.rests
      /\ UNCHANGED <<store, visible, request, proc>>
  BY DEF TxLands, Applies
<1>2. /\ CallInv(t) /\ Distinct(t) /\ Funded(t) /\ proc[o].at \in {"poll", "failed", "gone"}
  BY <1>1 DEF ClientInv, TxInv
<1>3. /\ DOMAIN tx' = Op /\ \A q \in Op : q # o => tx'[q] = tx[q]
      /\ tx'[o].status = "landed" /\ tx'[o].spends = t.spends /\ tx'[o].mints = t.mints
      /\ tx'[o].rests = t.rests /\ tx'[o].removes = t.removes /\ DOMAIN tx'[o] = CallFields
  BY <1>1, <1>2 DEF ClientInv, CallInv, CallFields
<1>4. May(o) = MadeIds(t) /\ May(o)' = {} /\ \A q \in Op : q # o => May(q)' = May(q)
  BY <1>1, <1>2, <1>3 DEF May
<1> HIDE DEF t
<1>5. IsList(leaves') /\ OnChain' = OnChain \cup ToSet(t.mints) /\ Len(leaves') >= Len(leaves)
  <2>1. IsList(leaves) /\ IsList(t.mints)
    BY <1>2 DEF ClientInv, ChainInv, CallInv
  <2>2. Len(leaves') = Len(leaves) + Len(t.mints) /\ Len(t.mints) \in Nat /\ Len(leaves) \in Nat
    BY <1>1, <2>1 DEF IsList
  <2> QED
    BY <1>1, <2>1, <2>2, Joined DEF OnChain
<1>6. Tags(OnChain)' = Tags(OnChain) \cup Tags(ToSet(t.mints))
  BY <1>5 DEF Tags
<1>7. \A n \in MadeIds(t) : ~Born(n)
  BY <1>4 DEF ClientInv, MayInv
<1>8. \A n : Born(n)' => Born(n) \/ n \in MadeIds(t)
  BY <1>1, <1>6 DEF Born, MadeIds
<1>9. Grew
  BY <1>1, <1>4, <1>5, <1>8 DEF Grew
<1>10. ChainInv'
  <2>1. visible \in 0..Len(leaves')
    BY <1>5 DEF ClientInv, ChainInv, IsList
  <2>2. \A c \in OnChain' : c = Coin(c.id, c.amount) /\ c.id \in DOMAIN store
    BY <1>2, <1>5 DEF ClientInv, ChainInv, CallInv, MadeIds, Tags
  <2>3. \A c \in OnChain, d \in ToSet(t.mints) : c.id # d.id
    BY <1>7 DEF Born, MadeIds, Tags
  <2>4. \A c, d \in OnChain' : c.id = d.id => c = d
    BY <1>2, <1>5, <2>3 DEF ClientInv, ChainInv, Distinct
  <2>5. spent' \subseteq Tags(OnChain)'
    BY <1>1, <1>6 DEF ClientInv, ChainInv, Tags
  <2>6. resting' \subseteq DOMAIN store
    BY <1>1, <1>2 DEF ClientInv, ChainInv, CallInv, MadeIds
  <2>7. resting' \cap Tags(OnChain)' = {}
    BY <1>1, <1>2, <1>6, <1>7 DEF ClientInv, ChainInv, Distinct, MadeIds, Born
  <2>8. ASSUME NEW n \in t.rests
        PROVE  store[n].cancel > 0
    <3>1. PICK c \in OnChain : c.amount > 0 /\ t.spends = {Coin(c.id, store[n].cancel)}
      BY <1>2 DEF Funded
    <3>2. Coin(c.id, store[n].cancel) \in OnChain /\ Coin(c.id, store[n].cancel).id = c.id
      BY <1>1, <3>1 DEF Coin, t
    <3>3. Coin(c.id, store[n].cancel) = c
      BY <3>2 DEF ClientInv, ChainInv
    <3>4. Coin(c.id, store[n].cancel).amount = store[n].cancel
      BY DEF Coin
    <3> QED
      BY <3>1, <3>3, <3>4
  <2> QED
    BY <1>1, <1>5, <2>1, <2>2, <2>4, <2>5, <2>6, <2>7, <2>8 DEF ClientInv, ChainInv
<1>11. MayInv'
  <2>1. ASSUME NEW q \in Op, NEW n \in May(q)'
        PROVE  ~Born(n)'
    BY <1>4, <1>8, <2>1 DEF ClientInv, MayInv
  <2> QED
    BY <1>4, <2>1 DEF ClientInv, MayInv
<1>12. \A n \in t.removes : Dead(n)'
  <2>1. ASSUME NEW n \in t.removes
        PROVE  Dead(n)'
    <3>1. n \in resting /\ n \in DOMAIN store /\ Born(n)
      BY <1>1 DEF ClientInv, ChainInv, Born, t
    <3>2. n \notin MadeIds(t) /\ \A q \in Op : n \notin May(q)'
      BY <1>4, <1>7, <3>1 DEF ClientInv, MayInv
    <3>3. n \notin Tags(OnChain)' /\ n \notin resting'
      BY <1>1, <1>6, <3>1, <3>2 DEF ClientInv, ChainInv, MadeIds, t
    <3> QED
      BY <1>1, <3>1, <3>2, <3>3 DEF Dead, Born
  <2> QED
    BY <2>1
<1>13. TxInv(o)'
  <2>1. CallInv(tx[o])'
    BY <1>1, <1>2, <1>3 DEF CallInv, MadeIds
  <2>2. CallInv(proc[o].call)'
    BY <1>1 DEF ClientInv, TxInv, CallInv
  <2>3. /\ tx'[o].spends \subseteq OnChain' /\ Tags(tx'[o].spends) \subseteq spent'
        /\ ToSet(tx'[o].mints) \subseteq OnChain'
    BY <1>1, <1>3, <1>5 DEF t
  <2> QED
    BY <1>1, <1>2, <1>3, <1>12, <2>1, <2>2, <2>3 DEF TxInv
<1>14. proc[o].at = "poll" => Called(o, tx[o])'
  BY <1>1, <1>3, <1>9 DEF ClientInv, Grew, OpInv, Called, ShieldCall, CancelCall, JoinCall,
                          SpendCall, Spending, Planned, t
<1>15. OpInv(o)'
  BY <1>1, <1>2, <1>9, <1>14 DEF ClientInv, OpInv, Grew
<1> QED
  BY <1>1, <1>3, <1>9, <1>10, <1>11, <1>13, <1>15, ChainStep

-----------------------------------------------------------------------------
\* What a call knows after it has staged its notes.
LEMMA Staged ==
  ASSUME ClientInv, NEW o \in Op, NEW notes, NEW call, NEW local,
         StageAndSubmit(o, notes, call, local), DOMAIN local \subseteq {"offer", "steps", "next"}
  PROVE  /\ Locals' /\ \A y \in Process : y # o => proc'[y] = proc[y]
         /\ proc'[o].at = "submit" /\ proc'[o].call = With(NoCall, call)
         /\ proc'[o].todo = proc[o].todo /\ proc'[o].held = proc[o].held
         /\ \A k \in DOMAIN local : proc'[o][k] = local[k]
         /\ \A k \in {"offer", "steps", "next"} : k \notin DOMAIN local => proc'[o][k] = proc[o][k]
<1> DEFINE g == [at |-> "submit", call |-> With(NoCall, call)]
           f == With(local, g)
<1>1. DOMAIN g = {"at", "call"} /\ g["at"] = "submit" /\ g["call"] = With(NoCall, call)
  OBVIOUS
<1>2. Goto(o, f)
  BY DEF StageAndSubmit
<1> HIDE DEF g
<1>3. /\ DOMAIN f = DOMAIN local \cup {"at", "call"}
      /\ \A k \in {"at", "call"} : f[k] = g[k]
      /\ \A k \in DOMAIN local : k \notin {"at", "call"} => f[k] = local[k]
  <2>1. /\ DOMAIN With(local, g) = DOMAIN g \cup DOMAIN local
        /\ \A k \in DOMAIN g : With(local, g)[k] = g[k]
        /\ \A k \in DOMAIN local : k \notin DOMAIN g => With(local, g)[k] = local[k]
    BY Merged
  <2> QED
    BY <1>1, <2>1
<1> HIDE DEF f
<1>4. DOMAIN f \subseteq Fields
  BY <1>3 DEF Fields
<1>5. /\ Locals' /\ \A y \in Process : y # o => proc'[y] = proc[y]
      /\ \A k \in DOMAIN f : proc'[o][k] = f[k]
      /\ \A k \in Fields : k \notin DOMAIN f => proc'[o][k] = proc[o][k]
  BY <1>2, <1>4, Went, OpIsProcess DEF ClientInv
<1>6. proc'[o].at = "submit" /\ proc'[o].call = With(NoCall, call)
  BY <1>1, <1>3, <1>5
<1>7. proc'[o].todo = proc[o].todo /\ proc'[o].held = proc[o].held
  BY <1>3, <1>5 DEF Fields
<1>8. \A k \in DOMAIN local : proc'[o][k] = local[k]
  BY <1>3, <1>5
<1>9. \A k \in {"offer", "steps", "next"} : k \notin DOMAIN local => proc'[o][k] = proc[o][k]
  BY <1>3, <1>5 DEF Fields
<1> QED
  BY <1>5, <1>6, <1>7, <1>8, <1>9

\* The ids of the notes that are added to the store.
NewIds(notes) == {Len(store) + i : i \in DOMAIN notes}

\* The notes that are added get the next ids, and the others keep theirs.
LEMMA Added ==
  ASSUME StoreInv, NEW notes, IsList(notes), store' = store \o notes
  PROVE  /\ IsList(store') /\ DOMAIN store' = DOMAIN store \cup NewIds(notes)
         /\ DOMAIN store \cap NewIds(notes) = {}
         /\ \A n \in DOMAIN store : store'[n] = store[n]
         /\ \A i \in DOMAIN notes : store'[Len(store) + i] = notes[i]
<1>1. store \in Seq(ToSet(store)) /\ notes \in Seq(ToSet(notes))
  BY DEF StoreInv, IsList
<1>2. IsList(store')
  BY Joined DEF StoreInv
<1>3. /\ DOMAIN store = 1..Len(store) /\ DOMAIN notes = 1..Len(notes)
      /\ Len(store) \in Nat /\ Len(notes) \in Nat
      /\ DOMAIN store' = 1..(Len(store) + Len(notes))
      /\ \A n \in DOMAIN store : store'[n] = store[n]
      /\ \A i \in DOMAIN notes : store'[Len(store) + i] = notes[i]
  BY <1>1
<1>4. ASSUME NEW n \in DOMAIN store', n \notin DOMAIN store
      PROVE  n \in NewIds(notes)
  <2>1. n - Len(store) \in DOMAIN notes /\ n = Len(store) + (n - Len(store))
    BY <1>3, <1>4
  <2> QED
    BY <2>1 DEF NewIds
<1>5. ASSUME NEW n \in NewIds(notes)
      PROVE  n \in DOMAIN store' /\ n \notin DOMAIN store
  BY <1>3 DEF NewIds
<1>6. \A n \in DOMAIN store : n \in DOMAIN store'
  BY <1>3
<1> QED
  BY <1>2, <1>3, <1>4, <1>5, <1>6

\* The bound on the notes is a number.
LEMMA MaxNotesNat == MaxNotes \in Nat
BY ClientAssumption

\* The notes of a call are stored before it is submitted: they are new, and
\* nothing is known of them.
LEMMA StageStep ==
  ASSUME ClientInv, NEW o \in Op, NEW notes, NEW t, IsList(notes), store' = store \o notes,
         Len(store') \in NoteId,
         UNCHANGED <<chainVars, request, tx>>, tx[o].status # "pending",
         Locals', \A y \in Process : y # o => proc'[y] = proc[y],
         proc'[o].at = "submit", proc'[o].call = t,
         proc'[o].todo = proc[o].todo, proc'[o].held = proc[o].held,
         \A i \in DOMAIN notes :
           \E asset, amount, cancel : notes[i] = NewNote(asset, amount, cancel),
         DOMAIN t = CallFields, t.status = "pending",
         IsFiniteSet(t.spends), IsFiniteSet(t.rests), IsFiniteSet(t.removes),
         IsList(t.mints), \A c \in ToSet(t.mints) : c = Coin(c.id, c.amount),
         MadeIds(t) \subseteq NewIds(notes), Distinct(t),
         \A n \in t.rests :
           \E c \in OnChain : c.amount > 0 /\ t.spends = {Coin(c.id, store'[n].cancel)},
         Grew => Called(o, proc[o].call)'
  PROVE  ClientInv'
<1>1. UNCHANGED <<leaves, visible, spent, resting, request, tx>>
  BY DEF chainVars
<1>2. /\ IsList(store') /\ DOMAIN store' = DOMAIN store \cup NewIds(notes)
      /\ DOMAIN store \cap NewIds(notes) = {}
      /\ \A n \in DOMAIN store : store'[n] = store[n]
      /\ \A i \in DOMAIN notes : store'[Len(store) + i] = notes[i]
  BY Added DEF ClientInv
<1>3. May(o)' = MadeIds(t) /\ \A q \in Op : q # o => May(q)' = May(q)
  BY <1>1, OpIsProcess DEF May, MadeIds
<1>4. \A q \in Op : May(q) \subseteq DOMAIN store
  BY DEF May, ClientInv, TxInv, CallInv
<1>5. /\ OnChain' = OnChain /\ (\A n : Born(n)' <=> Born(n)) /\ \A n : Born(n) => n \in DOMAIN store
  BY <1>1 DEF OnChain, Born, ClientInv, ChainInv, Tags
<1>6. Grew
  BY <1>1, <1>2, <1>3, <1>5 DEF Grew
<1>7. StoreInv'
  <2>1. ASSUME NEW n \in DOMAIN store
        PROVE  Right(n, store[n])'
    <3>1. ASSUME NEW note, note = store[n]
          PROVE  Right(n, store[n])'
      <4>1. Right(n, note)'
        BY <1>6, <3>1, RightStays DEF ClientInv, StoreInv
      <4> QED
        BY <1>2, <3>1, <4>1 DEF Right
    <3> QED
      BY <3>1
  <2>2. ASSUME NEW n \in NewIds(notes)
        PROVE  Right(n, store[n])'
    <3>1. PICK i \in DOMAIN notes : n = Len(store) + i /\ store'[n] = notes[i]
      BY <1>2 DEF NewIds
    <3>2. PICK asset, amount, cancel : store'[n] = NewNote(asset, amount, cancel)
      BY <3>1
    <3> QED
      BY <3>2 DEF NewNote, Right
  <2> QED
    <3>1. DOMAIN store' \subseteq NoteId
      BY <1>2, MaxNotesNat DEF IsList, NoteId
    <3> QED
      BY <1>2, <2>1, <2>2, <3>1 DEF StoreInv
<1>8. ChainInv'
  BY <1>1, <1>2, <1>5 DEF ClientInv, ChainInv
<1>9. MayInv'
  <2>1. \A n \in MadeIds(t) : n \notin DOMAIN store
    BY <1>2
  <2>2. ASSUME NEW q \in Op, NEW n \in May(q)'
        PROVE  ~Born(n)'
    <3>1. CASE q = o
      BY <1>3, <1>5, <2>1, <2>2, <3>1
    <3>2. CASE q # o
      BY <1>3, <1>5, <2>2, <3>2 DEF ClientInv, MayInv
    <3> QED
      BY <3>1, <3>2
  <2>3. ASSUME NEW q \in Op, NEW r \in Op, q # r
        PROVE  May(q)' \cap May(r)' = {}
    <3>1. CASE q # o /\ r # o
      BY <1>3, <2>3, <3>1 DEF ClientInv, MayInv
    <3>2. CASE q = o \/ r = o
      BY <1>3, <1>4, <2>1, <2>3, <3>2
    <3> QED
      BY <3>1, <3>2
  <2> QED
    BY <2>2, <2>3 DEF MayInv
<1>10. UpdateInv(o)'
  BY <1>6, UpdatesStay, OpIsProcess DEF ClientInv
<1>11. TxInv(o)'
  <2>1. CallInv(proc[o].call)' /\ Funded(proc[o].call)' /\ Distinct(proc[o].call)'
    BY <1>2, <1>5 DEF CallInv, Funded, Distinct, MadeIds
  <2>2. CallInv(tx[o])'
    BY <1>1, <1>2 DEF ClientInv, TxInv, CallInv, MadeIds
  <2>3. tx[o].status = "landed" => \A n \in tx[o].removes : Dead(n)'
    BY <1>6, DeadStays DEF ClientInv, TxInv
  <2> QED
    BY <1>1, <1>5, <2>1, <2>2, <2>3 DEF ClientInv, TxInv
<1>12. OpInv(o)'
  BY <1>1, <1>2, <1>6 DEF ClientInv, OpInv
<1>13. proc'[Loop].at = "start" /\ DOMAIN tx' = Op
  BY <1>1, OpIsProcess DEF ClientInv, Process
<1> QED
  BY <1>1, <1>6, <1>7, <1>8, <1>9, <1>10, <1>11, <1>12, <1>13, OpIsProcess, StepOf

\* A sequence of one element, or of none.
LEMMA OneList ==
  ASSUME NEW c
  PROVE  /\ IsList(<<c>>) /\ ToSet(<<c>>) = {c} /\ DOMAIN <<c>> = {1} /\ <<c>>[1] = c
         /\ IsList(<<>>) /\ ToSet(<<>>) = {} /\ DOMAIN <<>> = {}
BY DEF IsList, ToSet

\* A call has the fields that it names, and nothing else.
LEMMA CallWith ==
  ASSUME NEW call, DOMAIN call \subseteq CallFields \ {"status"}
  PROVE  /\ DOMAIN With(NoCall, call) = CallFields /\ With(NoCall, call).status = "pending"
         /\ \A k \in DOMAIN call : With(NoCall, call)[k] = call[k]
         /\ \A k \in CallFields : k \notin DOMAIN call => With(NoCall, call)[k] = NoCall[k]
<1>1. DOMAIN NoCall = CallFields /\ NoCall["status"] = "pending"
  BY DEF NoCall, CallFields
<1>2. /\ DOMAIN With(NoCall, call) = DOMAIN call \cup DOMAIN NoCall
      /\ \A k \in DOMAIN call : With(NoCall, call)[k] = call[k]
      /\ \A k \in DOMAIN NoCall : k \notin DOMAIN call => With(NoCall, call)[k] = NoCall[k]
  BY Merged
<1>3. With(NoCall, call).status = "pending"
  BY <1>1, <1>2 DEF CallFields
<1>4. DOMAIN With(NoCall, call) = CallFields
  BY <1>1, <1>2
<1> QED
  BY <1>1, <1>2, <1>3, <1>4

\* shield stages the note that its deposit mints.
LEMMA ShieldStep ==
  ASSUME ClientInv, NEW o \in Op, Shield(o)
  PROVE  ClientInv'
<1> DEFINE c == Coin(used + 1, request[o].amount)
           notes == <<NewNote(request[o].asset, request[o].amount, 0)>>
           call == [mints |-> <<c>>]
           local == [offer |-> c, steps |-> <<>>, next |-> "confirm"]
           t == With(NoCall, call)
<1>1. /\ proc[o].at = "start" /\ request[o].kind = "shield"
      /\ StageAndSubmit(o, notes, call, local)
  BY DEF Shield, At
<1>2. store' = store \o notes /\ Len(store') \in NoteId /\ UNCHANGED <<chainVars, request, tx>>
  BY <1>1 DEF StageAndSubmit
<1>3. tx[o].status # "pending"
  BY <1>1 DEF ClientInv, TxInv
<1>4. IsList(notes) /\ DOMAIN notes = {1}
  BY OneList
<1>5. DOMAIN local = {"offer", "steps", "next"} /\ local["offer"] = c /\ local["next"] = "confirm"
  OBVIOUS
<1>6. DOMAIN call = {"mints"} /\ call["mints"] = <<c>>
  OBVIOUS
<1>7. /\ c.id = Len(store) + 1 /\ c = Coin(c.id, c.amount)
      /\ c = Coin(Len(store) + 1, request[o].amount)
  BY DEF Coin, used
<1> HIDE DEF call, local, c
<1>8. /\ DOMAIN t = CallFields /\ t.status = "pending" /\ t.mints = <<c>>
      /\ t.spends = {} /\ t.rests = {} /\ t.removes = {}
  BY <1>6, CallWith DEF CallFields, NoCall
<1>9. /\ Locals' /\ \A y \in Process : y # o => proc'[y] = proc[y]
      /\ proc'[o].at = "submit" /\ proc'[o].call = t
      /\ proc'[o].todo = proc[o].todo /\ proc'[o].held = proc[o].held
      /\ proc'[o].offer = c /\ proc'[o].next = "confirm"
  BY <1>1, <1>5, Staged
<1> HIDE DEF t
<1>10. \A i \in DOMAIN notes : \E asset, amount, cancel : notes[i] = NewNote(asset, amount, cancel)
  BY <1>4, OneList
<1> HIDE DEF notes
<1>11. IsList(t.mints) /\ ToSet(t.mints) = {c}
  BY <1>8, OneList
<1>12. MadeIds(t) \subseteq NewIds(notes)
  BY <1>4, <1>7, <1>8, <1>11 DEF MadeIds, NewIds, Tags
<1>13. Distinct(t)
  BY <1>8, <1>11 DEF Distinct
<1>14. Called(o, proc[o].call)'
  BY <1>1, <1>2, <1>7, <1>8, <1>9 DEF Called, ShieldCall
<1>15. IsFiniteSet({})
  BY FS_EmptySet
<1> QED
  BY <1>2, <1>3, <1>4, <1>7, <1>8, <1>9, <1>10, <1>11, <1>12, <1>13, <1>14, <1>15, StageStep

\* cancelOrder stages the note that returns what the order gave.
LEMMA CancelOrderStep ==
  ASSUME ClientInv, NEW o \in Op, CancelOrder(o)
  PROVE  ClientInv'
<1> DEFINE order == request[o].note
           note == store[order]
           c == Coin(used + 1, note.cancel)
           notes == <<NewNote("base", note.cancel, 0)>>
           call == [mints |-> <<c>>, removes |-> {order}]
           local == [next |-> "done"]
           t == With(NoCall, call)
<1>1. proc[o].at = "start" /\ request[o].kind = "cancel_order"
  BY DEF CancelOrder, At
<1>2. CASE Fail(o) /\ UNCHANGED <<store, chainVars, request, tx>>
  BY <1>2, FailStep
<1>3. ASSUME StageAndSubmit(o, notes, call, local)
      PROVE  ClientInv'
  <2>2. /\ store' = store \o notes /\ UNCHANGED <<chainVars, request, tx>>
        /\ Len(store \o notes) \in NoteId /\ Len(store') \in NoteId
    BY <1>3 DEF StageAndSubmit
  <2>3. tx[o].status # "pending"
    BY <1>1 DEF ClientInv, TxInv
  <2>4. IsList(notes) /\ DOMAIN notes = {1} /\ Len(notes) = 1
    BY OneList
  <2>5. DOMAIN local = {"next"} /\ local["next"] = "done"
    OBVIOUS
  <2>6. /\ DOMAIN call = {"mints", "removes"} /\ call["mints"] = <<c>>
        /\ call["removes"] = {order}
    OBVIOUS
  <2>7. /\ c.id = Len(store) + 1 /\ c = Coin(c.id, c.amount)
        /\ c = Coin(Len(store) + 1, store[request[o].note].cancel)
    BY DEF Coin, used
  <2>8. Len(store) + 1 \in NoteId
    BY <2>2, <2>4 DEF ClientInv, StoreInv, IsList
  <2> HIDE DEF call, local, c, order
  <2>9. /\ DOMAIN t = CallFields /\ t.status = "pending" /\ t.mints = <<c>>
        /\ t.spends = {} /\ t.rests = {} /\ t.removes = {order}
    BY <2>6, CallWith DEF CallFields, NoCall
  <2>10. /\ Locals' /\ \A y \in Process : y # o => proc'[y] = proc[y]
         /\ proc'[o].at = "submit" /\ proc'[o].call = t
         /\ proc'[o].todo = proc[o].todo /\ proc'[o].held = proc[o].held
         /\ proc'[o].next = "done"
    BY <1>3, <2>5, Staged
  <2> HIDE DEF t
  <2>11. \A i \in DOMAIN notes :
           \E asset, amount, cancel : notes[i] = NewNote(asset, amount, cancel)
    BY <2>4, OneList
  <2> HIDE DEF notes
  <2>12. IsList(t.mints) /\ ToSet(t.mints) = {c}
    BY <2>9, OneList
  <2>13. MadeIds(t) \subseteq NewIds(notes)
    BY <2>4, <2>7, <2>9, <2>12 DEF MadeIds, NewIds, Tags
  <2>14. Distinct(t)
    BY <2>9, <2>12 DEF Distinct
  <2>15. ASSUME Grew
         PROVE  Called(o, proc[o].call)'
    <3>1. c = Coin(Len(store) + 1, store'[request[o].note].cancel)
      BY <1>1, <2>7, <2>15 DEF Grew, ClientInv, OpInv
    <3> QED
      BY <1>1, <2>2, <2>8, <2>9, <2>10, <3>1 DEF Called, CancelCall
  <2>16. IsFiniteSet({}) /\ IsFiniteSet({order})
    BY FS_EmptySet, FS_Singleton
  <2> QED
    BY <2>2, <2>3, <2>4, <2>7, <2>9, <2>10, <2>11, <2>12, <2>13, <2>14, <2>15, <2>16, StageStep
<1> QED
  BY <1>1, <1>2, <1>3 DEF CancelOrder

\* What is made in two parts: the note to give and the change, if there is any.
LEMMA OutputList ==
  ASSUME NEW c, NEW d
  PROVE  /\ IsList(<<c, d>>) /\ ToSet(<<c, d>>) = {c, d} /\ DOMAIN <<c, d>> = {1, 2}
         /\ <<c>> \o <<>> = <<c>> /\ <<c>> \o <<d>> = <<c, d>>
<1>1. /\ DOMAIN <<c, d>> = {1, 2} /\ <<c, d>>[1] = c /\ <<c, d>>[2] = d
      /\ <<c, d>> \in Seq({c, d}) /\ Len(<<c, d>>) = 2
  OBVIOUS
<1>2. ToSet(<<c, d>>) = {c, d}
  BY <1>1 DEF ToSet
<1>3. /\ <<c>> \in Seq({c, d}) /\ <<d>> \in Seq({c, d})
      /\ Len(<<c>>) = 1 /\ Len(<<d>>) = 1 /\ <<c>>[1] = c /\ <<d>>[1] = d
  OBVIOUS
<1>4. <<c>> \o <<>> = <<c>>
  BY <1>3, ConcatEmptySeq
<1>5. <<c>> \o <<d>> = <<c, d>>
  <2>1. /\ <<c>> \o <<d>> \in Seq({c, d}) /\ Len(<<c>> \o <<d>>) = 2
        /\ (<<c>> \o <<d>>)[1] = c /\ (<<c>> \o <<d>>)[2] = d
    BY <1>3, ConcatProperties
  <2> DEFINE s == <<c>> \o <<d>>
             t == <<c, d>>
  <2>2. /\ s \in Seq({c, d}) /\ t \in Seq({c, d}) /\ Len(s) = 2 /\ Len(t) = 2
        /\ s[1] = t[1] /\ s[2] = t[2]
    BY <1>1, <2>1
  <2> HIDE DEF s, t
  <2>3. s = t
    BY <2>2, SeqEqual
  <2> QED
    BY <2>3 DEF s, t
<1> QED
  BY <1>1, <1>2, <1>4, <1>5 DEF IsList

\* What is left of the steps ends as they did.
LEMMA TailLast ==
  ASSUME NEW s, IsList(s), s # <<>>
  PROVE  /\ Tail(s) # <<>> => Tail(s)[Len(Tail(s))] = s[Len(s)]
         /\ Tail(s) = <<>> => s[Len(s)] = Head(s)
<1>1. s \in Seq(ToSet(s)) /\ Tail(s) \in Seq(ToSet(s))
  BY HeadTailProperties DEF IsList
<1>2. /\ Len(s) \in Nat /\ Len(s) > 0 /\ Len(Tail(s)) = Len(s) - 1 /\ Head(s) = s[1]
      /\ \A i \in 1..(Len(s) - 1) : Tail(s)[i] = s[i + 1]
  BY <1>1
<1>3. Tail(s) = <<>> <=> Len(Tail(s)) = 0
  BY <1>1, EmptySeq
<1> QED
  BY <1>2, <1>3

\* executeJoin stages the target and the change; the last target is the amount
\* that was asked for.
LEMMA ExecuteJoinStep ==
  ASSUME ClientInv, NEW o \in Op, ExecuteJoin(o)
  PROVE  ClientInv'
<1> DEFINE step   == Head(proc[o].steps)
           target == Coin(used + 1, step.target)
           second == Coin(used + 2, step.change)
           change == IF step.change > 0 THEN <<second>> ELSE <<>>
           outs   == <<target>> \o change
           notes  == [i \in DOMAIN outs |-> NewNote(request[o].asset, outs[i].amount, 0)]
           spends == {InputA(o)} \cup {Chosen(o, n) : n \in {InputB(o)} \ {0}}
           call   == [mints |-> outs, spends |-> spends]
           local  == [offer |-> target, steps |-> Tail(proc[o].steps), next |-> "confirm"]
           t      == With(NoCall, call)
<1>1. proc[o].at = "join" /\ StageAndSubmit(o, notes, call, local)
  BY DEF ExecuteJoin, At
<1>2. store' = store \o notes /\ Len(store') \in NoteId /\ UNCHANGED <<chainVars, request, tx>>
  BY <1>1 DEF StageAndSubmit
<1>3. tx[o].status # "pending"
  BY <1>1 DEF ClientInv, TxInv
<1>4. Spending(o) /\ Planned(o) /\ proc[o].steps # <<>>
  BY <1>1 DEF ClientInv, OpInv
<1>5. /\ target = Coin(Len(store) + 1, step.target) /\ target.id = Len(store) + 1
      /\ target = Coin(target.id, target.amount) /\ target = Coin(target.id, step.target)
      /\ second.id = Len(store) + 2 /\ second = Coin(second.id, second.amount)
  BY DEF Coin, used
<1>6. DOMAIN call = {"mints", "spends"} /\ call["mints"] = outs /\ call["spends"] = spends
  OBVIOUS
<1>7. /\ DOMAIN local = {"offer", "steps", "next"} /\ local["offer"] = target
      /\ local["steps"] = Tail(proc[o].steps) /\ local["next"] = "confirm"
  OBVIOUS
<1>8. IsFiniteSet(spends)
  <2>1. {Chosen(o, n) : n \in {InputB(o)} \ {0}} \subseteq {Chosen(o, InputB(o))}
    OBVIOUS
  <2>2. IsFiniteSet({InputA(o)}) /\ IsFiniteSet({Chosen(o, InputB(o))})
    BY FS_Singleton
  <2> QED
    BY <2>1, <2>2, FS_Subset, FS_Union
<1>9. Planned(o) => IsList(Tail(proc[o].steps))
  BY <1>4, HeadTail DEF Planned
<1> HIDE DEF call, local, target, second, spends, step
<1>10. \/ outs = <<target>> \/ outs = <<target, second>>
  BY OutputList
<1> HIDE DEF outs
<1>11. /\ IsList(outs) /\ DOMAIN outs \subseteq {1, 2} /\ 1 \in DOMAIN outs
       /\ target \in ToSet(outs) /\ ToSet(outs) \subseteq {target, second}
       /\ second \in ToSet(outs) => 2 \in DOMAIN outs
       /\ IsList(notes) /\ DOMAIN notes = DOMAIN outs
  <2>1. CASE outs = <<target>>
    <3>1. DOMAIN outs = {1} /\ ToSet(outs) = {target} /\ IsList(outs)
      BY <2>1, OneList
    <3>2. notes = <<notes[1]>>
      BY <2>1
    <3>3. IsList(notes) /\ DOMAIN notes = {1}
      BY <3>2, OneList
    <3>4. target # second
      BY <1>5 DEF ClientInv, StoreInv, IsList
    <3> QED
      BY <3>1, <3>3, <3>4
  <2>2. CASE outs = <<target, second>>
    <3>1. DOMAIN outs = {1, 2} /\ ToSet(outs) = {target, second} /\ IsList(outs)
      BY <2>2, OutputList
    <3>2. notes = <<notes[1], notes[2]>>
      BY <2>2
    <3>3. IsList(notes) /\ DOMAIN notes = {1, 2}
      BY <3>2, OutputList
    <3> QED
      BY <3>1, <3>3
  <2> QED
    BY <1>10, <2>1, <2>2
<1>14. \A i \in DOMAIN notes : \E asset, amount, cancel : notes[i] = NewNote(asset, amount, cancel)
  OBVIOUS
<1> HIDE DEF notes
<1>12. /\ DOMAIN t = CallFields /\ t.status = "pending" /\ t.mints = outs
       /\ t.spends = spends /\ t.rests = {} /\ t.removes = {}
  BY <1>6, CallWith DEF CallFields, NoCall
<1>13. /\ Locals' /\ \A y \in Process : y # o => proc'[y] = proc[y]
       /\ proc'[o].at = "submit" /\ proc'[o].call = t
       /\ proc'[o].todo = proc[o].todo /\ proc'[o].held = proc[o].held
       /\ proc'[o].offer = target /\ proc'[o].steps = Tail(proc[o].steps)
       /\ proc'[o].next = "confirm"
  <2>1. StageAndSubmit(o, notes, call, local) /\ DOMAIN local \subseteq {"offer", "steps", "next"}
    BY <1>1, <1>7
  <2>2. /\ \A k \in DOMAIN local : proc'[o][k] = local[k]
        /\ Locals' /\ \A y \in Process : y # o => proc'[y] = proc[y]
        /\ proc'[o].at = "submit" /\ proc'[o].call = t
        /\ proc'[o].todo = proc[o].todo /\ proc'[o].held = proc[o].held
    BY <2>1, Staged
  <2> QED
    BY <1>7, <2>2
<1> HIDE DEF t
<1>15. MadeIds(t) \subseteq NewIds(notes)
  BY <1>5, <1>11, <1>12 DEF MadeIds, NewIds, Tags
<1>16. Distinct(t) /\ \A c \in ToSet(t.mints) : c = Coin(c.id, c.amount)
  <2>1. target.id # second.id
    BY <1>5 DEF ClientInv, StoreInv, IsList
  <2> QED
    BY <1>5, <1>11, <1>12, <2>1 DEF Distinct
<1>17. ASSUME Grew
       PROVE  Called(o, proc[o].call)'
  <2>1. Spending(o)' /\ request'[o].amount = request[o].amount
    BY <1>4, <1>17 DEF Spending, Grew
  <2>2. Planned(o)'
    <3>1. /\ Tail(proc[o].steps) # <<>> =>
               Tail(proc[o].steps)[Len(Tail(proc[o].steps))] = proc[o].steps[Len(proc[o].steps)]
          /\ Tail(proc[o].steps) = <<>> => proc[o].steps[Len(proc[o].steps)] = step
      BY <1>4, TailLast DEF Planned, step
    <3> QED
      BY <1>4, <1>5, <1>9, <1>13, <2>1, <3>1 DEF Planned
  <2> QED
    BY <1>11, <1>12, <1>13, <2>1, <2>2 DEF Called, JoinCall
<1>18. IsFiniteSet({})
  BY FS_EmptySet
<1> QED
  BY <1>2, <1>3, <1>8, <1>11, <1>12, <1>13, <1>14, <1>15, <1>16, <1>17, <1>18, StageStep

\* placeOrder stages the output note of an order that gives the assembled coin.
LEMMA PlaceOrderStep ==
  ASSUME ClientInv, NEW o \in Op, PlaceOrder(o)
  PROVE  ClientInv'
<1> DEFINE offer == proc[o].offer
           n == used + 1
           notes == <<NewNote("quote", 1, offer.amount)>>
           call == [spends |-> {offer}, rests |-> {n}]
           local == [next |-> "done"]
           t == With(NoCall, call)
<1>1. proc[o].at = "spend" /\ StageAndSubmit(o, notes, call, local)
  BY DEF PlaceOrder, At
<1>2. store' = store \o notes /\ Len(store') \in NoteId /\ UNCHANGED <<chainVars, request, tx>>
  BY <1>1 DEF StageAndSubmit
<1>3. tx[o].status # "pending"
  BY <1>1 DEF ClientInv, TxInv
<1>4. IsList(notes) /\ DOMAIN notes = {1} /\ notes[1] = NewNote("quote", 1, offer.amount)
  BY OneList
<1>5. DOMAIN local = {"next"} /\ local["next"] = "done"
  OBVIOUS
<1>6. DOMAIN call = {"spends", "rests"} /\ call["spends"] = {offer} /\ call["rests"] = {n}
  OBVIOUS
<1>7. /\ Spending(o) /\ offer = Coin(offer.id, request[o].amount) /\ offer \in OnChain
      /\ request[o].amount > 0
  BY <1>1 DEF ClientInv, OpInv, Planned
<1>8. n = Len(store) + 1
  BY DEF used
<1> HIDE DEF call, local, n
<1>9. /\ DOMAIN t = CallFields /\ t.status = "pending" /\ t.mints = <<>>
      /\ t.spends = {offer} /\ t.rests = {n} /\ t.removes = {}
  BY <1>6, CallWith DEF CallFields, NoCall
<1>10. /\ Locals' /\ \A y \in Process : y # o => proc'[y] = proc[y]
       /\ proc'[o].at = "submit" /\ proc'[o].call = t
       /\ proc'[o].todo = proc[o].todo /\ proc'[o].held = proc[o].held
       /\ proc'[o].next = "done" /\ proc'[o].offer = offer
  BY <1>1, <1>5, Staged
<1> HIDE DEF t
<1>11. \A i \in DOMAIN notes : \E asset, amount, cancel : notes[i] = NewNote(asset, amount, cancel)
  BY <1>4
<1> HIDE DEF notes
<1>12. IsList(t.mints) /\ ToSet(t.mints) = {}
  BY <1>9, OneList
<1>13. MadeIds(t) \subseteq NewIds(notes)
  BY <1>4, <1>8, <1>9, <1>12 DEF MadeIds, NewIds, Tags
<1>14. Distinct(t)
  BY <1>12 DEF Distinct, Tags
<1>15. ASSUME NEW m \in t.rests
       PROVE  \E c \in OnChain : c.amount > 0 /\ t.spends = {Coin(c.id, store'[m].cancel)}
  <2>1. store'[m].cancel = offer.amount
    <3>1. m = Len(store) + 1
      BY <1>8, <1>9, <1>15
    <3>2. store'[Len(store) + 1] = notes[1]
      BY <1>2, <1>4, Added DEF ClientInv
    <3> QED
      BY <1>4, <3>1, <3>2 DEF NewNote
  <2>2. offer.amount = request[o].amount
    BY <1>7 DEF Coin
  <2> QED
    BY <1>7, <1>9, <2>1, <2>2
<1>16. ASSUME Grew
       PROVE  Called(o, proc[o].call)'
  BY <1>7, <1>9, <1>10, <1>16 DEF Called, SpendCall, Spending, Grew
<1>17. IsFiniteSet({}) /\ IsFiniteSet({n}) /\ IsFiniteSet({offer})
  BY FS_EmptySet, FS_Singleton
<1> QED
  BY <1>2, <1>3, <1>4, <1>9, <1>10, <1>11, <1>12, <1>13, <1>14, <1>15, <1>16, <1>17, StageStep

\* unshield stages nothing, and gives the assembled coin.
LEMMA UnshieldStep ==
  ASSUME ClientInv, NEW o \in Op, Unshield(o)
  PROVE  ClientInv'
<1> DEFINE offer == proc[o].offer
           call == [spends |-> {offer}]
           local == [next |-> "done"]
           t == With(NoCall, call)
<1>1. proc[o].at = "spend" /\ StageAndSubmit(o, <<>>, call, local)
  BY DEF Unshield, At
<1>2. store' = store \o <<>> /\ Len(store') \in NoteId /\ UNCHANGED <<chainVars, request, tx>>
  BY <1>1 DEF StageAndSubmit
<1>3. tx[o].status # "pending"
  BY <1>1 DEF ClientInv, TxInv
<1>4. DOMAIN local = {"next"} /\ local["next"] = "done"
  OBVIOUS
<1>5. DOMAIN call = {"spends"} /\ call["spends"] = {offer}
  OBVIOUS
<1>6. Spending(o) /\ offer = Coin(offer.id, request[o].amount) /\ offer \in OnChain
  BY <1>1 DEF ClientInv, OpInv, Planned
<1> HIDE DEF call, local
<1>7. /\ DOMAIN t = CallFields /\ t.status = "pending" /\ t.mints = <<>>
      /\ t.spends = {offer} /\ t.rests = {} /\ t.removes = {}
  BY <1>5, CallWith DEF CallFields, NoCall
<1>8. /\ Locals' /\ \A y \in Process : y # o => proc'[y] = proc[y]
      /\ proc'[o].at = "submit" /\ proc'[o].call = t
      /\ proc'[o].todo = proc[o].todo /\ proc'[o].held = proc[o].held
      /\ proc'[o].next = "done" /\ proc'[o].offer = offer
  BY <1>1, <1>4, Staged
<1> HIDE DEF t
<1>9. IsList(<<>>) /\ DOMAIN <<>> = {} /\ IsList(t.mints) /\ ToSet(t.mints) = {}
  BY <1>7, OneList
<1>10. MadeIds(t) \subseteq NewIds(<<>>) /\ Distinct(t)
  BY <1>7, <1>9 DEF MadeIds, Distinct, Tags
<1>11. ASSUME Grew
       PROVE  Called(o, proc[o].call)'
  BY <1>6, <1>7, <1>8, <1>11 DEF Called, SpendCall, Spending, Grew
<1>12. IsFiniteSet({}) /\ IsFiniteSet({offer})
  BY FS_EmptySet, FS_Singleton
<1> QED
  BY <1>2, <1>3, <1>7, <1>8, <1>9, <1>10, <1>11, <1>12, StageStep

-----------------------------------------------------------------------------
\* At first the store shows what the chain has, and no call has begun.
LEMMA InitHolds == Init => ClientInv
<1> SUFFICES ASSUME Init
             PROVE  ClientInv
  OBVIOUS
<1>1. PICK s \in Scenarios :
        LET onChain == {n \in DOMAIN s.notes : s.notes[n].cancel = 0}
        IN  /\ store = s.notes /\ request = s.request /\ left = s.left
            /\ leaves = SetToSeq({Coin(n, s.notes[n].amount) : n \in onChain})
            /\ visible = Len(leaves) /\ spent = {} /\ resting = DOMAIN s.notes \ onChain
            /\ tx = [o \in Op |-> NoTx] /\ proc = [x \in Process |-> Ready]
  BY DEF Init
<1> DEFINE paid == {n \in DOMAIN store : store[n].cancel = 0}
           coins == {Coin(n, store[n].amount) : n \in paid}
<1>2. /\ store \in Seq(Note) /\ Len(store) <= MaxNotes /\ request \in [Op -> Request]
      /\ \A n \in DOMAIN store : /\ store[n].status = "active"
                                 /\ store[n].indexed => store[n].cancel = 0
      /\ \A o \in Op : request[o].kind = "cancel_order" => request[o].note \in DOMAIN store
  BY <1>1, ScenarioAssumption
<1>3. /\ leaves = SetToSeq(coins) /\ visible = Len(leaves) /\ spent = {}
      /\ resting = DOMAIN store \ paid
      /\ tx = [o \in Op |-> NoTx] /\ proc = [x \in Process |-> Ready]
  BY <1>1
<1>4. \A n \in DOMAIN store : store[n] \in Note
  BY <1>2
<1>5. IsFiniteSet(coins)
  <2>1. IsFiniteSet(paid)
    <3>1. DOMAIN store = 1..Len(store) /\ Len(store) \in Nat
      BY <1>2
    <3>2. IsFiniteSet(DOMAIN store)
      BY <3>1, FS_Interval
    <3> QED
      BY <3>2, FS_Subset
  <2> DEFINE f == [n \in paid |-> Coin(n, store[n].amount)]
  <2>2. f \in Surjection(paid, coins)
    BY DEF Surjection
  <2> HIDE DEF f, paid, coins
  <2> QED
    BY <2>1, <2>2, FS_Surjection
<1>6. leaves \in Seq(coins) /\ OnChain = coins
  BY <1>3, <1>5, ListsSet DEF OnChain
<1>7. \A c \in coins : /\ c = Coin(c.id, c.amount) /\ c.id \in paid
                       /\ c = Coin(c.id, store[c.id].amount)
  BY DEF Coin
<1>8. ASSUME NEW n \in paid
      PROVE  Coin(n, store[n].amount) \in OnChain /\ n \in Tags(OnChain)
  <2>1. Coin(n, store[n].amount) \in OnChain /\ Coin(n, store[n].amount).id = n
    BY <1>6 DEF Coin
  <2> QED
    BY <2>1 DEF Tags
<1> HIDE DEF coins
<1>9. Tags(OnChain) \subseteq paid
  BY <1>6, <1>7 DEF Tags
<1>10. Locals /\ \A x \in Process : proc[x] = Ready
  BY <1>3 DEF Locals, Ready, Fields
<1>11. StoreInv
  <2>1. IsList(store)
    BY <1>2, ListOf DEF StoreInv
  <2>3. DOMAIN store \subseteq NoteId
    BY <1>2, MaxNotesNat DEF NoteId
  <2>2. ASSUME NEW n \in DOMAIN store
        PROVE  Right(n, store[n])
    <3>1. /\ store[n].status = "active" /\ store[n].indexed \in BOOLEAN
          /\ {"amount", "cancel", "status", "indexed"} \subseteq DOMAIN store[n]
      BY <1>2, <1>4 DEF Note
    <3>2. store[n].indexed => Coin(n, store[n].amount) \in OnChain
      BY <1>2, <1>8
    <3> QED
      BY <3>1, <3>2 DEF Right
  <2> QED
    BY <2>1, <2>2, <2>3 DEF StoreInv
<1>12. ChainInv
  <2>1. IsList(leaves) /\ visible \in 0..Len(leaves)
    BY <1>3, <1>6, ListOf
  <2>2. \A c, d \in OnChain : c.id = d.id => c = d
    BY <1>6, <1>7
  <2>3. \A n \in resting : store[n].cancel > 0
    BY <1>3, <1>4 DEF Note
  <2>4. \A c \in OnChain : c = Coin(c.id, c.amount) /\ c.id \in DOMAIN store
    BY <1>6, <1>7
  <2> QED
    BY <1>3, <1>9, <2>1, <2>2, <2>3, <2>4 DEF ChainInv
<1>13. \A o \in Op : /\ proc[o].at = "start" /\ proc[o].call = NoCall /\ tx[o] = NoTx
                     /\ May(o) = {}
  BY <1>3, <1>10, OpIsProcess DEF May, NoTx, NoCall, Ready
<1>14. MayInv
  BY <1>13 DEF MayInv
<1>15. ASSUME NEW x \in Process
       PROVE  UpdateInv(x)
  <2>1. proc[x].todo = <<>> /\ proc[x].held = Nobody
    BY <1>10 DEF Ready
  <2> QED
    BY <2>1, OneList DEF UpdateInv
<1>16. CallInv(NoCall) /\ CallInv(NoTx) /\ NoTx.status = "none"
  BY FS_EmptySet, OneList DEF CallInv, NoTx, NoCall, CallFields, MadeIds, Tags
<1>17. ASSUME NEW o \in Op
       PROVE  TxInv(o) /\ OpInv(o)
  <2>1. TxInv(o)
    BY <1>13, <1>16 DEF TxInv
  <2>2. OpInv(o)
    BY <1>2, <1>13 DEF OpInv, Request
  <2> QED
    BY <2>1, <2>2
<1>18. proc[Loop].at = "start" /\ DOMAIN tx = Op
  BY <1>3, <1>10 DEF Process, Ready
<1> QED
  BY <1>10, <1>11, <1>12, <1>14, <1>15, <1>17, <1>18 DEF ClientInv

\* Nothing changes.
LEMMA Stutter ==
  ASSUME ClientInv, UNCHANGED clientVars
  PROVE  ClientInv'
<1>1. UNCHANGED <<store, leaves, visible, spent, resting, request, tx, proc>>
  BY DEF clientVars, chainVars
<1>2. Grew
  BY <1>1 DEF Grew, Born, OnChain, May
<1>3. /\ Locals' /\ DOMAIN tx' = Op /\ proc'[Loop].at = "start"
      /\ \A x \in Process : proc'[x] = proc[x]
      /\ \A o \in Op : tx'[o] = tx[o] /\ May(o)' = May(o)
  BY <1>1 DEF ClientInv, Locals, May
<1>4. StoreInv' /\ ChainInv' /\ MayInv'
  <2>1. UNCHANGED <<store, chainVars, request>>
    BY <1>1 DEF chainVars
  <2> QED
    BY <1>3, <2>1, Kept
<1>5. \A x \in Process : UpdateInv(x)'
  BY <1>2, <1>3, UpdatesStay DEF ClientInv
<1>6. \A o \in Op : TxInv(o)' /\ OpInv(o)'
  BY <1>2, <1>3, TxStays, OpStays, OpIsProcess DEF ClientInv
<1> QED
  BY <1>3, <1>4, <1>5, <1>6 DEF ClientInv

\* Every step of a call keeps the invariant.
LEMMA OpStepKeeps ==
  ASSUME ClientInv, NEW o \in Op, OpStep(o)
  PROVE  ClientInv'
<1>1. CASE Shield(o)
  BY <1>1, ShieldStep
<1>2. CASE Assemble(o)
  BY <1>2, AssembleStep
<1>3. CASE JoinPath(o)
  BY <1>3, JoinPathStep
<1>4. CASE JoinPath2(o)
  BY <1>4, JoinPath2Step
<1>5. CASE ExecuteJoin(o)
  BY <1>5, ExecuteJoinStep
<1>6. CASE Confirmed(o)
  BY <1>6, ConfirmedStep
<1>7. CASE ConfirmTick(o)
  <2>1. Reconcile(o) /\ proc[o].held = Nobody
    BY <1>7 DEF ConfirmTick, At
  <2> QED
    BY <2>1, OpIsProcess, ReconcileStep
<1>8. CASE ConfirmTimesOut(o)
  BY <1>8, ConfirmTimesOutStep
<1>9. CASE PlaceOrder(o)
  BY <1>9, PlaceOrderStep
<1>10. CASE Unshield(o)
  BY <1>10, UnshieldStep
<1>11. CASE CancelOrder(o)
  BY <1>11, CancelOrderStep
<1>12. CASE Submit(o)
  BY <1>12, SubmitStep
<1>13. CASE Poll(o)
  BY <1>13, PollStep
<1> QED
  BY <1>1, <1>2, <1>3, <1>4, <1>5, <1>6, <1>7, <1>8, <1>9, <1>10, <1>11, <1>12, <1>13 DEF OpStep

\* And so does every step of the chain, of an update, of the loop, and a crash.
LEMMA NextKeeps ==
  ASSUME ClientInv, Next
  PROVE  ClientInv'
<1>1. ASSUME NEW o \in Op, OpStep(o)
      PROVE  ClientInv'
  BY <1>1, OpStepKeeps
<1>2. ASSUME NEW o \in Op, GiveUp(o)
      PROVE  ClientInv'
  BY <1>2, GiveUpStep
<1>3. ASSUME NEW o \in Op, TxLands(o)
      PROVE  ClientInv'
  BY <1>3, TxLandsStep
<1>4. ASSUME NEW o \in Op, TxFails(o)
      PROVE  ClientInv'
  BY <1>4, TxFailsStep
<1>5. ASSUME NEW x \in Process, GetNote(x)
      PROVE  ClientInv'
  BY <1>5, GetNoteStep
<1>6. ASSUME NEW x \in Process, PutNote(x)
      PROVE  ClientInv'
  BY <1>6, PutNoteStep
<1>7. ASSUME NEW n \in NoteId, NEW amount, OrderFills(n, amount)
      PROVE  ClientInv'
  BY <1>7, OrderFillsStep
<1>8. CASE ShowLeaf
  BY <1>8, ShowLeafStep
<1>9. CASE LoopTick
  <2>1. Loop \in Process /\ Reconcile(Loop) /\ proc[Loop].held = Nobody
    BY <1>9 DEF LoopTick, At, Process
  <2> QED
    BY <2>1, ReconcileStep
<1>10. CASE Crash
  BY <1>10, CrashStep
<1> QED
  BY <1>1, <1>2, <1>3, <1>4, <1>5, <1>6, <1>7, <1>8, <1>9, <1>10 DEF Next

\* Every reachable state satisfies it, whatever fails, gets lost or crashes.
THEOREM ClientInvariant == Spec => []ClientInv
<1>1. Init => ClientInv
  BY InitHolds
<1>2. ClientInv /\ [Next]_clientVars => ClientInv'
  BY NextKeeps, Stutter
<1> QED
  BY <1>1, <1>2, PTL DEF Spec

\* Nothing on the chain is out of the wallet's reach: the store has the note of
\* every unspent leaf and of every resting order and has not written it off, and
\* what it shows as confirmed is on the chain with that amount, although updates
\* are a read and a write with those of other calls in between (NoteManager.update).
THEOREM StoreStaysCovering == Spec => []StoreCoversChain
<1>1. ClientInv => StoreCoversChain
  <2> SUFFICES ASSUME ClientInv
               PROVE  StoreCoversChain
    OBVIOUS
  <2>1. ASSUME NEW n \in DOMAIN store, Born(n), n \notin spent
        PROVE  store[n].status = "active"
    <3>1. Right(n, store[n])
      BY DEF ClientInv, StoreInv
    <3> QED
      BY <2>1, <3>1 DEF Right, Dead
  <2>2. \A c \in OnChain : c.id \in DOMAIN store /\ Born(c.id)
    BY DEF ClientInv, ChainInv, Born, Tags
  <2>3. \A n \in resting : n \in DOMAIN store /\ Born(n) /\ n \notin spent /\ store[n].cancel > 0
    BY DEF ClientInv, ChainInv, Born
  <2>4. \A n \in DOMAIN store : store[n].indexed => Coin(n, store[n].amount) \in OnChain
    BY DEF ClientInv, StoreInv, Right
  <2> QED
    BY <2>1, <2>2, <2>3, <2>4 DEF StoreCoversChain
<1> QED
  BY <1>1, ClientInvariant, PTL

\* A call that reports success has landed a transaction that moved exactly the
\* amount it was asked for, or returned what the order gave.
THEOREM CallsStayDelivered == Spec => []Delivered
<1>1. ClientInv => Delivered
  <2> SUFFICES ASSUME ClientInv, NEW o \in Op, At(o, "done")
               PROVE  /\ tx[o].status = "landed"
                      /\ LET moved == IF request[o].kind \in {"shield", "cancel_order"}
                                      THEN ToSet(tx[o].mints) ELSE tx[o].spends
                             asked == IF request[o].kind = "cancel_order"
                                      THEN store[request[o].note].cancel
                                      ELSE request[o].amount
                         IN  \E n \in NoteId : moved = {Coin(n, asked)}
    BY DEF Delivered
  <2>1. /\ tx[o].status = "landed" /\ TxInv(o) /\ ChainInv
        /\ ShieldCall(o, tx[o]) \/ CancelCall(o, tx[o]) \/ SpendCall(o, tx[o])
    BY DEF At, ClientInv, OpInv
  <2>5. \A c \in OnChain : c.id \in NoteId
    BY <2>1 DEF ClientInv, StoreInv, ChainInv
  <2>2. CASE ShieldCall(o, tx[o])
    <3>1. PICK n : proc[o].offer = Coin(n, request[o].amount)
      BY <2>2 DEF ShieldCall
    <3>2. ToSet(tx[o].mints) = {Coin(n, request[o].amount)} /\ request[o].kind = "shield"
      BY <2>2, <3>1, OneList DEF ShieldCall
    <3>3. Coin(n, request[o].amount) \in OnChain /\ Coin(n, request[o].amount).id = n
      BY <2>1, <3>2 DEF TxInv, Coin
    <3> QED
      BY <2>1, <2>5, <3>2, <3>3
  <2>3. CASE CancelCall(o, tx[o])
    BY <2>1, <2>3, OneList DEF CancelCall
  <2>4. CASE SpendCall(o, tx[o])
    <3>1. /\ tx[o].spends = {Coin(proc[o].offer.id, request[o].amount)}
          /\ proc[o].offer.id \in NoteId /\ request[o].kind \in {"place_order", "unshield"}
      BY <2>4, <2>5 DEF SpendCall, Spending
    <3> QED
      BY <2>1, <3>1
  <2> QED
    BY <2>1, <2>2, <2>3, <2>4
<1> QED
  BY <1>1, ClientInvariant, PTL
=============================================================================

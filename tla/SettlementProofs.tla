-------------------------- MODULE SettlementProofs --------------------------
(***************************************************************************)
(* Theorems about the settlement contract, for every registry, every set   *)
(* of tags and every bound.                                                *)
(*                                                                         *)
(* TypeInv is not inductive as it stands: what submit_order stores at its  *)
(* end are the values its local variables took in the loop.  TxInv says    *)
(* how those relate to storage, which no other transaction can touch in    *)
(* between; TypeInv /\ TxInv is inductive.                                 *)
(*                                                                         *)
(* The later parts of the module add, each to the invariant before it:     *)
(* SingleSpend, BookInv with what the running transaction owns, the order  *)
(* of the books with that of the running transaction's copy, and the       *)
(* conservation of value, from which the refinement of Vault and Backing   *)
(* follow.  The parts on trading start from TradeInv and add to it what    *)
(* each property needs to know of the running transaction: what it has     *)
(* done to the expired orders (ExpiredKept), which makers it has passed    *)
(* (PriceKept), what it has minted (AllPaid) and published (LogKept).      *)
(***************************************************************************)
EXTENDS Settlement, MatchingProofs

\* side_assets returns registered assets, and the opposite side trades them
\* the other way round.
LEMMA SideTypes ==
  ASSUME NEW b \in BookId
  PROVE  /\ GiveAsset(b) \in Asset /\ WantAsset(b) \in Asset
         /\ OtherSide(b) \in BookId /\ OtherSide(b) # b
         /\ GiveAsset(OtherSide(b)) = WantAsset(b)
         /\ WantAsset(OtherSide(b)) = GiveAsset(b)
<1>1. b[1] \in DOMAIN Pair /\ b[2] \in {"Buy", "Sell"} /\ b = <<b[1], b[2]>>
  BY DEF BookId, Side, Buy, Sell
<1>2. Pair[b[1]] \in [base_asset : Asset, quote_asset : Asset]
  <2>1. Pair \in Seq([base_asset : Asset, quote_asset : Asset])
    BY RegistryAssumption
  <2> QED BY <1>1, <2>1, LenProperties, ElementOfSeq
<1>3. OtherSide(b)[1] = b[1] /\ OtherSide(b)[2] = Opposite(b[2])
  BY DEF OtherSide
<1>4. OtherSide(b) \in BookId
  BY <1>1 DEF OtherSide, Opposite, BookId, Side, Buy, Sell
<1>5. OtherSide(b)[2] # b[2]
  BY <1>1, <1>3 DEF Opposite, Buy, Sell
<1>6. CASE b[2] = "Buy"
  BY <1>2, <1>3, <1>4, <1>5, <1>6 DEF GiveAsset, WantAsset, Opposite, Buy, Sell
<1>7. CASE b[2] = "Sell"
  BY <1>2, <1>3, <1>4, <1>5, <1>7 DEF GiveAsset, WantAsset, Opposite, Buy, Sell
<1> QED
  BY <1>1, <1>6, <1>7

\* mint_note mints well-formed notes.
LEMMA MintNoteType ==
  ASSUME NEW asset \in Asset, NEW amount \in Nat, NEW tag \in Tag
  PROVE  MintNote(asset, amount, tag) \in Seq(Note)
<1>1. amount # 0 => MakeNote(asset, amount, tag) \in Note
  BY DEF MakeNote, Note
<1> QED
  BY <1>1 DEF MintNote

\* The events of minted notes are well formed.
LEMMA NoteEventsType ==
  ASSUME NEW minted \in Seq(Note)
  PROVE  NoteEvents(minted) \in Seq(Event)
<1>1. \A k \in DOMAIN minted : NoteEvent(minted[k]) \in Event
  <2>1. \A n \in Note : NoteEvent(n) \in Event
    BY DEF NoteEvent, Event
  <2> QED BY <2>1
<1>2. DOMAIN minted = 1..Len(minted) /\ Len(minted) \in Nat
  BY LenProperties
<1> QED
  BY <1>1, <1>2 DEF NoteEvents

\* The events of the book log are well formed.
LEMMA BookEventTypes ==
  ASSUME NEW seq \in Nat, NEW b \in BookId, NEW e \in OrderEntry
  PROVE  /\ UpsertEvent(seq, b, e) \in Event
         /\ RemoveEvent(seq, b, e.order_id, REMOVE_FILLED) \in Event
         /\ RemoveEvent(seq, b, e.order_id, REMOVE_CANCELLED) \in Event
         /\ RemoveEvent(seq, b, e.order_id, REMOVE_EXPIRED) \in Event
<1>1. e.order_id \in Tag
  BY DEF OrderEntry
<1> QED
  BY <1>1 DEF UpsertEvent, RemoveEvent, Event, REMOVE_FILLED, REMOVE_CANCELLED,
              REMOVE_EXPIRED

\* The tree is append-only: a step keeps every leaf where it is.
NotesKept ==
  \A i \in DOMAIN notes : i \in DOMAIN notes' /\ notes'[i] = notes[i]

\* An unchanged tree keeps its leaves.
LEMMA KeptIfSame == notes' = notes => NotesKept
BY DEF NotesKept

\* tree_insert: the tree stays well formed and within its capacity, and keeps
\* its leaves.
LEMMA InsertType ==
  ASSUME notes \in Seq(Note), NEW minted \in Seq(Note), Insert(minted)
  PROVE  /\ notes' \in Seq(Note) /\ Len(notes') <= TREE_CAPACITY
         /\ Len(notes') = Len(notes) + Len(minted)
         /\ NotesKept
<1>1. /\ Len(notes) \in Nat /\ Len(minted) \in Nat
      /\ DOMAIN notes = 1..Len(notes)
  BY LenProperties
<1>2. /\ notes \o minted \in Seq(Note)
      /\ Len(notes \o minted) = Len(notes) + Len(minted)
      /\ \A i \in 1..Len(notes) + Len(minted) :
           (notes \o minted)[i] = IF i <= Len(notes) THEN notes[i]
                                                    ELSE minted[i - Len(notes)]
  BY ConcatProperties
<1>3. DOMAIN (notes \o minted) = 1..(Len(notes) + Len(minted))
  BY <1>2, LenProperties
<1> QED
  BY <1>1, <1>2, <1>3, BoundAssumption DEF Insert, Fits, NotesKept

\* The fields of a leaf.
LEMMA NoteFields ==
  ASSUME notes \in Seq(Note), NEW i \in DOMAIN notes
  PROVE  /\ notes[i] \in Note
         /\ notes[i].asset \in Asset
         /\ notes[i].amount \in Nat \ {0}
         /\ notes[i].owner_tag \in Tag
<1>1. notes[i] \in Note
  BY LenProperties
<1> QED
  BY <1>1 DEF Note

\* The constructor leaves well-formed storage and no running transaction.
LEMMA InitType == Init => TypeInv /\ TxInv
<1> SUFFICES ASSUME Init PROVE TypeInv /\ TxInv
  OBVIOUS
<1>1. TypeInv
  BY BoundAssumption DEF Init, TypeInv
<1> QED
  BY <1>1 DEF Init, TxInv

\* The local variables of a running submit_order.
LEMMA SubmitFields ==
  ASSUME TypeInv, tx.op = "submit"
  PROVE  /\ tx \in SubmitTx /\ tx # Idle
         /\ tx.book_id \in BookId /\ tx.taker \in OrderEntry
         /\ tx.makers \in Seq(OrderEntry) /\ tx.minted \in Seq(Note)
         /\ tx.events \in Seq(Event) /\ tx.seq \in Nat /\ tx.i \in Nat \ {0}
         /\ tx.filled_out \in Nat /\ tx.fills \in Nat
<1>1. tx \in SubmitTx
  BY DEF NotesKept, TypeInv, PruneTx, Idle
<1> QED
  BY <1>1 DEF SubmitTx, Idle

\* The local variables of a running prune_expired.
LEMMA PruneFields ==
  ASSUME TypeInv, tx.op = "prune"
  PROVE  /\ tx \in PruneTx /\ tx # Idle
         /\ tx.book_id \in BookId
         /\ tx.makers \in Seq(OrderEntry) /\ tx.minted \in Seq(Note)
         /\ tx.events \in Seq(Event) /\ tx.seq \in Nat /\ tx.i \in Nat \ {0}
         /\ tx.removed \in Nat /\ tx.max \in Nat
<1>1. tx \in PruneTx
  BY DEF NotesKept, TypeInv, SubmitTx, Idle
<1> QED
  BY <1>1 DEF PruneTx, Idle

\* The fields of a resting order.
LEMMA OrderFields ==
  ASSUME NEW e \in OrderEntry
  PROVE  /\ e.order_id \in Tag /\ e.output_owner_tag \in Tag
         /\ e.amount_in \in Nat \ {0} /\ e.min_out \in Nat \ {0}
         /\ e.remaining_in \in Nat
BY DEF OrderEntry

\* Changing remaining_in leaves an order well formed and keeps its id.
LEMMA SetRemaining ==
  ASSUME NEW e \in OrderEntry, NEW r \in Nat
  PROVE  /\ [e EXCEPT !.remaining_in = r] \in OrderEntry
         /\ [e EXCEPT !.remaining_in = r].order_id = e.order_id
BY DEF OrderEntry

\* Advancing the loop index leaves the local variables well formed.
LEMMA SubmitAdvance ==
  ASSUME NEW t \in SubmitTx, NEW i \in Nat \ {0}
  PROVE  [t EXCEPT !.i = i] \in SubmitTx
BY DEF SubmitTx

\* So does updating the variables a fill touches.
LEMMA SubmitUpdate ==
  ASSUME NEW t \in SubmitTx, NEW taker \in OrderEntry, NEW filled_out \in Nat,
         NEW fills \in Nat, NEW makers \in Seq(OrderEntry), NEW minted \in Seq(Note),
         NEW seq \in Nat, NEW events \in Seq(Event)
  PROVE  [t EXCEPT !.taker = taker, !.filled_out = filled_out, !.fills = fills,
                   !.makers = makers, !.minted = minted, !.seq = seq,
                   !.events = events] \in SubmitTx
BY DEF SubmitTx

\* So does updating the variables a pruned order touches.
LEMMA PruneUpdate ==
  ASSUME NEW t \in PruneTx, NEW makers \in Seq(OrderEntry), NEW removed \in Nat,
         NEW minted \in Seq(Note), NEW seq \in Nat, NEW events \in Seq(Event)
  PROVE  [t EXCEPT !.makers = makers, !.removed = removed, !.minted = minted,
                   !.seq = seq, !.events = events] \in PruneTx
BY DEF PruneTx

\* A refund mints a well-formed note.
LEMMA RefundType ==
  ASSUME NEW b \in BookId, NEW e \in OrderEntry, NEW tag \in Tag
  PROVE  Refund(b, e, tag) \in Seq(Note)
BY SideTypes, OrderFields, MintNoteType DEF Refund

\* shield, the bridge administration and shield_from_base keep storage well
\* formed.
LEMMA DepositType ==
  ASSUME TypeInv, TxInv, Deposit
  PROVE  TypeInv' /\ TxInv' /\ NotesKept
<1>1. tx = Idle /\ tx' = tx
  BY DEF Deposit, Shield, ConfigureBaseBridge, AttestBaseBlock, ShieldFromBase
<1>2. TxInv'
  BY <1>1 DEF TxInv
<1>3. ASSUME NEW a \in Asset, NEW n \in ShieldAmount, NEW t \in Tag, Shield(a, n, t)
      PROVE  TypeInv' /\ NotesKept
  <2>1. n \in Nat \ {0} /\ MakeNote(a, n, t) \in Note
    BY InputAssumption DEF MakeNote, Note
  <2>2. <<MakeNote(a, n, t)>> \in Seq(Note)
    BY <2>1
  <2>3. /\ notes' \in Seq(Note) /\ Len(notes') <= TREE_CAPACITY
        /\ NotesKept
    BY <1>3, <2>2, InsertType DEF NotesKept, TypeInv, Shield
  <2>4. custody' \in [Asset -> Nat]
    BY <1>3, <2>1 DEF NotesKept, TypeInv, Shield
  <2>5. emitted' \in Seq(Event)
    <3>1. NoteEvent(MakeNote(a, n, t)) \in Event
      BY <2>1 DEF NoteEvent, Event
    <3> QED BY <1>3, <3>1 DEF Shield
  <2> QED
    BY <1>3, <2>3, <2>4, <2>5 DEF NotesKept, TypeInv, Shield, bookVars, baseVars
<1>4. ASSUME NEW o \in BaseOrigin, ConfigureBaseBridge(o)
      PROVE  TypeInv' /\ NotesKept
  BY <1>4 DEF NotesKept, TypeInv, ConfigureBaseBridge, poolVars, bookVars
<1>5. ASSUME NEW bl \in BaseBlock, AttestBaseBlock(bl[1], bl[2])
      PROVE  TypeInv' /\ NotesKept
  <2>1. <<bl[1], bl[2]>> \in Nat \X Nat
    BY InputAssumption
  <2>2. attested' \subseteq Nat \X Nat
    BY <1>5, <2>1 DEF NotesKept, TypeInv, AttestBaseBlock
  <2> QED
    BY <1>5, <2>2, EmptySeq DEF NotesKept, TypeInv, AttestBaseBlock, poolVars, bookVars
<1>6. ASSUME NEW j \in Journal, ShieldFromBase(j)
      PROVE  TypeInv' /\ NotesKept
  <2>1. /\ j.asset \in Asset /\ j.amount \in Nat /\ j.owner_tag \in Tag
        /\ j.deposit_id \in Nat
    BY JournalAssumption DEF JournalType
  <2>2. MakeNote(j.asset, j.amount, j.owner_tag) \in Note
    BY <1>6, <2>1 DEF ShieldFromBase, MakeNote, Note
  <2>3. <<MakeNote(j.asset, j.amount, j.owner_tag)>> \in Seq(Note)
    BY <2>2
  <2>4. /\ notes' \in Seq(Note) /\ Len(notes') <= TREE_CAPACITY
        /\ NotesKept
    BY <1>6, <2>3, InsertType DEF NotesKept, TypeInv, ShieldFromBase
  <2>5. bridged' \in [Asset -> Nat]
    BY <1>6, <2>1 DEF NotesKept, TypeInv, ShieldFromBase
  <2>7. deposits' \subseteq Nat
    BY <1>6, <2>1 DEF NotesKept, TypeInv, ShieldFromBase
  <2>6. emitted' \in Seq(Event)
    <3>1. NoteEvent(MakeNote(j.asset, j.amount, j.owner_tag)) \in Event
      BY <2>2 DEF NoteEvent, Event
    <3> QED BY <1>6, <3>1 DEF ShieldFromBase
  <2> QED
    BY <1>6, <2>4, <2>5, <2>6, <2>7 DEF NotesKept, TypeInv, ShieldFromBase, bookVars
<1> QED
  BY <1>2, <1>3, <1>4, <1>5, <1>6 DEF Deposit

\* Recording nullifiers keeps them well formed.
LEMMA ConsumeType ==
  ASSUME TypeInv, NotesKept,
         NEW spent \in SUBSET DOMAIN notes, Consume(spent)
  PROVE  nullifiers' \subseteq Tag /\ consumed' \subseteq DOMAIN notes'
<1>1. \A i \in spent : notes[i].owner_tag \in Tag
  BY NoteFields DEF TypeInv
<1> QED
  BY <1>1 DEF NotesKept, TypeInv, Consume

\* settle, settle_exact, unshield and join keep storage well formed.
LEMMA SpendType ==
  ASSUME TypeInv, TxInv, Spend
  PROVE  TypeInv' /\ TxInv' /\ NotesKept
<1>1. tx = Idle /\ tx' = tx => TxInv'
  BY DEF TxInv
<1>3. ASSUME NEW i \in DOMAIN notes, Unshield(i)
      PROVE  TypeInv' /\ TxInv' /\ NotesKept
  <2>1. custody' \in [Asset -> Nat]
    BY <1>3, NoteFields DEF NotesKept, TypeInv, Unshield
  <2>2. nullifiers' \subseteq Tag /\ consumed' \subseteq DOMAIN notes'
    BY <1>3, ConsumeType, KeptIfSame DEF Unshield
  <2> QED
    BY <1>1, <1>3, <2>1, <2>2, EmptySeq DEF NotesKept, TypeInv, Unshield, bookVars, baseVars
<1>4. ASSUME NEW i \in DOMAIN notes, NEW j \in DOMAIN notes, NEW s \in Tag, NEW t \in Tag,
             Swap(i, j, s, t)
      PROVE  TypeInv' /\ TxInv' /\ NotesKept
  <2> DEFINE minted == <<MakeNote(notes[j].asset, notes[j].amount, s),
                         MakeNote(notes[i].asset, notes[i].amount, t)>>
  <2>1. minted \in Seq(Note)
    <3>1. /\ MakeNote(notes[j].asset, notes[j].amount, s) \in Note
          /\ MakeNote(notes[i].asset, notes[i].amount, t) \in Note
      BY NoteFields DEF NotesKept, TypeInv, MakeNote, Note
    <3> QED BY <3>1
  <2>2. Insert(minted) /\ emitted' = NoteEvents(minted)
    BY <1>4 DEF Swap
  <2> HIDE DEF minted
  <2>3. /\ notes' \in Seq(Note) /\ Len(notes') <= TREE_CAPACITY
        /\ NotesKept
    BY <2>1, <2>2, InsertType DEF TypeInv
  <2>4. nullifiers' \subseteq Tag /\ consumed' \subseteq DOMAIN notes'
    BY <1>4, <2>3, ConsumeType DEF Swap
  <2>5. emitted' \in Seq(Event)
    BY <2>1, <2>2, NoteEventsType
  <2> QED
    BY <1>1, <1>4, <2>3, <2>4, <2>5 DEF NotesKept, TypeInv, Swap, bookVars, baseVars
<1>5. ASSUME NEW a \in Asset, NEW total \in Nat, NEW n, NEW s \in Tag, NEW t \in Tag,
             JoinInto(a, total, n, s, t)
      PROVE  /\ notes' \in Seq(Note) /\ Len(notes') <= TREE_CAPACITY
             /\ NotesKept
             /\ emitted' \in Seq(Event)
  <2> DEFINE minted == MintNote(a, n, s) \o MintNote(a, total - n, t)
  <2>1. n \in Nat /\ total - n \in Nat
    BY <1>5 DEF JoinInto
  <2>2. minted \in Seq(Note)
    BY <2>1, MintNoteType, ConcatProperties
  <2>3. Insert(minted) /\ emitted' = NoteEvents(minted)
    BY <1>5 DEF JoinInto
  <2> HIDE DEF minted
  <2> QED
    BY <2>2, <2>3, InsertType, NoteEventsType DEF TypeInv
<1>6. ASSUME NEW i \in DOMAIN notes, NEW j \in DOMAIN notes, NEW n, NEW s \in Tag, NEW t \in Tag,
             Join(i, j, n, s, t)
      PROVE  TypeInv' /\ TxInv' /\ NotesKept
  <2>1. notes[i].asset \in Asset /\ notes[i].amount + notes[j].amount \in Nat
    BY NoteFields DEF TypeInv
  <2>2. /\ notes' \in Seq(Note) /\ Len(notes') <= TREE_CAPACITY
        /\ NotesKept /\ emitted' \in Seq(Event)
    BY <1>5, <1>6, <2>1 DEF Join
  <2>3. nullifiers' \subseteq Tag /\ consumed' \subseteq DOMAIN notes'
    BY <1>6, <2>2, ConsumeType DEF Join
  <2> QED
    BY <1>1, <1>6, <2>2, <2>3 DEF NotesKept, TypeInv, Join, JoinInto, bookVars, baseVars
<1>7. ASSUME NEW i \in DOMAIN notes, NEW p \in Tag, NEW n, NEW s \in Tag, NEW t \in Tag,
             JoinPadded(i, p, n, s, t)
      PROVE  TypeInv' /\ TxInv' /\ NotesKept
  <2>1. notes[i].asset \in Asset /\ notes[i].amount \in Nat /\ notes[i].owner_tag \in Tag
    BY NoteFields DEF TypeInv
  <2>2. /\ notes' \in Seq(Note) /\ Len(notes') <= TREE_CAPACITY
        /\ NotesKept /\ emitted' \in Seq(Event)
    BY <1>5, <1>7, <2>1 DEF JoinPadded
  <2>3. nullifiers' \subseteq Tag /\ consumed' \subseteq DOMAIN notes'
    BY <1>7, <2>1, <2>2 DEF JoinPadded, TypeInv, NotesKept
  <2> QED
    BY <1>1, <1>7, <2>2, <2>3 DEF NotesKept, TypeInv, JoinPadded, JoinInto, bookVars, baseVars
<1> QED
  BY <1>3, <1>4, <1>6, <1>7 DEF Spend, Settle, SettleExact

\* The beginning of submit_order sets well-formed local variables.
LEMMA SubmitOrderType ==
  ASSUME TypeInv, TxInv, NEW i \in DOMAIN notes, NEW b \in BookId, NEW o \in Terms,
         SubmitOrder(i, b, o)
  PROVE  TypeInv' /\ TxInv' /\ NotesKept
<1> DEFINE taker == [order_id |-> notes[i].owner_tag,
                     amount_in |-> notes[i].amount,
                     min_out |-> o.min_out,
                     remaining_in |-> notes[i].amount,
                     output_owner_tag |-> o.output_owner_tag,
                     cancel_owner_tag |-> o.cancel_owner_tag,
                     expiry |-> o.expiry,
                     partial_allowed |-> o.partial_allowed]
<1>1. taker \in OrderEntry
  <2>1. /\ o.min_out \in Nat \ {0} /\ o.output_owner_tag \in Tag
        /\ o.cancel_owner_tag \in CancelTag /\ o.expiry \in Nat
        /\ o.partial_allowed \in BOOLEAN
    BY InputAssumption DEF Terms
  <2>2. notes[i].owner_tag \in Tag /\ notes[i].amount \in Nat \ {0}
    BY NoteFields DEF TypeInv
  <2> QED BY <2>1, <2>2 DEF OrderEntry
<1>2. tx' = [op |-> "submit", spends |-> i, book_id |-> b, taker |-> taker,
             filled_out |-> 0, fills |-> 0, i |-> 1,
             makers |-> book[OtherSide(b)],
             minted |-> <<>>, events |-> <<>>, seq |-> bookSeq]
  BY DEF SubmitOrder
<1>3. taker.order_id = notes[i].owner_tag
  OBVIOUS
<1> HIDE DEF taker
<1>4. i \in Nat /\ book[OtherSide(b)] \in Seq(OrderEntry) /\ bookSeq \in Nat
  BY SideTypes, LenProperties DEF TypeInv
<1>5. tx' \in SubmitTx
  BY <1>1, <1>2, <1>4, EmptySeq DEF SubmitTx
<1>6. TypeInv'
  BY <1>5 DEF NotesKept, TypeInv, SubmitOrder, poolVars, bookVars, baseVars
<1>7. TxInv'
  <2>1. /\ notes' = notes /\ nullifiers' = nullifiers /\ book' = book
        /\ Spendable(i)
    BY DEF SubmitOrder, poolVars, bookVars
  <2>2. /\ tx'.op = "submit" /\ tx'.spends = i /\ tx'.taker = taker /\ tx'.book_id = b
        /\ tx'.makers = book[OtherSide(b)]
    BY <1>2
  <2>3. Len(book[OtherSide(b)]) \in Nat
    BY <1>4, LenProperties
  <2> QED BY <1>3, <2>1, <2>2, <2>3 DEF TxInv, Spendable, WorkedSide
<1> QED
  BY <1>6, <1>7, KeptIfSame DEF SubmitOrder, poolVars

\* cancel_order keeps storage well formed.
LEMMA CancelOrderType ==
  ASSUME TypeInv, TxInv, NEW b \in BookId, NEW t \in Tag, NEW k \in DOMAIN book[b],
         CancelOrder(b, k, t)
  PROVE  TypeInv' /\ TxInv' /\ NotesKept
<1> DEFINE e == book[b][k]
           minted == Refund(b, e, t)
<1>1. book[b] \in Seq(OrderEntry) /\ k \in 1..Len(book[b]) /\ e \in OrderEntry
  BY LenProperties DEF TypeInv
<1>2. minted \in Seq(Note)
  BY <1>1, RefundType
<1>3. /\ Insert(minted) /\ book' = [book EXCEPT ![b] = RemoveAt(@, k)]
      /\ bookSeq' = bookSeq + 1
      /\ emitted' = Append(NoteEvents(minted),
                           RemoveEvent(bookSeq + 1, b, e.order_id, REMOVE_CANCELLED))
      /\ tx = Idle /\ tx' = Idle
  BY DEF CancelOrder
<1> HIDE DEF e, minted
<1>4. /\ notes' \in Seq(Note) /\ Len(notes') <= TREE_CAPACITY
      /\ NotesKept
  BY <1>2, <1>3, InsertType DEF TypeInv
<1>5. /\ book' \in [BookId -> Seq(OrderEntry)]
      /\ \A c \in BookId : Len(book'[c]) <= BOOK_CAPACITY
  <2>1. RemoveAt(book[b], k) \in Seq(OrderEntry) /\ Len(RemoveAt(book[b], k)) = Len(book[b]) - 1
    BY <1>1, RemoveAtProperties
  <2>2. Len(book[b]) \in Nat
    BY <1>1, LenProperties
  <2> QED BY <1>3, <2>1, <2>2, BoundAssumption DEF TypeInv
<1>6. bookSeq' \in Nat /\ emitted' \in Seq(Event)
  <2>1. bookSeq + 1 \in Nat
    BY DEF TypeInv
  <2>2. RemoveEvent(bookSeq + 1, b, e.order_id, REMOVE_CANCELLED) \in Event
    BY <1>1, <2>1, BookEventTypes DEF e
  <2>3. NoteEvents(minted) \in Seq(Event)
    BY <1>2, NoteEventsType
  <2> QED BY <1>3, <2>1, <2>2, <2>3
<1>7. TypeInv'
  BY <1>3, <1>4, <1>5, <1>6 DEF NotesKept, TypeInv, CancelOrder, baseVars
<1> QED
  BY <1>3, <1>4, <1>7 DEF TxInv

\* The beginning of prune_expired sets well-formed local variables.
LEMMA PruneExpiredType ==
  ASSUME TypeInv, TxInv, NEW b \in BookId, NEW m \in PruneMax, PruneExpired(b, m)
  PROVE  TypeInv' /\ TxInv' /\ NotesKept
<1>1. tx' = [op |-> "prune", book_id |-> b, max |-> m, removed |-> 0, i |-> 1,
             makers |-> book[b], minted |-> <<>>, events |-> <<>>, seq |-> bookSeq]
  BY DEF PruneExpired
<1>2. m \in Nat /\ book[b] \in Seq(OrderEntry) /\ bookSeq \in Nat /\ Len(book[b]) \in Nat
  BY InputAssumption, LenProperties DEF TypeInv
<1>3. tx' \in PruneTx
  BY <1>1, <1>2, EmptySeq DEF PruneTx
<1>4. TypeInv'
  BY <1>3 DEF NotesKept, TypeInv, PruneExpired, poolVars, bookVars, baseVars
<1>5. TxInv'
  BY <1>1, <1>2 DEF TxInv, WorkedSide, PruneExpired, poolVars, bookVars
<1> QED
  BY <1>4, <1>5, KeptIfSame DEF PruneExpired, poolVars

\* Skipping an order in either loop.
LEMMA SkipType ==
  ASSUME TypeInv, TxInv, SkipMaker \/ PruneSkips
  PROVE  TypeInv' /\ TxInv' /\ NotesKept
<1>1. /\ tx' = [tx EXCEPT !.i = @ + 1] /\ tx.op \in {"submit", "prune"}
      /\ UNCHANGED <<poolVars, custody, bridged, bookVars, baseVars, clock, emitted>>
  BY DEF SkipMaker, PruneSkips, InLoop, Pruning
<1>2. CASE tx.op = "submit"
  <2>1. tx \in SubmitTx /\ tx # Idle
    BY <1>2, SubmitFields
  <2>2. tx' \in SubmitTx
    <3>1. tx.i + 1 \in Nat \ {0}
      BY <1>2, SubmitFields
    <3> QED BY <1>1, <2>1, <3>1, SubmitAdvance
  <2>4. /\ tx'.op = tx.op /\ tx'.spends = tx.spends /\ tx'.taker = tx.taker
        /\ tx'.book_id = tx.book_id /\ tx'.makers = tx.makers
    BY <1>1, <2>1 DEF SubmitTx
  <2>3. TypeInv'
    BY <1>1, <2>2 DEF NotesKept, TypeInv, poolVars, bookVars, baseVars
  <2> QED
    BY <1>1, <1>2, <2>1, <2>4, <2>3, KeptIfSame DEF TxInv, Spendable, WorkedSide, poolVars, bookVars
<1>3. CASE tx.op = "prune"
  <2>1. tx \in PruneTx /\ tx # Idle
    BY <1>3, PruneFields
  <2>2. tx' \in PruneTx /\ tx'.op = tx.op
        /\ tx'.book_id = tx.book_id /\ tx'.makers = tx.makers
    BY <1>1, <2>1 DEF PruneTx
  <2>3. TypeInv'
    BY <1>1, <2>2 DEF NotesKept, TypeInv, poolVars, bookVars, baseVars
  <2> QED
    BY <1>1, <1>3, <2>1, <2>2, <2>3, KeptIfSame DEF TxInv, WorkedSide, poolVars, bookVars
<1> QED
  BY <1>1, <1>2, <1>3

\* The fill that the loop is about to make: the maker at the index, what it
\* gives and is paid, the two orders after it, the notes it mints and its event.
Maker       == tx.makers[tx.i]
Gives       == FillLots(Maker, tx.taker.remaining_in) * Lot(Maker)
Pays        == FillLots(Maker, tx.taker.remaining_in) * LotPrice(Maker)
MakerAfter  == [Maker EXCEPT !.remaining_in = @ - Gives]
TakerAfter  == [tx.taker EXCEPT !.remaining_in = @ - Pays]
MakersAfter == IF MakerAfter.remaining_in = 0 THEN RemoveAt(tx.makers, tx.i)
               ELSE [tx.makers EXCEPT ![tx.i] = MakerAfter]
FillMints   ==
  MintNote(WantAsset(tx.book_id), Gives, tx.taker.output_owner_tag)
    \o MintNote(GiveAsset(tx.book_id), Pays, Maker.output_owner_tag)
FillEvent   ==
  IF MakerAfter.remaining_in = 0
  THEN RemoveEvent(tx.seq + 1, OtherSide(tx.book_id), Maker.order_id, REMOVE_FILLED)
  ELSE UpsertEvent(tx.seq + 1, OtherSide(tx.book_id), MakerAfter)

\* A fill never takes more than the maker and the taker have left.
LEMMA FillFields ==
  ASSUME TypeInv, FillMaker
  PROVE  /\ tx.op = "submit" /\ LoopGuard(tx)
         /\ tx.i \in 1..Len(tx.makers) /\ Len(tx.makers) \in Nat /\ Maker \in OrderEntry
         /\ Gives \in 0..Maker.remaining_in /\ Pays \in 0..tx.taker.remaining_in
         /\ MakerAfter \in OrderEntry
         /\ MakerAfter.order_id = Maker.order_id
         /\ MakerAfter.remaining_in = Maker.remaining_in - Gives
         /\ TakerAfter \in OrderEntry
         /\ TakerAfter.order_id = tx.taker.order_id
         /\ TakerAfter.remaining_in = tx.taker.remaining_in - Pays
         /\ FillMints \in Seq(Note)
         /\ MakersAfter \in Seq(OrderEntry) /\ Len(MakersAfter) <= Len(tx.makers)
         /\ FillEvent \in Event
<1>1. tx.op = "submit" /\ LoopGuard(tx)
  BY DEF FillMaker, InLoop
<1>2. /\ tx.book_id \in BookId /\ tx.taker \in OrderEntry
      /\ tx.makers \in Seq(OrderEntry) /\ tx.i \in Nat \ {0} /\ tx.seq \in Nat
  BY <1>1, SubmitFields
<1>3. tx.i \in 1..Len(tx.makers) /\ Len(tx.makers) \in Nat /\ Maker \in OrderEntry
  BY <1>1, <1>2, LenProperties, ElementOfSeq DEF LoopGuard, Maker
<1>4. Gives \in 0..Maker.remaining_in /\ Pays \in 0..tx.taker.remaining_in
  BY <1>2, <1>3, OrderFields, FillProperties DEF Gives, Pays
<1>5. /\ MakerAfter \in OrderEntry /\ MakerAfter.order_id = Maker.order_id
      /\ MakerAfter.remaining_in = Maker.remaining_in - Gives
      /\ TakerAfter \in OrderEntry /\ TakerAfter.order_id = tx.taker.order_id
      /\ TakerAfter.remaining_in = tx.taker.remaining_in - Pays
  <2>1. Maker.remaining_in - Gives \in Nat /\ tx.taker.remaining_in - Pays \in Nat
    <3>1. Maker.remaining_in \in Nat /\ tx.taker.remaining_in \in Nat
      BY <1>2, <1>3, OrderFields
    <3> QED BY <1>4, <3>1
  <2>2. /\ MakerAfter = [Maker EXCEPT !.remaining_in = Maker.remaining_in - Gives]
        /\ TakerAfter = [tx.taker EXCEPT !.remaining_in = tx.taker.remaining_in - Pays]
    BY DEF MakerAfter, TakerAfter
  <2> QED BY <1>2, <1>3, <2>1, <2>2, SetRemaining
<1>6. FillMints \in Seq(Note)
  <2>1. Gives \in Nat /\ Pays \in Nat
    BY <1>2, <1>3, <1>4, OrderFields
  <2>2. tx.taker.output_owner_tag \in Tag /\ Maker.output_owner_tag \in Tag
    BY <1>2, <1>3, OrderFields
  <2>3. WantAsset(tx.book_id) \in Asset /\ GiveAsset(tx.book_id) \in Asset
    BY <1>2, SideTypes
  <2>4. /\ MintNote(WantAsset(tx.book_id), Gives, tx.taker.output_owner_tag) \in Seq(Note)
        /\ MintNote(GiveAsset(tx.book_id), Pays, Maker.output_owner_tag) \in Seq(Note)
    BY <2>1, <2>2, <2>3, MintNoteType
  <2> QED BY <2>4, ConcatProperties DEF FillMints
<1>7. MakersAfter \in Seq(OrderEntry) /\ Len(MakersAfter) <= Len(tx.makers)
  <2>1. RemoveAt(tx.makers, tx.i) \in Seq(OrderEntry)
        /\ Len(RemoveAt(tx.makers, tx.i)) = Len(tx.makers) - 1
    BY <1>2, <1>3, RemoveAtProperties
  <2>2. [tx.makers EXCEPT ![tx.i] = MakerAfter] \in Seq(OrderEntry)
        /\ Len([tx.makers EXCEPT ![tx.i] = MakerAfter]) = Len(tx.makers)
    BY <1>2, <1>3, <1>5, ExceptSeq
  <2> QED BY <1>3, <2>1, <2>2 DEF MakersAfter
<1>8. FillEvent \in Event
  <2>1. tx.seq + 1 \in Nat /\ OtherSide(tx.book_id) \in BookId
    BY <1>2, SideTypes
  <2> QED BY <1>3, <1>5, <2>1, BookEventTypes DEF FillEvent
<1> QED
  BY <1>1, <1>3, <1>4, <1>5, <1>6, <1>7, <1>8

\* What a fill does to the local variables.
LEMMA FillEffect ==
  ASSUME TypeInv, FillMaker
  PROVE  /\ tx' \in SubmitTx /\ tx'.op = "submit" /\ tx'.spends = tx.spends
         /\ tx'.book_id = tx.book_id /\ tx'.i = tx.i
         /\ tx'.taker = TakerAfter /\ tx'.makers = MakersAfter
         /\ tx'.filled_out = tx.filled_out + Gives /\ tx'.fills = tx.fills + 1
         /\ tx'.minted = tx.minted \o FillMints /\ tx'.seq = tx.seq + 1
         /\ tx'.events = tx.events \o NoteEvents(FillMints) \o <<FillEvent>>
         /\ UNCHANGED <<poolVars, custody, bridged, bookVars, baseVars, clock, emitted>>
<1>1. /\ tx \in SubmitTx /\ tx.op = "submit" /\ tx.taker \in OrderEntry
      /\ tx.minted \in Seq(Note) /\ tx.events \in Seq(Event) /\ tx.seq \in Nat
      /\ tx.filled_out \in Nat /\ tx.fills \in Nat
  BY FillFields, SubmitFields
<1> DEFINE events == tx.events \o NoteEvents(FillMints) \o <<FillEvent>>
<1>2. tx' = [tx EXCEPT !.taker = TakerAfter, !.filled_out = @ + Gives, !.fills = @ + 1,
                       !.makers = MakersAfter, !.minted = @ \o FillMints, !.seq = @ + 1,
                       !.events = events]
  BY <1>1 DEF FillMaker, SubmitTx, TakerAfter, Gives, Pays, Maker, MakersAfter, MakerAfter,
              FillMints, FillEvent
<1>3. events \in Seq(Event)
  <2>1. <<FillEvent>> \in Seq(Event) /\ NoteEvents(FillMints) \in Seq(Event)
    BY FillFields, NoteEventsType
  <2> QED BY <1>1, <2>1, ConcatProperties
<1> HIDE DEF events
<1>4. /\ tx.minted \o FillMints \in Seq(Note) /\ tx.filled_out + Gives \in Nat
      /\ tx.fills + 1 \in Nat /\ tx.seq + 1 \in Nat
  <2>1. Gives \in Nat
    BY FillFields, OrderFields
  <2> QED
    BY <1>1, <2>1, FillFields, ConcatProperties
<1>5. /\ TakerAfter \in OrderEntry /\ MakersAfter \in Seq(OrderEntry)
  BY FillFields
<1>6. tx' \in SubmitTx
  BY <1>1, <1>2, <1>3, <1>4, <1>5, SubmitUpdate
<1>7. /\ tx'.op = "submit" /\ tx'.spends = tx.spends
      /\ tx'.book_id = tx.book_id /\ tx'.i = tx.i
      /\ tx'.taker = TakerAfter /\ tx'.makers = MakersAfter
      /\ tx'.filled_out = tx.filled_out + Gives /\ tx'.fills = tx.fills + 1
      /\ tx'.minted = tx.minted \o FillMints /\ tx'.seq = tx.seq + 1
      /\ tx'.events = events
  BY <1>1, <1>2 DEF SubmitTx
<1>8. UNCHANGED <<poolVars, custody, bridged, bookVars, baseVars, clock, emitted>>
  BY DEF FillMaker
<1> QED
  BY <1>6, <1>7, <1>8 DEF events

\* A fill keeps the local variables well formed: the maker and the taker never
\* give more than they have left.
LEMMA FillMakerType ==
  ASSUME TypeInv, TxInv, FillMaker
  PROVE  TypeInv' /\ TxInv' /\ NotesKept
<1>1. UNCHANGED <<poolVars, custody, bridged, bookVars, baseVars, clock, emitted>>
  BY FillEffect
<1>2. TypeInv'
  BY <1>1, FillEffect DEF NotesKept, TypeInv, poolVars, bookVars, baseVars
<1>3. TxInv'
  <2>1. tx.book_id \in BookId /\ tx.makers \in Seq(OrderEntry) /\ tx # Idle
        /\ tx.op = "submit"
    BY FillFields, SubmitFields
  <2>2. /\ Spendable(tx.spends) /\ tx.taker.order_id = notes[tx.spends].owner_tag
        /\ Len(tx.makers) <= Len(book[OtherSide(tx.book_id)])
    BY <2>1 DEF TxInv, WorkedSide
  <2>3. Len(MakersAfter) \in Nat /\ Len(book[OtherSide(tx.book_id)]) \in Nat
    BY <2>1, FillFields, SideTypes, LenProperties DEF TypeInv
  <2>4. Len(MakersAfter) <= Len(book[OtherSide(tx.book_id)])
    BY <2>2, <2>3, FillFields
  <2> QED
    BY <1>1, <2>2, <2>4, FillFields, FillEffect DEF TxInv, WorkedSide, Spendable, poolVars, bookVars
<1> QED
  BY <1>1, <1>2, <1>3, KeptIfSame DEF poolVars

\* The end of a successful submit_order keeps storage well formed: neither
\* side of the book exceeds its capacity.
LEMMA CommitType ==
  ASSUME TypeInv, TxInv, tx.op = "submit",
         NEW minted \in Seq(Note), NEW own \in Seq(OrderEntry), Len(own) <= BOOK_CAPACITY,
         NEW events \in Seq(Event), NEW seq \in Nat,
         Commit(minted, own, events, seq)
  PROVE  TypeInv' /\ TxInv' /\ NotesKept
<1> DEFINE opp == OtherSide(tx.book_id)
<1>1. /\ tx # Idle /\ tx.book_id \in BookId /\ tx.makers \in Seq(OrderEntry)
      /\ opp \in BookId /\ opp # tx.book_id
  BY SubmitFields, SideTypes
<1>2. tx.spends \in DOMAIN notes /\ Len(tx.makers) <= Len(book[opp])
  BY <1>1 DEF TxInv, Spendable, WorkedSide
<1>3. /\ notes' \in Seq(Note) /\ Len(notes') <= TREE_CAPACITY
      /\ NotesKept
  BY InsertType DEF NotesKept, TypeInv, Commit
<1>4. nullifiers' \subseteq Tag /\ consumed' \subseteq DOMAIN notes'
  BY <1>2, <1>3, ConsumeType DEF Commit
<1>5. book' = [book EXCEPT ![opp] = tx.makers, ![tx.book_id] = own]
  BY DEF Commit
<1> HIDE DEF opp
<1>6. book' \in [BookId -> Seq(OrderEntry)]
  BY <1>1, <1>5 DEF TypeInv
<1>7. \A c \in BookId : Len(book'[c]) <= BOOK_CAPACITY
  <2>1. Len(tx.makers) \in Nat /\ Len(book[opp]) \in Nat /\ Len(book[opp]) <= BOOK_CAPACITY
    BY <1>1, LenProperties DEF TypeInv
  <2>2. \A c \in BookId : book'[c] = IF c = tx.book_id THEN own
                                    ELSE IF c = opp THEN tx.makers ELSE book[c]
    BY <1>1, <1>5 DEF TypeInv
  <2>3. Len(tx.makers) <= BOOK_CAPACITY
    BY <1>2, <2>1, BoundAssumption
  <2> QED BY <2>2, <2>3 DEF TypeInv
<1>8. tx' = Idle
  BY DEF Commit
<1>9. TypeInv'
  BY <1>3, <1>4, <1>6, <1>7, <1>8 DEF NotesKept, TypeInv, Commit, baseVars
<1> QED
  BY <1>3, <1>8, <1>9 DEF TxInv

\* Every way submit_order can end keeps storage well formed.
LEMMA SubmitEndsType ==
  ASSUME TypeInv, TxInv, SubmitFilled \/ SubmitRests \/ SubmitReturns \/ SubmitReverts
  PROVE  TypeInv' /\ TxInv' /\ NotesKept
<1>1. tx.op = "submit"
  BY DEF SubmitFilled, SubmitRests, SubmitReturns, SubmitReverts, LoopDone
<1>2. /\ tx.book_id \in BookId /\ tx.taker \in OrderEntry
      /\ tx.minted \in Seq(Note) /\ tx.events \in Seq(Event) /\ tx.seq \in Nat
  BY <1>1, SubmitFields
<1> DEFINE own == book[tx.book_id]
<1>3. own \in Seq(OrderEntry) /\ Len(own) \in Nat /\ Len(own) <= BOOK_CAPACITY
  BY <1>2, LenProperties DEF TypeInv
<1>4. CASE SubmitFilled
  BY <1>1, <1>2, <1>3, <1>4, CommitType DEF SubmitFilled
<1>5. CASE SubmitRests
  <2> DEFINE mine == BookInsertSorted(own, tx.taker, tx.book_id[2])
             events == Append(tx.events, UpsertEvent(tx.seq + 1, tx.book_id, tx.taker))
  <2>1. Commit(tx.minted, mine, events, tx.seq + 1) /\ Len(own) < BOOK_CAPACITY
    BY <1>5 DEF SubmitRests, Rests
  <2>2. mine \in Seq(OrderEntry) /\ Len(mine) = Len(own) + 1
    <3> DEFINE p == InsertPosition(own, tx.taker, tx.book_id[2])
    <3>1. p \in 1..(Len(own) + 1)
      BY <1>3, InsertPositionProperties
    <3>2. mine = InsertAt(own, p, tx.taker)
      BY DEF BookInsertSorted
    <3> HIDE DEF p, mine, own
    <3>3. InsertAt(own, p, tx.taker) \in Seq(OrderEntry)
          /\ Len(InsertAt(own, p, tx.taker)) = Len(own) + 1
      BY <1>2, <1>3, <3>1, InsertAtProperties
    <3> QED BY <3>2, <3>3
  <2>3. tx.seq + 1 \in Nat
    BY <1>2
  <2>4. events \in Seq(Event)
    BY <1>2, <2>3, BookEventTypes
  <2> HIDE DEF mine, own, events
  <2>5. Len(mine) <= BOOK_CAPACITY
    BY <1>3, <2>1, <2>2, BoundAssumption
  <2> QED BY <1>1, <1>2, <2>1, <2>2, <2>3, <2>4, <2>5, CommitType
<1>6. CASE SubmitReturns
  <2> DEFINE returned == Refund(tx.book_id, tx.taker, tx.taker.output_owner_tag)
  <2>1. Commit(tx.minted \o returned, own, tx.events \o NoteEvents(returned), tx.seq)
    BY <1>6 DEF SubmitReturns
  <2>2. returned \in Seq(Note)
    BY <1>2, OrderFields, RefundType
  <2> HIDE DEF returned, own
  <2>3. tx.minted \o returned \in Seq(Note)
    BY <1>2, <2>2, ConcatProperties
  <2>4. tx.events \o NoteEvents(returned) \in Seq(Event)
    BY <1>2, <2>2, NoteEventsType, ConcatProperties
  <2> QED BY <1>1, <1>2, <1>3, <2>1, <2>3, <2>4, CommitType
<1>7. CASE SubmitReverts
  BY <1>7, KeptIfSame DEF SubmitReverts, TypeInv, TxInv, poolVars, bookVars, baseVars
<1> QED
  BY <1>4, <1>5, <1>6, <1>7

\* Removing an expired order keeps the local variables well formed.
LEMMA PruneRemovesType ==
  ASSUME TypeInv, TxInv, PruneRemoves
  PROVE  TypeInv' /\ TxInv' /\ NotesKept
<1> DEFINE e      == tx.makers[tx.i]
           minted == Refund(tx.book_id, e, e.output_owner_tag)
           makers == RemoveAt(tx.makers, tx.i)
           ev     == RemoveEvent(tx.seq + 1, tx.book_id, e.order_id, REMOVE_EXPIRED)
           events == tx.events \o NoteEvents(minted) \o <<ev>>
<1>1. tx.op = "prune" /\ tx.i <= Len(tx.makers)
  BY DEF PruneRemoves, Pruning
<1>2. /\ tx \in PruneTx /\ tx # Idle /\ tx.book_id \in BookId
      /\ tx.makers \in Seq(OrderEntry) /\ tx.minted \in Seq(Note)
      /\ tx.events \in Seq(Event) /\ tx.seq \in Nat /\ tx.i \in Nat \ {0}
      /\ tx.removed \in Nat
  BY <1>1, PruneFields
<1>3. tx' = [tx EXCEPT !.makers = makers, !.removed = tx.removed + 1,
                       !.minted = tx.minted \o minted, !.seq = tx.seq + 1,
                       !.events = events]
  BY <1>2 DEF PruneRemoves, PruneTx
<1>4. tx.i \in 1..Len(tx.makers) /\ Len(tx.makers) \in Nat /\ e \in OrderEntry
  BY <1>1, <1>2, LenProperties, ElementOfSeq
<1>5. makers \in Seq(OrderEntry) /\ Len(makers) = Len(tx.makers) - 1
  BY <1>2, <1>4, RemoveAtProperties
<1>6. minted \in Seq(Note)
  BY <1>2, <1>4, OrderFields, RefundType
<1>7. ev \in Event /\ tx.seq + 1 \in Nat
  BY <1>2, <1>4, BookEventTypes
<1> HIDE DEF e, minted, makers, ev
<1>8. events \in Seq(Event) /\ tx.minted \o minted \in Seq(Note)
  <2>1. <<ev>> \in Seq(Event) /\ NoteEvents(minted) \in Seq(Event)
    BY <1>6, <1>7, NoteEventsType
  <2> QED BY <1>2, <1>6, <2>1, ConcatProperties
<1> HIDE DEF events
<1>9. tx' \in PruneTx
  <2>1. tx.removed + 1 \in Nat
    BY <1>2
  <2> QED BY <1>2, <1>3, <1>5, <1>7, <1>8, <2>1, PruneUpdate
<1>10. tx'.op = "prune" /\ tx'.book_id = tx.book_id /\ tx'.makers = makers
  BY <1>1, <1>2, <1>3 DEF PruneTx
<1>11. UNCHANGED <<poolVars, custody, bridged, bookVars, baseVars, clock, emitted>>
  BY DEF PruneRemoves
<1>12. TypeInv'
  BY <1>9, <1>11 DEF NotesKept, TypeInv, poolVars, bookVars, baseVars
<1>13. TxInv'
  <2>1. Len(tx.makers) <= Len(book[tx.book_id])
    BY <1>1, <1>2 DEF TxInv, WorkedSide
  <2>2. Len(book[tx.book_id]) \in Nat
    BY <1>2, LenProperties DEF TypeInv
  <2>3. Len(makers) <= Len(book[tx.book_id])
    BY <1>4, <1>5, <2>1, <2>2
  <2> QED
    BY <1>10, <1>11, <2>3 DEF TxInv, WorkedSide, poolVars, bookVars
<1> QED
  BY <1>11, <1>12, <1>13, KeptIfSame DEF poolVars

\* Every way prune_expired can end keeps storage well formed.
LEMMA PruneEndsType ==
  ASSUME TypeInv, TxInv, PruneReturns \/ PruneReverts
  PROVE  TypeInv' /\ TxInv' /\ NotesKept
<1>1. CASE PruneReturns
  <2>1. tx.op = "prune"
    BY <1>1 DEF PruneReturns
  <2>2. /\ tx # Idle /\ tx.book_id \in BookId /\ tx.makers \in Seq(OrderEntry)
        /\ tx.minted \in Seq(Note) /\ tx.events \in Seq(Event) /\ tx.seq \in Nat
    BY <2>1, PruneFields
  <2>3. /\ notes' \in Seq(Note) /\ Len(notes') <= TREE_CAPACITY
        /\ NotesKept
    BY <1>1, <2>2, InsertType DEF NotesKept, TypeInv, PruneReturns
  <2>4. book' = [book EXCEPT ![tx.book_id] = tx.makers]
    BY <1>1 DEF PruneReturns
  <2>5. Len(tx.makers) <= BOOK_CAPACITY
    <3>1. Len(tx.makers) <= Len(book[tx.book_id])
      BY <2>1, <2>2 DEF TxInv, WorkedSide
    <3>2. /\ Len(tx.makers) \in Nat /\ Len(book[tx.book_id]) \in Nat
          /\ Len(book[tx.book_id]) <= BOOK_CAPACITY
      BY <2>2, LenProperties DEF TypeInv
    <3> QED BY <3>1, <3>2, BoundAssumption
  <2>6. /\ book' \in [BookId -> Seq(OrderEntry)]
        /\ \A c \in BookId : Len(book'[c]) <= BOOK_CAPACITY
    BY <2>2, <2>4, <2>5 DEF TypeInv
  <2>7. TypeInv'
    BY <1>1, <2>2, <2>3, <2>6 DEF NotesKept, TypeInv, PruneReturns, baseVars
  <2> QED
    BY <1>1, <2>3, <2>7 DEF PruneReturns, TxInv
<1>2. CASE PruneReverts
  BY <1>2, KeptIfSame DEF PruneReverts, TypeInv, TxInv, poolVars, bookVars, baseVars
<1> QED
  BY <1>1, <1>2

\* The passing of time.
LEMMA TickType ==
  ASSUME TypeInv, TxInv, Tick
  PROVE  TypeInv' /\ TxInv' /\ NotesKept
<1>1. clock' \in Nat /\ tx = Idle /\ tx' = Idle
  BY DEF Tick, TypeInv
<1>2. UNCHANGED <<poolVars, custody, bridged, bookVars, baseVars, tx, emitted>>
  BY DEF Tick
<1>3. TypeInv'
  BY <1>1, <1>2 DEF NotesKept, TypeInv, poolVars, bookVars, baseVars
<1> QED
  BY <1>1, <1>2, <1>3, KeptIfSame DEF TxInv, poolVars

\* Nothing happens.
LEMMA StutterType ==
  ASSUME TypeInv, TxInv, UNCHANGED vars
  PROVE  TypeInv' /\ TxInv' /\ NotesKept
BY KeptIfSame DEF vars, TypeInv, TxInv, Spendable, WorkedSide

\* Every step keeps storage well formed and the tree append-only.
LEMMA NextType ==
  ASSUME TypeInv, TxInv, [Next]_vars
  PROVE  TypeInv' /\ TxInv' /\ NotesKept
<1>1. CASE Trade
  BY <1>1, SubmitOrderType, CancelOrderType, PruneExpiredType DEF Trade
<1>2. CASE TxStep
  BY <1>2, SkipType, FillMakerType, SubmitEndsType, PruneRemovesType, PruneEndsType
     DEF TxStep
<1> QED
  BY <1>1, <1>2, DepositType, SpendType, TickType, StutterType DEF Next

\* Every reachable state is well formed: for any registry, any tags and
\* amounts and any capacities, stored notes have positive amounts, no
\* remaining amount of an order is ever negative, the tree stays within
\* TREE_CAPACITY and each book side within BOOK_CAPACITY.
THEOREM TypeCorrect == Spec => []TypeInv
<1>1. TypeInv /\ TxInv /\ [Next]_vars => (TypeInv /\ TxInv)'
  BY NextType
<1> QED
  BY InitType, <1>1, PTL DEF Spec

\* Spending leaves whose nullifiers are unused and pairwise different keeps
\* each nullifier to one spent leaf.
LEMMA SpendOnce ==
  ASSUME TypeInv, SingleSpend, NotesKept,
         NEW spent \in SUBSET DOMAIN notes,
         \A i \in spent : Spendable(i) /\ notes[i].owner_tag \in nullifiers',
         \A i, j \in spent : notes[i].owner_tag = notes[j].owner_tag => i = j,
         consumed' = consumed \cup spent, nullifiers \subseteq nullifiers'
  PROVE  SingleSpend'
<1>1. consumed \subseteq DOMAIN notes
  BY DEF TypeInv
<1>2. \A i \in consumed' : notes'[i] = notes[i]
  BY <1>1 DEF NotesKept
<1>3. ASSUME NEW i \in consumed' PROVE notes'[i].owner_tag \in nullifiers'
  BY <1>2 DEF SingleSpend
<1>4. ASSUME NEW i \in consumed', NEW j \in consumed',
             notes'[i].owner_tag = notes'[j].owner_tag
      PROVE  i = j
  <2>1. notes[i].owner_tag = notes[j].owner_tag
    BY <1>2, <1>4
  <2>2. CASE i \in consumed /\ j \in consumed
    BY <2>1, <2>2 DEF SingleSpend
  <2>3. CASE i \in spent /\ j \in spent
    BY <2>1, <2>3
  <2>4. CASE i \in consumed /\ j \in spent
    BY <2>1, <2>4 DEF SingleSpend, Spendable
  <2>5. CASE i \in spent /\ j \in consumed
    BY <2>1, <2>5 DEF SingleSpend, Spendable
  <2> QED BY <2>2, <2>3, <2>4, <2>5
<1> QED
  BY <1>3, <1>4 DEF SingleSpend

\* Every step keeps each nullifier to one spent leaf.
LEMMA NextSpendsOnce ==
  ASSUME TypeInv, TxInv, NotesKept, SingleSpend, [Next]_vars
  PROVE  SingleSpend'
<1>1. ASSUME consumed' = consumed, nullifiers' = nullifiers PROVE SingleSpend'
  <2>1. consumed' = consumed \cup {} /\ nullifiers \subseteq nullifiers'
    BY <1>1
  <2>2. \A i \in {} : Spendable(i) /\ notes[i].owner_tag \in nullifiers'
    OBVIOUS
  <2>3. \A i, j \in {} : notes[i].owner_tag = notes[j].owner_tag => i = j
    OBVIOUS
  <2>4. {} \in SUBSET DOMAIN notes
    OBVIOUS
  <2> QED BY <2>1, <2>2, <2>3, <2>4, SpendOnce
<1>2. ASSUME NEW i \in DOMAIN notes, Spendable(i), consumed' = consumed \cup {i},
             nullifiers \cup {notes[i].owner_tag} \subseteq nullifiers'
      PROVE  SingleSpend'
  <2>1. \A k \in {i} : Spendable(k) /\ notes[k].owner_tag \in nullifiers'
    BY <1>2
  <2>2. \A k, l \in {i} : notes[k].owner_tag = notes[l].owner_tag => k = l
    OBVIOUS
  <2>3. {i} \in SUBSET DOMAIN notes /\ nullifiers \subseteq nullifiers'
    BY <1>2
  <2> QED BY <1>2, <2>1, <2>2, <2>3, SpendOnce
<1>3. ASSUME NEW i \in DOMAIN notes, NEW j \in DOMAIN notes, Spendable(i), Spendable(j),
             notes[i].owner_tag # notes[j].owner_tag, Consume({i, j})
      PROVE  SingleSpend'
  <2>1. \A k \in {i, j} : Spendable(k) /\ notes[k].owner_tag \in nullifiers'
    BY <1>3 DEF Consume
  <2>2. \A k, l \in {i, j} : notes[k].owner_tag = notes[l].owner_tag => k = l
    BY <1>3
  <2>3. /\ {i, j} \in SUBSET DOMAIN notes /\ nullifiers \subseteq nullifiers'
        /\ consumed' = consumed \cup {i, j}
    BY <1>3 DEF Consume
  <2> QED BY <2>1, <2>2, <2>3, SpendOnce
<1>4. CASE Deposit
  BY <1>1, <1>4 DEF Deposit, Shield, ConfigureBaseBridge, AttestBaseBlock, ShieldFromBase,
                    poolVars
<1>5. CASE Spend
  <2>1. ASSUME NEW i \in DOMAIN notes, Unshield(i) PROVE SingleSpend'
    BY <1>2, <2>1 DEF Unshield, Consume
  <2>2. ASSUME NEW i \in DOMAIN notes, NEW j \in DOMAIN notes, NEW s, NEW t, Swap(i, j, s, t)
        PROVE  SingleSpend'
    BY <1>3, <2>2 DEF Swap
  <2>3. ASSUME NEW i \in DOMAIN notes, NEW j \in DOMAIN notes, NEW n, NEW s, NEW t,
               Join(i, j, n, s, t)
        PROVE  SingleSpend'
    BY <1>3, <2>3 DEF Join
  <2>4. ASSUME NEW i \in DOMAIN notes, NEW p, NEW n, NEW s, NEW t, JoinPadded(i, p, n, s, t)
        PROVE  SingleSpend'
    BY <1>2, <2>4 DEF JoinPadded
  <2> QED BY <1>5, <2>1, <2>2, <2>3, <2>4 DEF Spend, Settle, SettleExact
<1>6. CASE Trade
  BY <1>1, <1>6 DEF Trade, SubmitOrder, CancelOrder, PruneExpired, poolVars
<1>7. ASSUME NEW minted, NEW own, NEW events, NEW seq, tx.op = "submit",
             Commit(minted, own, events, seq)
      PROVE  SingleSpend'
  <2>1. Spendable(tx.spends)
    BY <1>7, SubmitFields DEF TxInv
  <2>2. tx.spends \in DOMAIN notes
    BY <2>1 DEF Spendable
  <2> QED BY <1>2, <1>7, <2>1, <2>2 DEF Commit, Consume
<1>8. CASE TxStep
  <2>1. CASE SubmitFilled \/ SubmitRests \/ SubmitReturns
    BY <1>7, <2>1 DEF SubmitFilled, SubmitRests, SubmitReturns, LoopDone
  <2>2. CASE SkipMaker \/ FillMaker \/ SubmitReverts
    BY <1>1, <2>2 DEF SkipMaker, FillMaker, SubmitReverts, poolVars
  <2>3. CASE PruneSkips \/ PruneRemoves \/ PruneReturns \/ PruneReverts
    BY <1>1, <2>3 DEF PruneSkips, PruneRemoves, PruneReturns, PruneReverts, poolVars
  <2> QED BY <1>8, <2>1, <2>2, <2>3 DEF TxStep
<1>9. CASE Tick \/ UNCHANGED vars
  BY <1>1, <1>9 DEF Tick, vars, poolVars
<1> QED
  BY <1>4, <1>5, <1>6, <1>8, <1>9 DEF Next

\* No sequence of transactions releases the value of two leaves for one
\* nullifier, and no leaf is spent without its nullifier being recorded.
THEOREM NoDoubleSpend == Spec => []SingleSpend
<1>1. Init => SingleSpend
  BY DEF Init, SingleSpend
<1>2. TypeInv /\ TxInv /\ SingleSpend /\ [Next]_vars => (TypeInv /\ TxInv /\ SingleSpend)'
  BY NextType, NextSpendsOnce
<1> QED
  BY InitType, <1>1, <1>2, PTL DEF Spec

\* The working copy of the side that a running transaction rewrites is sorted.
MakersSorted == tx # Idle => SortedSide(tx.makers, WorkedSide[2])

\* An empty side is sorted.
LEMMA EmptySorted == \A side : SortedSide(<<>>, side)
BY DEF SortedSide

\* Every well-formed order has a positive price ratio.
LEMMA OrdersHavePrices ==
  \A o \in OrderEntry : o.amount_in \in Nat \ {0} /\ o.min_out \in Nat \ {0}
BY OrderFields

\* A fill leaves the working copy of the side sorted.
LEMMA FillKeepsSorted ==
  ASSUME TypeInv, BookSorted, MakersSorted, FillMaker
  PROVE  BookSorted' /\ MakersSorted'
<1> DEFINE maker  == tx.makers[tx.i]
           k      == FillLots(maker, tx.taker.remaining_in)
           give   == k * Lot(maker)
           filled == [maker EXCEPT !.remaining_in = @ - give]
           makers == IF filled.remaining_in = 0 THEN RemoveAt(tx.makers, tx.i)
                     ELSE [tx.makers EXCEPT ![tx.i] = filled]
           side   == OtherSide(tx.book_id)[2]
<1>1. tx.op = "submit" /\ LoopGuard(tx)
  BY DEF FillMaker, InLoop
<1>2. /\ tx \in SubmitTx /\ tx # Idle
      /\ tx.makers \in Seq(OrderEntry) /\ tx.i \in Nat \ {0}
  BY <1>1, SubmitFields
<1>3. tx.i \in 1..Len(tx.makers) /\ maker \in OrderEntry
  BY <1>1, <1>2, LenProperties, ElementOfSeq DEF LoopGuard
<1>4. tx'.makers = makers /\ tx'.op = "submit" /\ tx'.book_id = tx.book_id
  BY <1>1, <1>2 DEF FillMaker, SubmitTx
<1>5. SortedSide(tx.makers, side)
  BY <1>1, <1>2 DEF MakersSorted, WorkedSide
<1>6. filled.amount_in = maker.amount_in /\ filled.min_out = maker.min_out
  <2> HIDE DEF give, k, maker
  <2> QED BY <1>3 DEF OrderEntry
<1> HIDE DEF filled
<1>7. SortedSide(RemoveAt(tx.makers, tx.i), side)
  BY <1>2, <1>3, <1>5, RemoveKeepsSorted
<1>8. SortedSide([tx.makers EXCEPT ![tx.i] = filled], side)
  BY <1>2, <1>3, <1>5, <1>6, UpdateKeepsSorted
<1>9. SortedSide(makers, side)
  BY <1>7, <1>8
<1> HIDE DEF makers
<1>10. MakersSorted'
  BY <1>4, <1>9 DEF MakersSorted, WorkedSide
<1>11. book' = book
  BY DEF FillMaker, bookVars
<1> QED
  BY <1>10, <1>11 DEF BookSorted

\* The end of a successful submit_order stores sorted sides.
LEMMA CommitKeepsSorted ==
  ASSUME TypeInv, BookSorted, MakersSorted, tx.op = "submit",
         NEW minted, NEW own, NEW events, NEW seq, Commit(minted, own, events, seq),
         SortedSide(own, tx.book_id[2])
  PROVE  BookSorted' /\ MakersSorted'
<1> DEFINE opp == OtherSide(tx.book_id)
<1>1. /\ tx # Idle /\ tx.book_id \in BookId
      /\ opp \in BookId /\ opp # tx.book_id
  BY SubmitFields, SideTypes
<1>2. SortedSide(tx.makers, opp[2])
  BY <1>1 DEF MakersSorted, WorkedSide
<1>3. book' = [book EXCEPT ![opp] = tx.makers, ![tx.book_id] = own] /\ tx' = Idle
  BY DEF Commit
<1> HIDE DEF opp
<1>4. \A c \in BookId : book'[c] = IF c = tx.book_id THEN own
                                  ELSE IF c = opp THEN tx.makers ELSE book[c]
  BY <1>1, <1>3 DEF TypeInv
<1> QED
  BY <1>2, <1>3, <1>4 DEF BookSorted, MakersSorted

\* Every step keeps the books, and the working copy, sorted.
LEMMA NextKeepsSorted ==
  ASSUME TypeInv, BookSorted, MakersSorted, [Next]_vars
  PROVE  BookSorted' /\ MakersSorted'
<1>1. ASSUME book' = book, tx' = tx PROVE BookSorted' /\ MakersSorted'
  BY <1>1 DEF BookSorted, MakersSorted, WorkedSide
<1>2. ASSUME book' = book, tx' = Idle PROVE BookSorted' /\ MakersSorted'
  BY <1>2 DEF BookSorted, MakersSorted
<1>3. CASE Deposit
  BY <1>1, <1>3 DEF Deposit, Shield, ConfigureBaseBridge, AttestBaseBlock, ShieldFromBase,
                    bookVars
<1>4. CASE Spend
  <2>1. ASSUME NEW i, Unshield(i) PROVE book' = book /\ tx' = tx
    BY <2>1 DEF Unshield, bookVars
  <2>2. ASSUME NEW i, NEW j, NEW s, NEW t, Swap(i, j, s, t) PROVE book' = book /\ tx' = tx
    BY <2>2 DEF Swap, bookVars
  <2>3. ASSUME NEW i, NEW j, NEW n, NEW s, NEW t, Join(i, j, n, s, t)
        PROVE  book' = book /\ tx' = tx
    BY <2>3 DEF Join, JoinInto, bookVars
  <2>4. ASSUME NEW i, NEW p, NEW n, NEW s, NEW t, JoinPadded(i, p, n, s, t)
        PROVE  book' = book /\ tx' = tx
    BY <2>4 DEF JoinPadded, JoinInto, bookVars
  <2> QED BY <1>1, <1>4, <2>1, <2>2, <2>3, <2>4 DEF Spend, Settle, SettleExact
<1>5. CASE Trade
  <2>1. ASSUME NEW i \in DOMAIN notes, NEW b \in BookId, NEW o \in Terms, SubmitOrder(i, b, o)
        PROVE  BookSorted' /\ MakersSorted'
    <3>1. /\ tx'.op = "submit" /\ tx'.book_id = b /\ tx'.makers = book[OtherSide(b)]
          /\ book' = book
      BY <2>1 DEF SubmitOrder, bookVars
    <3>2. SortedSide(book[OtherSide(b)], OtherSide(b)[2])
      BY SideTypes DEF BookSorted
    <3> QED BY <3>1, <3>2 DEF BookSorted, MakersSorted, WorkedSide
  <2>2. ASSUME NEW b \in BookId, NEW t \in Tag, NEW k \in DOMAIN book[b], CancelOrder(b, k, t)
        PROVE  BookSorted' /\ MakersSorted'
    <3>1. book' = [book EXCEPT ![b] = RemoveAt(@, k)] /\ tx' = Idle
      BY <2>2 DEF CancelOrder
    <3>2. book[b] \in Seq(OrderEntry) /\ k \in 1..Len(book[b]) /\ SortedSide(book[b], b[2])
      BY LenProperties DEF TypeInv, BookSorted
    <3>3. SortedSide(RemoveAt(book[b], k), b[2])
      BY <3>2, RemoveKeepsSorted
    <3>4. \A c \in BookId : book'[c] = IF c = b THEN RemoveAt(book[b], k) ELSE book[c]
      BY <3>1 DEF TypeInv
    <3> QED BY <3>1, <3>3, <3>4 DEF BookSorted, MakersSorted
  <2>3. ASSUME NEW b \in BookId, NEW m \in PruneMax, PruneExpired(b, m)
        PROVE  BookSorted' /\ MakersSorted'
    <3>1. tx'.op = "prune" /\ tx'.book_id = b /\ tx'.makers = book[b] /\ book' = book
      BY <2>3 DEF PruneExpired, bookVars
    <3> QED BY <3>1 DEF BookSorted, MakersSorted, WorkedSide
  <2> QED BY <1>5, <2>1, <2>2, <2>3 DEF Trade
<1>6. CASE TxStep
  <2>1. CASE SkipMaker \/ PruneSkips
    <3>1. /\ tx' = [tx EXCEPT !.i = @ + 1] /\ tx.op \in {"submit", "prune"} /\ book' = book
      BY <2>1 DEF SkipMaker, PruneSkips, InLoop, Pruning, bookVars
    <3>2. /\ tx'.op = tx.op /\ tx'.book_id = tx.book_id /\ tx'.makers = tx.makers /\ tx # Idle
      <4>1. CASE tx.op = "submit"
        <5>1. tx \in SubmitTx /\ tx # Idle
          BY <4>1, SubmitFields
        <5> QED BY <3>1, <5>1 DEF SubmitTx
      <4>2. CASE tx.op = "prune"
        <5>1. tx \in PruneTx /\ tx # Idle
          BY <4>2, PruneFields
        <5> QED BY <3>1, <5>1 DEF PruneTx
      <4> QED BY <3>1, <4>1, <4>2
    <3> QED BY <3>1, <3>2 DEF BookSorted, MakersSorted, WorkedSide
  <2>2. CASE FillMaker
    BY <2>2, FillKeepsSorted
  <2>3. ASSUME tx.op = "submit"
        PROVE  tx.book_id \in BookId /\ SortedSide(book[tx.book_id], tx.book_id[2])
    BY <2>3, SubmitFields DEF BookSorted
  <2>4. CASE SubmitFilled
    BY <2>3, <2>4, CommitKeepsSorted DEF SubmitFilled, LoopDone
  <2>5. CASE SubmitReturns
    BY <2>3, <2>5, CommitKeepsSorted DEF SubmitReturns, LoopDone
  <2>6. CASE SubmitRests
    <3>1. tx.op = "submit"
      BY <2>6 DEF SubmitRests, LoopDone
    <3>2. tx.taker \in OrderEntry /\ tx.book_id \in BookId
      BY <3>1, SubmitFields
    <3>3. SortedSide(BookInsertSorted(book[tx.book_id], tx.taker, tx.book_id[2]), tx.book_id[2])
      <4>1. book[tx.book_id] \in Seq(OrderEntry)
        BY <3>2 DEF TypeInv
      <4> QED BY <2>3, <3>1, <3>2, <4>1, OrdersHavePrices, InsertKeepsSorted
    <3> QED BY <2>6, <3>1, <3>3, CommitKeepsSorted DEF SubmitRests
  <2>7. CASE SubmitReverts \/ PruneReverts
    BY <1>2, <2>7 DEF SubmitReverts, PruneReverts, bookVars
  <2>8. CASE PruneRemoves
    <3>1. tx.op = "prune" /\ tx.i <= Len(tx.makers)
      BY <2>8 DEF PruneRemoves, Pruning
    <3>2. tx \in PruneTx /\ tx # Idle /\ tx.makers \in Seq(OrderEntry) /\ tx.i \in Nat \ {0}
      BY <3>1, PruneFields
    <3>3. /\ tx'.op = "prune" /\ tx'.book_id = tx.book_id
          /\ tx'.makers = RemoveAt(tx.makers, tx.i) /\ book' = book
      BY <2>8, <3>1, <3>2 DEF PruneRemoves, PruneTx, bookVars
    <3>4. tx.i \in 1..Len(tx.makers)
      BY <3>1, <3>2, LenProperties
    <3>5. SortedSide(tx.makers, tx.book_id[2])
      BY <3>1, <3>2 DEF MakersSorted, WorkedSide
    <3>6. SortedSide(RemoveAt(tx.makers, tx.i), tx.book_id[2])
      BY <3>2, <3>4, <3>5, RemoveKeepsSorted
    <3> QED BY <3>3, <3>6 DEF BookSorted, MakersSorted, WorkedSide
  <2>9. CASE PruneReturns
    <3>1. tx.op = "prune" /\ book' = [book EXCEPT ![tx.book_id] = tx.makers] /\ tx' = Idle
      BY <2>9 DEF PruneReturns
    <3>2. tx # Idle /\ tx.book_id \in BookId
      BY <3>1, PruneFields
    <3>3. SortedSide(tx.makers, tx.book_id[2])
      BY <3>1, <3>2 DEF MakersSorted, WorkedSide
    <3>4. \A c \in BookId : book'[c] = IF c = tx.book_id THEN tx.makers ELSE book[c]
      BY <3>1, <3>2 DEF TypeInv
    <3> QED BY <3>1, <3>3, <3>4 DEF BookSorted, MakersSorted
  <2> QED BY <1>6, <2>1, <2>2, <2>4, <2>5, <2>6, <2>7, <2>8, <2>9 DEF TxStep
<1>7. CASE Tick \/ UNCHANGED vars
  BY <1>1, <1>7 DEF Tick, vars, bookVars
<1> QED
  BY <1>3, <1>4, <1>5, <1>6, <1>7 DEF Next

\* The books are sorted best price first in every reachable state, for any
\* orders and any capacities: the early exit of the matching loop never
\* misses a maker that crosses because of its place in the book.
THEOREM BookStaysSorted == Spec => []BookSorted
<1>1. Init => BookSorted /\ MakersSorted
  BY EmptySorted DEF Init, BookSorted, MakersSorted
<1>2. TypeInv /\ TxInv /\ BookSorted /\ MakersSorted /\ [Next]_vars
        => (TypeInv /\ TxInv /\ BookSorted /\ MakersSorted)'
  BY NextType, NextKeepsSorted
<1> QED
  BY InitType, <1>1, <1>2, PTL DEF Spec
-----------------------------------------------------------------------------
(***************************************************************************)
(* Conservation of value.  First the sums: what a sequence of orders locks *)
(* and what a sequence of notes is worth, and how the changes that the     *)
(* contract makes to them move those sums.                                 *)
(***************************************************************************)

\* Making room at position p renames the positions from p on.
LEMMA ShiftBijection ==
  ASSUME NEW n \in Nat, NEW p \in 1..(n + 1)
  PROVE  [k \in 1..n |-> IF k < p THEN k ELSE k + 1] \in Bijection(1..n, (1..(n + 1)) \ {p})
<1> DEFINE h == [k \in 1..n |-> IF k < p THEN k ELSE k + 1]
<1>1. h \in [1..n -> (1..(n + 1)) \ {p}]
  OBVIOUS
<1>2. \A k, l \in 1..n : h[k] = h[l] => k = l
  OBVIOUS
<1>3. ASSUME NEW m \in (1..(n + 1)) \ {p} PROVE \E k \in 1..n : h[k] = m
  <2>1. CASE m < p
    <3>1. m \in 1..n /\ h[m] = m
      BY <2>1
    <3> QED BY <3>1
  <2>2. CASE m > p
    <3>1. m - 1 \in 1..n /\ h[m - 1] = m
      BY <2>2
    <3> QED BY <3>1
  <2> QED BY <2>1, <2>2
<1> QED
  BY <1>1, <1>2, <1>3 DEF Bijection, Injection, Surjection, IsInjective

\* The numbers g[1] .. g[n + 1] are f[1] .. f[n] and one more at position p.
OneMore(f, g, n, p) ==
  /\ \A k \in 1..n : f[k] \in Nat
  /\ \A k \in 1..(n + 1) : g[k] \in Nat
  /\ \A k \in 1..n : f[k] = IF k < p THEN g[k] ELSE g[k + 1]

\* Their totals differ by that one.
LEMMA TotalShift ==
  ASSUME NEW n \in Nat, NEW p \in 1..(n + 1), NEW f, NEW g, OneMore(f, g, n, p)
  PROVE  Total(g, 1..(n + 1)) = Total(f, 1..n) + g[p]
<1> USE DEF OneMore
<1> DEFINE h == [k \in 1..n |-> IF k < p THEN k ELSE k + 1]
<1>1. IsFiniteSet(1..n) /\ IsFiniteSet(1..(n + 1))
  BY FS_Interval
<1>2. h \in Bijection(1..n, (1..(n + 1)) \ {p})
  BY ShiftBijection
<1>3. \A k \in 1..n : g[h[k]] = f[k]
  OBVIOUS
<1> HIDE DEF h
<1>4. Total(f, 1..n) = Total(g, (1..(n + 1)) \ {p})
  BY <1>1, <1>2, <1>3, TotalRenamed
<1>5. Total(g, 1..(n + 1)) = Total(g, (1..(n + 1)) \ {p}) + g[p]
  BY <1>1, TotalRemove
<1> QED
  BY <1>4, <1>5

\* The amounts f and g of the holders in S are the same but for x.
SameBut(f, g, S, x) ==
  /\ \A y \in S : f[y] \in Nat /\ g[y] \in Nat
  /\ \A y \in S \ {x} : g[y] = f[y]

\* One holder's amount changes.
LEMMA TotalUpdate ==
  ASSUME NEW S, IsFiniteSet(S), NEW x \in S, NEW f, NEW g, SameBut(f, g, S, x)
  PROVE  Total(g, S) = Total(f, S) - f[x] + g[x]
<1> USE DEF SameBut
<1>1. /\ Total(f, S) = Total(f, S \ {x}) + f[x]
      /\ Total(g, S) = Total(g, S \ {x}) + g[x]
  BY TotalRemove
<1>2. Total(f, S \ {x}) = Total(g, S \ {x})
  BY TotalSame
<1>3. Total(f, S \ {x}) \in Nat
  <2>1. IsFiniteSet(S \ {x})
    BY FS_RemoveElement
  <2> QED BY <2>1, TotalType
<1> QED
  BY <1>1, <1>2, <1>3

\* What a side locks.
LEMMA LockedType ==
  ASSUME NEW orders \in Seq(OrderEntry)
  PROVE  /\ Locked(orders) \in Nat
         /\ IsFiniteSet(DOMAIN orders)
         /\ \A k \in DOMAIN orders : orders[k].remaining_in \in Nat
<1>1. DOMAIN orders = 1..Len(orders) /\ Len(orders) \in Nat
  BY LenProperties
<1>2. \A k \in DOMAIN orders : orders[k].remaining_in \in Nat
  BY <1>1, ElementOfSeq, OrderFields
<1>3. IsFiniteSet(DOMAIN orders)
  BY <1>1, FS_Interval
<1> QED
  BY <1>2, <1>3, TotalType DEF Locked

\* An empty side locks nothing.
LEMMA LockedEmpty == Locked(<<>>) = 0
<1>1. DOMAIN <<>> = {}
  OBVIOUS
<1> QED
  BY <1>1, TotalEmpty DEF Locked

\* Removing an order releases what it locked.
LEMMA LockedRemove ==
  ASSUME NEW orders \in Seq(OrderEntry), NEW p \in 1..Len(orders)
  PROVE  Locked(orders) = Locked(RemoveAt(orders, p)) + orders[p].remaining_in
<1> DEFINE rest == RemoveAt(orders, p)
           n == Len(orders) - 1
           f == [k \in DOMAIN rest |-> rest[k].remaining_in]
           g == [k \in DOMAIN orders |-> orders[k].remaining_in]
<1>1. /\ rest \in Seq(OrderEntry) /\ Len(rest) = n
      /\ \A k \in 1..n : rest[k] = IF k < p THEN orders[k] ELSE orders[k + 1]
  BY RemoveAtProperties
<1>2. Len(orders) \in Nat /\ n \in Nat /\ p \in 1..(n + 1) /\ n + 1 = Len(orders)
  BY LenProperties
<1>3. DOMAIN orders = 1..(n + 1) /\ DOMAIN rest = 1..n
  BY <1>1, <1>2, LenProperties
<1>4. /\ \A k \in DOMAIN orders : orders[k].remaining_in \in Nat
      /\ \A k \in DOMAIN rest : rest[k].remaining_in \in Nat
  BY <1>1, LockedType
<1>5. /\ \A k \in 1..n : f[k] \in Nat
      /\ \A k \in 1..(n + 1) : g[k] \in Nat
      /\ \A k \in 1..n : f[k] = IF k < p THEN g[k] ELSE g[k + 1]
      /\ g[p] = orders[p].remaining_in
  <2> HIDE DEF n, rest
  <2>1. ASSUME NEW k \in 1..n
        PROVE f[k] = rest[k].remaining_in /\ k \in 1..(n + 1) /\ k + 1 \in 1..(n + 1)
    BY <1>2, <1>3
  <2> QED BY <1>1, <1>2, <1>3, <1>4, <2>1
<1> HIDE DEF f, g, n
<1>6. Total(g, 1..(n + 1)) = Total(f, 1..n) + g[p]
  <2>1. OneMore(f, g, n, p)
    BY <1>5 DEF OneMore
  <2> QED
    BY <1>2, <2>1, TotalShift
<1>7. Locked(orders) = Total(g, 1..(n + 1)) /\ Locked(rest) = Total(f, 1..n)
  <2> HIDE DEF rest
  <2> QED
    BY <1>3 DEF Locked, f, g
<1> QED
  BY <1>5, <1>6, <1>7

\* Inserting an order locks what it has.
LEMMA LockedInsert ==
  ASSUME NEW orders \in Seq(OrderEntry), NEW e \in OrderEntry,
         NEW p \in 1..(Len(orders) + 1)
  PROVE  Locked(InsertAt(orders, p, e)) = Locked(orders) + e.remaining_in
<1> DEFINE more == InsertAt(orders, p, e)
           n == Len(orders)
           f == [k \in DOMAIN orders |-> orders[k].remaining_in]
           g == [k \in DOMAIN more |-> more[k].remaining_in]
<1>1. /\ more \in Seq(OrderEntry) /\ Len(more) = n + 1
      /\ \A k \in 1..(n + 1) :
           more[k] = IF k < p THEN orders[k] ELSE IF k = p THEN e ELSE orders[k - 1]
  <2>1. more \in Seq(OrderEntry) /\ IsInsertion(more, orders, p, e)
    BY InsertAtInserts
  <2> HIDE DEF more
  <2> QED
    BY <2>1 DEF IsInsertion
<1>2. n \in Nat /\ DOMAIN orders = 1..n /\ DOMAIN more = 1..(n + 1)
  BY <1>1, LenProperties
<1>4. /\ \A k \in DOMAIN orders : orders[k].remaining_in \in Nat
      /\ \A k \in DOMAIN more : more[k].remaining_in \in Nat
  BY <1>1, LockedType
<1>5. /\ \A k \in 1..n : f[k] \in Nat
      /\ \A k \in 1..(n + 1) : g[k] \in Nat
      /\ \A k \in 1..n : f[k] = IF k < p THEN g[k] ELSE g[k + 1]
      /\ g[p] = e.remaining_in
  <2> HIDE DEF n, more
  <2>1. ASSUME NEW k \in 1..n
        PROVE /\ f[k] = orders[k].remaining_in
              /\ k < p => more[k] = orders[k]
              /\ ~(k < p) => more[k + 1] = orders[k]
              /\ k \in 1..(n + 1) /\ k + 1 \in 1..(n + 1)
    BY <1>1, <1>2
  <2>2. p \in 1..(n + 1) /\ more[p] = e
    BY <1>1, <1>2 DEF n
  <2> QED BY <1>1, <1>2, <1>4, <2>1, <2>2
<1> HIDE DEF f, g
<1>6. Total(g, 1..(n + 1)) = Total(f, 1..n) + g[p]
  <2>1. OneMore(f, g, n, p)
    BY <1>5 DEF OneMore
  <2> QED
    BY <1>2, <2>1, TotalShift
<1>7. Locked(more) = Total(g, 1..(n + 1)) /\ Locked(orders) = Total(f, 1..n)
  <2> HIDE DEF more
  <2> QED
    BY <1>2 DEF Locked, f, g
<1> QED
  BY <1>5, <1>6, <1>7

\* Changing one order changes what its side locks by as much.
LEMMA LockedUpdate ==
  ASSUME NEW orders \in Seq(OrderEntry), NEW e \in OrderEntry, NEW p \in 1..Len(orders)
  PROVE  Locked([orders EXCEPT ![p] = e]) =
           Locked(orders) - orders[p].remaining_in + e.remaining_in
<1> DEFINE new == [orders EXCEPT ![p] = e]
           f == [k \in DOMAIN orders |-> orders[k].remaining_in]
           g == [k \in DOMAIN new |-> new[k].remaining_in]
<1>1. DOMAIN new = DOMAIN orders /\ p \in DOMAIN orders
  BY LenProperties
<1>2. IsFiniteSet(DOMAIN orders) /\ \A k \in DOMAIN orders : f[k] \in Nat
  BY LockedType
<1>3. /\ \A k \in DOMAIN orders : g[k] \in Nat
      /\ \A k \in (DOMAIN orders) \ {p} : g[k] = f[k]
      /\ g[p] = e.remaining_in /\ f[p] = orders[p].remaining_in
  BY <1>1, <1>2, OrderFields
<1>4. Locked(new) = Total(g, DOMAIN orders) /\ Locked(orders) = Total(f, DOMAIN orders)
  BY <1>1 DEF Locked
<1> HIDE DEF f, g, new
<1>5. SameBut(f, g, DOMAIN orders, p)
  BY <1>2, <1>3 DEF SameBut
<1>6. Total(g, DOMAIN orders) = Total(f, DOMAIN orders) - f[p] + g[p]
  BY <1>1, <1>2, <1>5, TotalUpdate
<1> QED
  BY <1>3, <1>4, <1>6 DEF new

\* n units of the asset x, counted in the asset a.
Counted(a, x, n) == IF a = x THEN n ELSE 0

\* What those of the notes ns that are in S are worth in the asset a, and what
\* all of them are.
WorthOf(ns, S, a) == Total([k \in DOMAIN ns |-> ns[k].amount], {k \in S : ns[k].asset = a})
Worth(ns, a) == WorthOf(ns, DOMAIN ns, a)

\* The terms of WorthOf.
LEMMA WorthTerms ==
  ASSUME NEW ns \in Seq(Note), NEW S \in SUBSET DOMAIN ns, NEW a
  PROVE  /\ DOMAIN ns = 1..Len(ns) /\ Len(ns) \in Nat
         /\ IsFiniteSet({k \in S : ns[k].asset = a})
         /\ \A k \in DOMAIN ns : ns[k] \in Note /\ ns[k].amount \in Nat
         /\ WorthOf(ns, S, a) \in Nat
<1>1. DOMAIN ns = 1..Len(ns) /\ Len(ns) \in Nat
  BY LenProperties
<1>2. \A k \in DOMAIN ns : ns[k] \in Note /\ ns[k].amount \in Nat
  <2>1. \A k \in DOMAIN ns : ns[k] \in Note
    BY <1>1, ElementOfSeq
  <2>2. \A x \in Note : x.amount \in Nat
    BY DEF Note
  <2> QED
    BY <2>1, <2>2
<1>3. IsFiniteSet({k \in S : ns[k].asset = a})
  <2>1. {k \in S : ns[k].asset = a} \in SUBSET (1..Len(ns)) /\ IsFiniteSet(1..Len(ns))
    BY <1>1, FS_Interval
  <2> QED
    BY <2>1, FS_Subset
<1>4. WorthOf(ns, S, a) \in Nat
  BY <1>2, <1>3, TotalType DEF WorthOf
<1> QED
  BY <1>1, <1>2, <1>3, <1>4

\* A spent note is worth nothing any more.
LEMMA WorthSpend ==
  ASSUME NEW ns \in Seq(Note), NEW S \in SUBSET DOMAIN ns, NEW i \in S, NEW a
  PROVE  WorthOf(ns, S, a) = WorthOf(ns, S \ {i}, a) + Counted(a, ns[i].asset, ns[i].amount)
<1> DEFINE f == [k \in DOMAIN ns |-> ns[k].amount]
           mine == {k \in S : ns[k].asset = a}
           rest == {k \in S \ {i} : ns[k].asset = a}
<1>1. /\ IsFiniteSet(mine) /\ WorthOf(ns, S, a) \in Nat
      /\ \A k \in mine : f[k] \in Nat
      /\ f[i] = ns[i].amount
  BY WorthTerms
<1>2. WorthOf(ns, S, a) = Total(f, mine) /\ WorthOf(ns, S \ {i}, a) = Total(f, rest)
  BY DEF WorthOf
<1>3. CASE ns[i].asset = a
  <2>1. i \in mine /\ rest = mine \ {i}
    BY <1>3
  <2> HIDE DEF f, mine, rest
  <2>2. Total(f, mine) = Total(f, mine \ {i}) + f[i]
    BY <1>1, <2>1, TotalRemove
  <2> QED
    BY <1>1, <1>2, <1>3, <2>1, <2>2 DEF Counted
<1>4. CASE ns[i].asset # a
  <2>1. rest = mine
    BY <1>4
  <2> HIDE DEF f, mine, rest
  <2> QED
    BY <1>1, <1>2, <1>4, <2>1 DEF Counted
<1> QED
  BY <1>3, <1>4

\* Notes appended to others add what they are worth.
LEMMA WorthAppend ==
  ASSUME NEW ns \in Seq(Note), NEW ms \in Seq(Note), NEW S \in SUBSET DOMAIN ns, NEW a
  PROVE  WorthOf(ns \o ms, S \cup ((DOMAIN (ns \o ms)) \ DOMAIN ns), a)
           = WorthOf(ns, S, a) + Worth(ms, a)
<1> DEFINE all == ns \o ms
           n == Len(ns)
           f == [k \in DOMAIN all |-> all[k].amount]
           g == [k \in DOMAIN ns |-> ns[k].amount]
           h == [k \in DOMAIN ms |-> ms[k].amount]
           old == {k \in S : ns[k].asset = a}
           new == {k \in (DOMAIN all) \ DOMAIN ns : all[k].asset = a}
           mine == {k \in DOMAIN ms : ms[k].asset = a}
           r == [k \in mine |-> k + n]
<1>1. /\ n \in Nat /\ Len(ms) \in Nat /\ DOMAIN ns = 1..n /\ DOMAIN ms = 1..Len(ms)
      /\ all \in Seq(Note) /\ DOMAIN all = 1..(n + Len(ms))
      /\ \A k \in 1..(n + Len(ms)) : all[k] = IF k <= n THEN ns[k] ELSE ms[k - n]
  <2>1. /\ all \in Seq(Note) /\ Len(all) = n + Len(ms)
        /\ \A k \in 1..(n + Len(ms)) : all[k] = IF k <= n THEN ns[k] ELSE ms[k - n]
    BY ConcatProperties
  <2> QED
    BY <2>1, LenProperties
<1> HIDE DEF all, n
<1>2. /\ \A k \in DOMAIN all : f[k] \in Nat
      /\ \A k \in DOMAIN ms : h[k] \in Nat
      /\ \A k \in DOMAIN ns : g[k] \in Nat
  BY <1>1, WorthTerms
<1>3. IsFiniteSet(old) /\ IsFiniteSet(new) /\ IsFiniteSet(mine)
  <2>1. IsFiniteSet(old) /\ IsFiniteSet(mine)
    BY WorthTerms
  <2>2. (DOMAIN all) \ DOMAIN ns \in SUBSET DOMAIN all
    OBVIOUS
  <2>3. IsFiniteSet(new)
    BY <1>1, <2>2, WorthTerms
  <2> QED
    BY <2>1, <2>3
<1>4. \A k \in DOMAIN ns : k \in DOMAIN all /\ all[k] = ns[k]
  BY <1>1
<1>5. {k \in S \cup ((DOMAIN all) \ DOMAIN ns) : all[k].asset = a} = old \cup new
  BY <1>4
<1>6. Total(f, old \cup new) = Total(f, old) + Total(f, new)
  <2>1. old \cap new = {} /\ \A k \in old \cup new : f[k] \in Nat
    BY <1>2, <1>4
  <2> HIDE DEF old, new, f
  <2> QED
    BY <1>3, <2>1, TotalUnion
<1>7. Total(f, old) = Total(g, old)
  <2>1. \A k \in old : f[k] = g[k]
    BY <1>4
  <2> HIDE DEF old, f, g
  <2> QED
    BY <2>1, TotalSame
<1>8. r \in Bijection(mine, new) /\ \A k \in mine : f[r[k]] = h[k]
  <2>1. ASSUME NEW k \in mine
        PROVE  k + n \in new /\ r[k] = k + n /\ f[k + n] = h[k]
    <3>1. k \in 1..Len(ms) /\ k + n \in 1..(n + Len(ms)) /\ ~(k + n <= n) /\ (k + n) - n = k
      BY <1>1
    <3>2. all[k + n] = ms[k] /\ k + n \in DOMAIN all /\ k + n \notin DOMAIN ns
      BY <1>1, <3>1
    <3> QED
      BY <3>1, <3>2
  <2>2. ASSUME NEW k \in mine, NEW l \in mine, r[k] = r[l] PROVE k = l
    BY <1>1, <2>1, <2>2
  <2>3. ASSUME NEW m \in new PROVE \E k \in mine : r[k] = m
    <3>1. m \in 1..(n + Len(ms)) /\ ~(m <= n) /\ m - n \in 1..Len(ms) /\ (m - n) + n = m
      BY <1>1
    <3>2. all[m] = ms[m - n]
      BY <1>1, <3>1
    <3>3. m - n \in mine
      BY <1>1, <3>1, <3>2
    <3> QED
      BY <3>1, <3>3, <2>1
  <2>4. r \in [mine -> new]
    BY <2>1
  <2> HIDE DEF mine, new, r
  <2> QED
    BY <2>1, <2>2, <2>3, <2>4 DEF Bijection, Injection, Surjection, IsInjective
<1>9. Total(h, mine) = Total(f, new)
  <2>1. \A k \in mine : h[k] \in Nat
    BY <1>2
  <2> HIDE DEF mine, new, r, h, f
  <2> QED
    BY <1>3, <1>8, <2>1, TotalRenamed
<1>10. /\ WorthOf(all, S \cup ((DOMAIN all) \ DOMAIN ns), a) = Total(f, old \cup new)
       /\ WorthOf(ns, S, a) = Total(g, old) /\ Worth(ms, a) = Total(h, mine)
  BY <1>5 DEF WorthOf, Worth
<1> HIDE DEF old, new, mine, f, g, h
<1> QED
  BY <1>6, <1>7, <1>9, <1>10 DEF all

\* Sequences of notes are worth what their parts are.
LEMMA WorthConcat ==
  ASSUME NEW ns \in Seq(Note), NEW ms \in Seq(Note), NEW a
  PROVE  Worth(ns \o ms, a) = Worth(ns, a) + Worth(ms, a)
<1>1. DOMAIN ns \subseteq DOMAIN (ns \o ms)
  BY ConcatProperties, LenProperties
<1>2. (DOMAIN ns) \cup ((DOMAIN (ns \o ms)) \ DOMAIN ns) = DOMAIN (ns \o ms)
  BY <1>1
<1> QED
  BY <1>2, WorthAppend DEF Worth

\* Nothing is worth nothing.
LEMMA WorthEmpty == ASSUME NEW a PROVE Worth(<<>>, a) = 0
<1>1. {k \in DOMAIN <<>> : <<>>[k].asset = a} = {}
  OBVIOUS
<1> QED
  BY <1>1, TotalEmpty DEF Worth, WorthOf

\* One note.
LEMMA WorthOne ==
  ASSUME NEW x \in Note, NEW a
  PROVE  Worth(<<x>>, a) = Counted(a, x.asset, x.amount)
<1>1. <<x>> \in Seq(Note) /\ DOMAIN <<x>> = {1} /\ <<x>>[1] = x
  OBVIOUS
<1>2. Worth(<<x>>, a) = WorthOf(<<x>>, {1} \ {1}, a) + Counted(a, x.asset, x.amount)
  <2>1. 1 \in {1} /\ {1} \in SUBSET DOMAIN <<x>>
    BY <1>1
  <2> QED
    BY <1>1, <2>1, WorthSpend DEF Worth
<1>3. WorthOf(<<x>>, {1} \ {1}, a) = 0
  <2>1. {k \in {1} \ {1} : <<x>>[k].asset = a} = {}
    OBVIOUS
  <2> QED
    BY <2>1, TotalEmpty DEF WorthOf
<1>4. Counted(a, x.asset, x.amount) \in Nat
  BY DEF Counted, Note
<1> QED
  BY <1>2, <1>3, <1>4

\* mint_note mints the amount it is given, also when that is zero.
LEMMA WorthMint ==
  ASSUME NEW x \in Asset, NEW n \in Nat, NEW t \in Tag, NEW a
  PROVE  Worth(MintNote(x, n, t), a) = Counted(a, x, n)
<1>1. CASE n = 0
  BY <1>1, WorthEmpty DEF MintNote, Counted
<1>2. CASE n # 0
  <2>1. /\ MakeNote(x, n, t) \in Note
        /\ MakeNote(x, n, t).asset = x /\ MakeNote(x, n, t).amount = n
    BY <1>2 DEF MakeNote, Note
  <2> QED
    BY <1>2, <2>1, WorthOne DEF MintNote
<1> QED
  BY <1>1, <1>2

-----------------------------------------------------------------------------
(***************************************************************************)
(* What the pool owes, by the notes that a transaction spends and mints and*)
(* by the book sides that it rewrites.                                     *)
(***************************************************************************)

\* There are finitely many book sides.
LEMMA BookIdFinite == IsFiniteSet(BookId)
<1>1. DOMAIN Pair = 1..Len(Pair) /\ Len(Pair) \in Nat
  BY RegistryAssumption, LenProperties
<1>2. IsFiniteSet(DOMAIN Pair)
  BY <1>1, FS_Interval
<1>3. IsFiniteSet(Side)
  <2>1. IsFiniteSet({Buy})
    BY FS_Singleton
  <2>2. IsFiniteSet({Buy} \cup {Sell})
    BY <2>1, FS_AddElement
  <2>3. {Buy} \cup {Sell} = Side
    BY DEF Side
  <2> QED
    BY <2>2, <2>3
<1> QED
  BY <1>2, <1>3, FS_Product DEF BookId

\* What the sides of books that offer the asset a lock together.
BookSum(books, a) == Total([b \in BookId |-> Locked(books[b])], {b \in BookId : GiveAsset(b) = a})

\* Changing one side of the book changes what is locked in the asset it offers.
LEMMA BookSumUpdate ==
  ASSUME NEW books \in [BookId -> Seq(OrderEntry)], NEW b \in BookId,
         NEW s \in Seq(OrderEntry), NEW a
  PROVE  /\ BookSum(books, a) \in Nat
         /\ BookSum([books EXCEPT ![b] = s], a)
              = BookSum(books, a) - Counted(a, GiveAsset(b), Locked(books[b]))
                  + Counted(a, GiveAsset(b), Locked(s))
<1> DEFINE S == {c \in BookId : GiveAsset(c) = a}
           new == [books EXCEPT ![b] = s]
           f == [c \in BookId |-> Locked(books[c])]
           g == [c \in BookId |-> Locked(new[c])]
<1>1. IsFiniteSet(S)
  BY BookIdFinite, FS_Subset
<1>2. /\ \A c \in BookId : f[c] \in Nat /\ g[c] \in Nat
      /\ \A c \in BookId \ {b} : g[c] = f[c]
      /\ f[b] = Locked(books[b]) /\ g[b] = Locked(s)
  <2>1. \A c \in BookId : books[c] \in Seq(OrderEntry) /\ new[c] \in Seq(OrderEntry)
    OBVIOUS
  <2>2. \A c \in BookId : Locked(books[c]) \in Nat /\ Locked(new[c]) \in Nat
    BY <2>1, LockedType
  <2> QED
    BY <2>2
<1>3. BookSum(books, a) = Total(f, S) /\ BookSum(new, a) = Total(g, S)
  BY DEF BookSum
<1>4. Total(f, S) \in Nat /\ S \subseteq BookId
  <2>1. \A c \in S : f[c] \in Nat
    BY <1>2
  <2> HIDE DEF f
  <2> QED
    BY <1>1, <2>1, TotalType
<1>5. CASE GiveAsset(b) = a
  <2>1. b \in S
    BY <1>5
  <2> HIDE DEF S, f, g, new
  <2>2. SameBut(f, g, S, b)
    BY <1>2, <1>4 DEF SameBut
  <2>3. Total(g, S) = Total(f, S) - f[b] + g[b]
    BY <1>1, <2>1, <2>2, TotalUpdate
  <2> QED
    BY <1>2, <1>3, <1>4, <1>5, <2>3 DEF Counted, new
<1>6. CASE GiveAsset(b) # a
  <2>1. b \notin S
    BY <1>6
  <2> HIDE DEF S, f, g, new
  <2>2. \A c \in S : f[c] = g[c]
    BY <1>2, <1>4, <2>1
  <2>3. Total(g, S) = Total(f, S)
    BY <2>2, TotalSame
  <2> QED
    BY <1>3, <1>4, <1>6, <2>3 DEF Counted, new
<1> QED
  BY <1>5, <1>6

\* What is owed, as sums over the tree and the book.
LEMMA OwedParts ==
  ASSUME NEW a
  PROVE  /\ NoteValue(a) = WorthOf(notes, (DOMAIN notes) \ consumed, a)
         /\ BookValue(a) = BookSum(book, a)
         /\ Owed(a) = NoteValue(a) + BookValue(a)
BY DEF NoteValue, Amounts, Unspent, WorthOf, BookValue, BookSum, Owed

\* The same of the next state.
LEMMA OwedPartsNext ==
  ASSUME NEW a
  PROVE  /\ NoteValue(a)' = WorthOf(notes', (DOMAIN notes') \ consumed', a)
         /\ BookValue(a)' = BookSum(book', a)
         /\ Owed(a)' = NoteValue(a)' + BookValue(a)'
BY DEF NoteValue, Amounts, Unspent, WorthOf, BookValue, BookSum, Owed

\* What is owed is a number.
LEMMA OwedType ==
  ASSUME TypeInv, NEW a
  PROVE  NoteValue(a) \in Nat /\ BookValue(a) \in Nat /\ Owed(a) \in Nat
<1>1. WorthOf(notes, (DOMAIN notes) \ consumed, a) \in Nat
  BY WorthTerms DEF TypeInv
<1>2. BookSum(book, a) \in Nat
  <2>1. PICK b : b \in BookId \/ BookId = {}
    OBVIOUS
  <2>2. \A c \in BookId : Locked(book[c]) \in Nat
    BY LockedType DEF TypeInv
  <2>3. IsFiniteSet({c \in BookId : GiveAsset(c) = a})
    BY BookIdFinite, FS_Subset
  <2> DEFINE f == [c \in BookId |-> Locked(book[c])]
             S == {c \in BookId : GiveAsset(c) = a}
  <2>4. \A c \in S : f[c] \in Nat
    BY <2>2
  <2>5. BookSum(book, a) = Total(f, S)
    BY DEF BookSum
  <2> HIDE DEF f
  <2> QED
    BY <2>3, <2>4, <2>5, TotalType
<1> QED
  BY <1>1, <1>2, OwedParts

\* What a step does to the notes: it spends the leaves in spent, if any, and
\* mints the notes in minted, if any.
Turns(spent, minted) ==
  /\ minted \in Seq(Note) /\ notes' = notes \o minted
  /\ spent \subseteq (DOMAIN notes) \ consumed /\ consumed' = consumed \cup spent

\* Minting without spending adds what is minted.
LEMMA MintsValue ==
  ASSUME TypeInv, NEW minted, NEW spent, Turns(spent, minted), NEW a
  PROVE  NoteValue(a)' = WorthOf(notes, ((DOMAIN notes) \ consumed) \ spent, a) + Worth(minted, a)
<1> DEFINE S == ((DOMAIN notes) \ consumed) \ spent
<1>1. notes \in Seq(Note) /\ minted \in Seq(Note) /\ consumed \subseteq DOMAIN notes
  BY DEF TypeInv, Turns
<1>2. DOMAIN notes \subseteq DOMAIN (notes \o minted)
  BY <1>1, ConcatProperties, LenProperties
<1>3. (DOMAIN notes') \ consumed' = S \cup ((DOMAIN (notes \o minted)) \ DOMAIN notes)
  BY <1>1, <1>2 DEF Turns
<1>4. S \in SUBSET DOMAIN notes /\ notes' = notes \o minted
  BY DEF Turns
<1> HIDE DEF S
<1>5. WorthOf(notes \o minted, S \cup ((DOMAIN (notes \o minted)) \ DOMAIN notes), a)
        = WorthOf(notes, S, a) + Worth(minted, a)
  BY <1>1, <1>4, WorthAppend
<1> QED
  BY <1>3, <1>4, <1>5, OwedPartsNext DEF S

\* A step that spends nothing adds what it mints.
LEMMA MintsOnly ==
  ASSUME TypeInv, NEW minted, Turns({}, minted), NEW a
  PROVE  NoteValue(a)' = NoteValue(a) + Worth(minted, a)
<1>1. ((DOMAIN notes) \ consumed) \ {} = (DOMAIN notes) \ consumed
  OBVIOUS
<1> QED
  BY <1>1, MintsValue, OwedParts

\* A step that spends a leaf takes off what that was worth.
LEMMA SpendsOne ==
  ASSUME TypeInv, NEW minted, NEW i, Turns({i}, minted), NEW a
  PROVE  NoteValue(a)' = NoteValue(a) - Counted(a, notes[i].asset, notes[i].amount)
                           + Worth(minted, a)
<1> DEFINE S == (DOMAIN notes) \ consumed
<1>1. S \in SUBSET DOMAIN notes /\ i \in S /\ i \in DOMAIN notes
  BY DEF Turns
<1>2. NoteValue(a)' = WorthOf(notes, S \ {i}, a) + Worth(minted, a)
  BY MintsValue
<1>3. NoteValue(a) = WorthOf(notes, S, a)
  BY OwedParts
<1> HIDE DEF S
<1>4. WorthOf(notes, S, a)
        = WorthOf(notes, S \ {i}, a) + Counted(a, notes[i].asset, notes[i].amount)
  BY <1>1, WorthSpend DEF TypeInv
<1>5. /\ WorthOf(notes, S \ {i}, a) \in Nat /\ Worth(minted, a) \in Nat
      /\ Counted(a, notes[i].asset, notes[i].amount) \in Nat
  <2>1. S \ {i} \in SUBSET DOMAIN notes /\ DOMAIN minted \in SUBSET DOMAIN minted
    BY <1>1
  <2>2. notes \in Seq(Note) /\ minted \in Seq(Note)
    BY DEF TypeInv, Turns
  <2> QED
    BY <1>1, <2>1, <2>2, WorthTerms, NoteFields DEF Worth, Counted
<1> QED
  BY <1>2, <1>3, <1>4, <1>5

\* So does one that spends two different ones.
LEMMA SpendsTwo ==
  ASSUME TypeInv, NEW minted, NEW i, NEW j, i # j, Turns({i, j}, minted), NEW a
  PROVE  NoteValue(a)' = NoteValue(a) - Counted(a, notes[i].asset, notes[i].amount)
                           - Counted(a, notes[j].asset, notes[j].amount) + Worth(minted, a)
<1> DEFINE S == (DOMAIN notes) \ consumed
<1>1. /\ S \in SUBSET DOMAIN notes /\ i \in S /\ i \in DOMAIN notes /\ j \in DOMAIN notes
      /\ S \ {i} \in SUBSET DOMAIN notes /\ j \in S \ {i} /\ S \ {i, j} = (S \ {i}) \ {j}
  BY DEF Turns
<1>2. NoteValue(a)' = WorthOf(notes, S \ {i, j}, a) + Worth(minted, a)
  BY MintsValue
<1>3. NoteValue(a) = WorthOf(notes, S, a)
  BY OwedParts
<1> HIDE DEF S
<1>4. WorthOf(notes, S, a)
        = WorthOf(notes, S \ {i}, a) + Counted(a, notes[i].asset, notes[i].amount)
  BY <1>1, WorthSpend DEF TypeInv
<1>5. WorthOf(notes, S \ {i}, a)
        = WorthOf(notes, (S \ {i}) \ {j}, a) + Counted(a, notes[j].asset, notes[j].amount)
  <2> DEFINE R == S \ {i}
  <2>1. R \in SUBSET DOMAIN notes /\ j \in R
    BY <1>1
  <2> HIDE DEF R
  <2>2. WorthOf(notes, R, a)
          = WorthOf(notes, R \ {j}, a) + Counted(a, notes[j].asset, notes[j].amount)
    BY <2>1, WorthSpend DEF TypeInv
  <2> QED
    BY <2>2 DEF R
<1>6. /\ WorthOf(notes, S \ {i, j}, a) \in Nat /\ Worth(minted, a) \in Nat
      /\ Counted(a, notes[i].asset, notes[i].amount) \in Nat
      /\ Counted(a, notes[j].asset, notes[j].amount) \in Nat
  <2>1. S \ {i, j} \in SUBSET DOMAIN notes /\ DOMAIN minted \in SUBSET DOMAIN minted
    BY <1>1
  <2>2. notes \in Seq(Note) /\ minted \in Seq(Note)
    BY DEF TypeInv, Turns
  <2> QED
    BY <1>1, <2>1, <2>2, WorthTerms, NoteFields DEF Worth, Counted
<1> QED
  BY <1>1, <1>2, <1>3, <1>4, <1>5, <1>6

-----------------------------------------------------------------------------
(***************************************************************************)
(* The argument.  While a transaction with a loop runs, storage does not   *)
(* change: SubmitConserves and PruneConserves say that the private copy    *)
(* accounts for exactly what it has taken from storage so far.  They are   *)
(* inductive with TypeInv, TxInv and SingleSpend (ValueInv), and they make *)
(* the commit at the end of the loop change nothing that is owed.          *)
(***************************************************************************)

\* What a running submit_order has minted, what its copy of the opposing side
\* locks and what the taker has left are what it began with.
SubmitConserves ==
  tx.op = "submit" =>
    LET give == GiveAsset(tx.book_id)
        want == WantAsset(tx.book_id)
    IN  /\ notes[tx.spends].asset = give
        /\ \A a \in Asset :
             Worth(tx.minted, a) + Counted(a, want, Locked(tx.makers))
                 + Counted(a, give, tx.taker.remaining_in)
               = Counted(a, want, Locked(book[OtherSide(tx.book_id)]))
                   + Counted(a, give, notes[tx.spends].amount)

\* What a running prune_expired has minted and what its copy of the side locks
\* are what the side locks.
PruneConserves ==
  tx.op = "prune" =>
    LET give == GiveAsset(tx.book_id)
    IN  \A a \in Asset :
          Worth(tx.minted, a) + Counted(a, give, Locked(tx.makers))
            = Counted(a, give, Locked(book[tx.book_id]))

ValueInv == TypeInv /\ TxInv /\ SingleSpend /\ SubmitConserves /\ PruneConserves

\* Nobody is owed more or less.
OwedStays == \A a \in Asset : Owed(a)' = Owed(a)

\* A leaf that can be spent has not been.
LEMMA SpendableUnspent ==
  ASSUME SingleSpend, NEW i, Spendable(i)
  PROVE  i \in (DOMAIN notes) \ consumed
BY DEF SingleSpend, Spendable

\* What counts as owed is the tree and the book.
LEMMA SameOwed ==
  ASSUME notes' = notes, consumed' = consumed, book' = book
  PROVE  OwedStays
BY OwedParts, OwedPartsNext DEF OwedStays

\* The book alone.
LEMMA SameBook ==
  ASSUME book' = book, NEW a
  PROVE  BookValue(a)' = BookValue(a)
BY OwedParts, OwedPartsNext

\* A leaf enters the tree: its holder is owed so much more.
LEMMA MintsOne ==
  ASSUME TypeInv, NEW x \in Note, Insert(<<x>>), UNCHANGED <<consumed, book>>,
         NEW a \in Asset
  PROVE  Owed(a)' = Owed(a) + Counted(a, x.asset, x.amount)
<1>1. Turns({}, <<x>>)
  BY DEF Turns, Insert
<1>2. NoteValue(a)' = NoteValue(a) + Worth(<<x>>, a)
  BY <1>1, MintsOnly
<1>3. Worth(<<x>>, a) = Counted(a, x.asset, x.amount)
  BY WorthOne
<1>4. BookValue(a)' = BookValue(a)
  BY SameBook
<1>5. Counted(a, x.asset, x.amount) \in Nat
  BY DEF Counted, Note
<1> QED
  BY <1>2, <1>3, <1>4, <1>5, OwedParts, OwedPartsNext, OwedType

\* shield.
LEMMA ShieldOwes ==
  ASSUME TypeInv, NEW a \in Asset, NEW n \in ShieldAmount, NEW t \in Tag, Shield(a, n, t)
  PROVE  \A x \in Asset : Owed(x)' = Owed(x) + Counted(x, a, n)
<1>1. /\ MakeNote(a, n, t) \in Note
      /\ MakeNote(a, n, t).asset = a /\ MakeNote(a, n, t).amount = n
  BY InputAssumption DEF MakeNote, Note
<1> QED
  BY <1>1, MintsOne DEF Shield, bookVars

\* shield_from_base.
LEMMA ClaimOwes ==
  ASSUME TypeInv, NEW j \in Journal, ShieldFromBase(j)
  PROVE  \A x \in Asset : Owed(x)' = Owed(x) + Counted(x, j.asset, j.amount)
<1>1. /\ MakeNote(j.asset, j.amount, j.owner_tag) \in Note
      /\ MakeNote(j.asset, j.amount, j.owner_tag).asset = j.asset
      /\ MakeNote(j.asset, j.amount, j.owner_tag).amount = j.amount
  BY JournalAssumption DEF MakeNote, Note, JournalType, ShieldFromBase
<1> QED
  BY <1>1, MintsOne DEF ShieldFromBase, bookVars

\* unshield.
LEMMA UnshieldOwes ==
  ASSUME TypeInv, SingleSpend, NEW i \in DOMAIN notes, Unshield(i)
  PROVE  \A x \in Asset : Owed(x) = Owed(x)' + Counted(x, notes[i].asset, notes[i].amount)
<1>1. Turns({i}, <<>>)
  <2>1. notes \in Seq(Note) /\ notes' = notes \o <<>>
    BY ConcatEmptySeq DEF TypeInv, Unshield
  <2> QED
    BY <2>1, SpendableUnspent DEF Turns, Unshield, Consume
<1>2. ASSUME NEW x \in Asset
      PROVE  Owed(x) = Owed(x)' + Counted(x, notes[i].asset, notes[i].amount)
  <2>1. NoteValue(x)' = NoteValue(x) - Counted(x, notes[i].asset, notes[i].amount)
                          + Worth(<<>>, x)
    BY <1>1, SpendsOne
  <2>2. BookValue(x)' = BookValue(x)
    BY SameBook DEF Unshield, bookVars
  <2>3. Counted(x, notes[i].asset, notes[i].amount) \in Nat
    BY NoteFields DEF Counted, TypeInv
  <2> QED
    BY <2>1, <2>2, <2>3, WorthEmpty, OwedParts, OwedPartsNext, OwedType
<1> QED
  BY <1>2

\* Two leaves, one after the other.
LEMMA WorthTwo ==
  ASSUME NEW p \in Note, NEW q \in Note, NEW a
  PROVE  /\ <<p, q>> \in Seq(Note)
         /\ Worth(<<p, q>>, a) = Counted(a, p.asset, p.amount) + Counted(a, q.asset, q.amount)
<1>1. <<p>> \in Seq(Note) /\ <<q>> \in Seq(Note) /\ <<p, q>> \in Seq(Note)
  OBVIOUS
<1>2. <<p, q>> = <<p>> \o <<q>>
  <2>1. Len(<<p>> \o <<q>>) = 2 /\ (<<p>> \o <<q>>)[1] = p /\ (<<p>> \o <<q>>)[2] = q
    BY <1>1, ConcatProperties
  <2>2. <<p>> \o <<q>> \in Seq(Note)
    BY <1>1, ConcatProperties
  <2>3. Len(<<p, q>>) = 2 /\ <<p, q>>[1] = p /\ <<p, q>>[2] = q
    OBVIOUS
  <2>4. \A i \in 1..2 : <<p, q>>[i] = (<<p>> \o <<q>>)[i]
    BY <2>1, <2>3
  <2> HIDE DEF Note
  <2> QED
    BY <1>1, <2>1, <2>2, <2>3, <2>4, SeqEqual
<1>3. Worth(<<p>> \o <<q>>, a) = Worth(<<p>>, a) + Worth(<<q>>, a)
  BY <1>1, WorthConcat
<1>4. /\ Worth(<<p>>, a) = Counted(a, p.asset, p.amount)
      /\ Worth(<<q>>, a) = Counted(a, q.asset, q.amount)
  BY WorthOne
<1> QED
  BY <1>1, <1>2, <1>3, <1>4

\* The notes of a swap are worth what is spent for them.
LEMMA SwapOwes ==
  ASSUME TypeInv, SingleSpend, NEW i \in DOMAIN notes, NEW j \in DOMAIN notes,
         NEW s \in Tag, NEW t \in Tag, Swap(i, j, s, t)
  PROVE  OwedStays
<1> DEFINE p == MakeNote(notes[j].asset, notes[j].amount, s)
           q == MakeNote(notes[i].asset, notes[i].amount, t)
<1>1. /\ p \in Note /\ p.asset = notes[j].asset /\ p.amount = notes[j].amount
      /\ q \in Note /\ q.asset = notes[i].asset /\ q.amount = notes[i].amount
  BY NoteFields DEF TypeInv, MakeNote, Note
<1>2. /\ Consume({i, j}) /\ Insert(<<p, q>>) /\ UNCHANGED book /\ i # j
      /\ Spendable(i) /\ Spendable(j)
  BY DEF Swap, bookVars
<1> HIDE DEF p, q
<1>3. <<p, q>> \in Seq(Note)
  BY <1>1, WorthTwo
<1>4. Turns({i, j}, <<p, q>>)
  BY <1>2, <1>3, SpendableUnspent DEF Turns, Insert, Consume
<1>5. ASSUME NEW a \in Asset PROVE Owed(a)' = Owed(a)
  <2>1. NoteValue(a)' = NoteValue(a) - Counted(a, notes[i].asset, notes[i].amount)
                          - Counted(a, notes[j].asset, notes[j].amount) + Worth(<<p, q>>, a)
    BY <1>2, <1>4, SpendsTwo
  <2>2. Worth(<<p, q>>, a) = Counted(a, notes[j].asset, notes[j].amount)
                               + Counted(a, notes[i].asset, notes[i].amount)
    BY <1>1, WorthTwo
  <2>3. BookValue(a)' = BookValue(a)
    BY <1>2, SameBook
  <2>4. /\ Counted(a, notes[i].asset, notes[i].amount) \in Nat
        /\ Counted(a, notes[j].asset, notes[j].amount) \in Nat
    BY NoteFields DEF Counted, TypeInv
  <2> QED
    BY <2>1, <2>2, <2>3, <2>4, OwedParts, OwedPartsNext, OwedType
<1> QED
  BY <1>5 DEF OwedStays

\* The outputs of a join are worth its total.
LEMMA JoinMints ==
  ASSUME NEW asset \in Asset, NEW total \in Nat, NEW out \in 0..total,
         NEW s \in Tag, NEW t \in Tag, NEW a
  PROVE  LET minted == MintNote(asset, out, s) \o MintNote(asset, total - out, t)
         IN  minted \in Seq(Note) /\ Worth(minted, a) = Counted(a, asset, total)
<1>1. out \in Nat /\ total - out \in Nat
  OBVIOUS
<1>2. MintNote(asset, out, s) \in Seq(Note) /\ MintNote(asset, total - out, t) \in Seq(Note)
  BY <1>1, MintNoteType
<1>3. /\ Worth(MintNote(asset, out, s), a) = Counted(a, asset, out)
      /\ Worth(MintNote(asset, total - out, t), a) = Counted(a, asset, total - out)
  BY <1>1, WorthMint
<1>4. Counted(a, asset, out) + Counted(a, asset, total - out) = Counted(a, asset, total)
  BY <1>1 DEF Counted
<1> QED
  BY <1>2, <1>3, <1>4, WorthConcat, ConcatProperties

\* join.
LEMMA JoinOwes ==
  ASSUME TypeInv, SingleSpend, NEW i \in DOMAIN notes, NEW j \in DOMAIN notes,
         NEW n \in 0..(notes[i].amount + notes[j].amount), NEW s \in Tag, NEW t \in Tag,
         Join(i, j, n, s, t)
  PROVE  OwedStays
<1> DEFINE asset == notes[i].asset
           total == notes[i].amount + notes[j].amount
           minted == MintNote(asset, n, s) \o MintNote(asset, total - n, t)
<1>1. /\ Consume({i, j}) /\ Insert(minted) /\ UNCHANGED book /\ i # j
      /\ Spendable(i) /\ Spendable(j) /\ notes[j].asset = asset
  BY DEF Join, JoinInto, bookVars
<1>2. asset \in Asset /\ notes[i].amount \in Nat /\ notes[j].amount \in Nat /\ total \in Nat
  BY NoteFields DEF TypeInv
<1> HIDE DEF asset
<1>3. minted \in Seq(Note) /\ \A a : Worth(minted, a) = Counted(a, asset, total)
  BY <1>2, JoinMints
<1> HIDE DEF minted
<1>4. Turns({i, j}, minted)
  BY <1>1, <1>3, SpendableUnspent DEF Turns, Insert, Consume
<1>5. ASSUME NEW a \in Asset PROVE Owed(a)' = Owed(a)
  <2>1. NoteValue(a)' = NoteValue(a) - Counted(a, notes[i].asset, notes[i].amount)
                          - Counted(a, notes[j].asset, notes[j].amount) + Worth(minted, a)
    BY <1>1, <1>4, SpendsTwo
  <2>2. Counted(a, asset, total) = Counted(a, notes[i].asset, notes[i].amount)
                                     + Counted(a, notes[j].asset, notes[j].amount)
    BY <1>1, <1>2 DEF Counted, asset
  <2>3. BookValue(a)' = BookValue(a)
    BY <1>1, SameBook
  <2>4. /\ Counted(a, notes[i].asset, notes[i].amount) \in Nat
        /\ Counted(a, notes[j].asset, notes[j].amount) \in Nat
    BY NoteFields DEF Counted, TypeInv
  <2> QED
    BY <1>3, <2>1, <2>2, <2>3, <2>4, OwedParts, OwedPartsNext, OwedType
<1> QED
  BY <1>5 DEF OwedStays

\* join with a null second input.
LEMMA JoinPaddedOwes ==
  ASSUME TypeInv, SingleSpend, NEW i \in DOMAIN notes, NEW pad \in Tag,
         NEW n \in 0..notes[i].amount, NEW s \in Tag, NEW t \in Tag,
         JoinPadded(i, pad, n, s, t)
  PROVE  OwedStays
<1> DEFINE asset == notes[i].asset
           total == notes[i].amount
           minted == MintNote(asset, n, s) \o MintNote(asset, total - n, t)
<1>1. /\ consumed' = consumed \cup {i} /\ Insert(minted) /\ UNCHANGED book
      /\ Spendable(i)
  BY DEF JoinPadded, JoinInto, bookVars
<1>2. asset \in Asset /\ total \in Nat
  BY NoteFields DEF TypeInv
<1> HIDE DEF asset, total
<1>3. minted \in Seq(Note) /\ \A a : Worth(minted, a) = Counted(a, asset, total)
  <2>1. n \in 0..total
    BY DEF total
  <2> QED
    BY <1>2, <2>1, JoinMints
<1> HIDE DEF minted
<1>4. Turns({i}, minted)
  BY <1>1, <1>3, SpendableUnspent DEF Turns, Insert
<1>5. ASSUME NEW a \in Asset PROVE Owed(a)' = Owed(a)
  <2>1. NoteValue(a)' = NoteValue(a) - Counted(a, asset, total) + Worth(minted, a)
    BY <1>4, SpendsOne DEF asset, total
  <2>2. BookValue(a)' = BookValue(a)
    BY <1>1, SameBook
  <2>3. Counted(a, asset, total) \in Nat
    BY <1>2 DEF Counted
  <2> QED
    BY <1>3, <2>1, <2>2, <2>3, OwedParts, OwedPartsNext, OwedType
<1> QED
  BY <1>5 DEF OwedStays

\* Nothing runs: there is nothing that a transaction has to conserve.
LEMMA IdleConserves == tx' = Idle => SubmitConserves' /\ PruneConserves'
BY DEF Idle, SubmitConserves, PruneConserves

\* The beginning of submit_order: everything is still where it was.
LEMMA SubmitBegins ==
  ASSUME TypeInv, NEW i \in DOMAIN notes, NEW b \in BookId, NEW o \in Terms,
         SubmitOrder(i, b, o)
  PROVE  SubmitConserves' /\ PruneConserves'
<1>1. /\ tx'.op = "submit" /\ tx'.spends = i /\ tx'.book_id = b
      /\ tx'.taker.remaining_in = notes[i].amount
      /\ tx'.makers = book[OtherSide(b)] /\ tx'.minted = <<>>
      /\ notes' = notes /\ book' = book /\ notes[i].asset = GiveAsset(b)
  BY DEF SubmitOrder, poolVars, bookVars
<1>2. ASSUME NEW a \in Asset
      PROVE  Worth(<<>>, a) + Counted(a, WantAsset(b), Locked(book[OtherSide(b)]))
                 + Counted(a, GiveAsset(b), notes[i].amount)
               = Counted(a, WantAsset(b), Locked(book[OtherSide(b)]))
                   + Counted(a, GiveAsset(b), notes[i].amount)
  <2>1. Locked(book[OtherSide(b)]) \in Nat /\ notes[i].amount \in Nat
    BY LockedType, SideTypes, NoteFields DEF TypeInv
  <2> QED
    BY <2>1, WorthEmpty DEF Counted
<1> QED
  BY <1>1, <1>2 DEF SubmitConserves, PruneConserves

\* The beginning of prune_expired.
LEMMA PruneBegins ==
  ASSUME TypeInv, NEW b \in BookId, NEW m, PruneExpired(b, m)
  PROVE  SubmitConserves' /\ PruneConserves'
<1>1. /\ tx'.op = "prune" /\ tx'.book_id = b /\ tx'.makers = book[b] /\ tx'.minted = <<>>
      /\ book' = book
  BY DEF PruneExpired, bookVars
<1>2. ASSUME NEW a \in Asset
      PROVE  Worth(<<>>, a) + Counted(a, GiveAsset(b), Locked(book[b]))
               = Counted(a, GiveAsset(b), Locked(book[b]))
  <2>1. Locked(book[b]) \in Nat
    BY LockedType DEF TypeInv
  <2> QED
    BY <2>1, WorthEmpty DEF Counted
<1> QED
  BY <1>1, <1>2 DEF SubmitConserves, PruneConserves

\* What is refunded to an order is what it still locks.
LEMMA RefundWorth ==
  ASSUME NEW b \in BookId, NEW e \in OrderEntry, NEW t \in Tag, NEW a
  PROVE  /\ Refund(b, e, t) \in Seq(Note)
         /\ Worth(Refund(b, e, t), a) = Counted(a, GiveAsset(b), e.remaining_in)
BY SideTypes, OrderFields, RefundType, WorthMint DEF Refund

\* cancel_order: what the order locked is what the note is worth.
LEMMA CancelOwes ==
  ASSUME TypeInv, NEW b \in BookId, NEW t \in Tag, NEW k \in DOMAIN book[b],
         CancelOrder(b, k, t)
  PROVE  OwedStays
<1> DEFINE e == book[b][k]
           minted == Refund(b, e, t)
           rest == RemoveAt(book[b], k)
<1>1. book[b] \in Seq(OrderEntry) /\ k \in 1..Len(book[b]) /\ e \in OrderEntry
  BY LenProperties DEF TypeInv
<1>2. /\ Insert(minted) /\ book' = [book EXCEPT ![b] = rest] /\ consumed' = consumed
  BY DEF CancelOrder
<1>3. /\ Locked(book[b]) = Locked(rest) + e.remaining_in /\ rest \in Seq(OrderEntry)
      /\ Locked(rest) \in Nat /\ e.remaining_in \in Nat /\ Locked(book[b]) \in Nat
  BY <1>1, LockedRemove, RemoveAtProperties, LockedType, OrderFields
<1>4. minted \in Seq(Note) /\ \A a : Worth(minted, a) = Counted(a, GiveAsset(b), e.remaining_in)
  BY <1>1, RefundWorth
<1> HIDE DEF e, minted, rest
<1>5. Turns({}, minted)
  BY <1>2, <1>4 DEF Turns, Insert
<1>6. ASSUME NEW a \in Asset PROVE Owed(a)' = Owed(a)
  <2>1. NoteValue(a)' = NoteValue(a) + Worth(minted, a)
    BY <1>5, MintsOnly
  <2>2. BookValue(a)' = BookValue(a) - Counted(a, GiveAsset(b), Locked(book[b]))
                          + Counted(a, GiveAsset(b), Locked(rest))
    <3>1. book \in [BookId -> Seq(OrderEntry)]
      BY DEF TypeInv
    <3>2. BookSum([book EXCEPT ![b] = rest], a)
            = BookSum(book, a) - Counted(a, GiveAsset(b), Locked(book[b]))
                + Counted(a, GiveAsset(b), Locked(rest))
      BY <1>3, <3>1, BookSumUpdate
    <3> QED
      BY <1>2, <3>2, OwedParts, OwedPartsNext
  <2> QED
    BY <1>3, <1>4, <2>1, <2>2, OwedParts, OwedPartsNext, OwedType DEF Counted
<1> QED
  BY <1>6 DEF OwedStays

\* A fill: what the maker no longer locks is what the taker is minted, and what
\* the taker no longer has is what the maker is minted.
LEMMA FillConserves ==
  ASSUME TypeInv, SubmitConserves, FillMaker
  PROVE  SubmitConserves' /\ PruneConserves'
<1> DEFINE b == tx.book_id
<1>1. /\ tx.op = "submit" /\ b \in BookId /\ tx.makers \in Seq(OrderEntry)
      /\ tx.taker \in OrderEntry /\ tx.minted \in Seq(Note)
      /\ tx.i \in 1..Len(tx.makers) /\ Maker \in OrderEntry
      /\ Gives \in 0..Maker.remaining_in /\ Pays \in 0..tx.taker.remaining_in
  BY FillFields, SubmitFields
<1>2. /\ Maker.remaining_in \in Nat /\ tx.taker.remaining_in \in Nat
      /\ Gives \in Nat /\ Pays \in Nat
  <2>1. Maker.remaining_in \in Nat /\ tx.taker.remaining_in \in Nat
    BY <1>1, OrderFields
  <2> QED
    BY <1>1, <2>1
<1>3. Locked(MakersAfter) = Locked(tx.makers) - Gives /\ Locked(tx.makers) \in Nat
  <2>1. Locked(tx.makers) \in Nat
    BY <1>1, LockedType
  <2>2. Maker = tx.makers[tx.i]
    BY DEF Maker
  <2>3. CASE MakerAfter.remaining_in = 0
    <3>1. MakersAfter = RemoveAt(tx.makers, tx.i) /\ Maker.remaining_in = Gives
      BY <1>2, <2>3, FillFields DEF MakersAfter
    <3>2. Locked(tx.makers) = Locked(MakersAfter) + Maker.remaining_in
      BY <1>1, <2>2, <3>1, LockedRemove
    <3>3. Locked(MakersAfter) \in Nat
      BY FillFields, LockedType
    <3> QED
      BY <1>2, <2>1, <3>1, <3>2, <3>3
  <2>4. CASE MakerAfter.remaining_in # 0
    <3>1. MakersAfter = [tx.makers EXCEPT ![tx.i] = MakerAfter]
      BY <2>4 DEF MakersAfter
    <3>2. /\ MakerAfter \in OrderEntry
          /\ MakerAfter.remaining_in = Maker.remaining_in - Gives
      BY FillFields
    <3>3. Locked(MakersAfter) = Locked(tx.makers) - Maker.remaining_in + MakerAfter.remaining_in
      BY <1>1, <2>2, <3>1, <3>2, LockedUpdate
    <3> QED
      BY <1>2, <2>1, <3>2, <3>3
  <2> QED
    BY <2>1, <2>3, <2>4
<1>4. \A a : Worth(FillMints, a) = Counted(a, WantAsset(b), Gives) + Counted(a, GiveAsset(b), Pays)
  <2>1. /\ tx.taker.output_owner_tag \in Tag /\ Maker.output_owner_tag \in Tag
        /\ WantAsset(b) \in Asset /\ GiveAsset(b) \in Asset
    BY <1>1, OrderFields, SideTypes
  <2> DEFINE p == MintNote(WantAsset(b), Gives, tx.taker.output_owner_tag)
             q == MintNote(GiveAsset(b), Pays, Maker.output_owner_tag)
  <2>2. p \in Seq(Note) /\ q \in Seq(Note) /\ FillMints = p \o q
    BY <1>2, <2>1, MintNoteType DEF FillMints
  <2>3. \A a : Worth(p, a) = Counted(a, WantAsset(b), Gives)
    BY <1>2, <2>1, WorthMint
  <2>4. \A a : Worth(q, a) = Counted(a, GiveAsset(b), Pays)
    BY <1>2, <2>1, WorthMint
  <2> HIDE DEF p, q, b
  <2>5. \A a : Worth(p \o q, a) = Worth(p, a) + Worth(q, a)
    BY <2>2, WorthConcat
  <2> QED
    BY <2>2, <2>3, <2>4, <2>5
<1>5. \A a : Worth(tx.minted \o FillMints, a) = Worth(tx.minted, a) + Worth(FillMints, a)
  BY <1>1, FillFields, WorthConcat
<1>6. \A a : Worth(tx.minted, a) \in Nat
  <2>1. DOMAIN tx.minted \in SUBSET DOMAIN tx.minted
    OBVIOUS
  <2> QED
    BY <1>1, <2>1, WorthTerms DEF Worth
<1>7. /\ tx'.op = "submit" /\ tx'.spends = tx.spends /\ tx'.book_id = b
      /\ tx'.taker.remaining_in = tx.taker.remaining_in - Pays
      /\ tx'.makers = MakersAfter /\ tx'.minted = tx.minted \o FillMints
      /\ notes' = notes /\ book' = book
  BY FillFields, FillEffect DEF poolVars, bookVars
<1>8. ASSUME NEW a \in Asset
      PROVE  Worth(tx'.minted, a) + Counted(a, WantAsset(b), Locked(tx'.makers))
                 + Counted(a, GiveAsset(b), tx'.taker.remaining_in)
               = Worth(tx.minted, a) + Counted(a, WantAsset(b), Locked(tx.makers))
                 + Counted(a, GiveAsset(b), tx.taker.remaining_in)
  <2>1. Worth(tx'.minted, a) = Worth(tx.minted, a) + Counted(a, WantAsset(b), Gives)
                                 + Counted(a, GiveAsset(b), Pays)
    <3>1. Counted(a, WantAsset(b), Gives) \in Nat /\ Counted(a, GiveAsset(b), Pays) \in Nat
      BY <1>2 DEF Counted
    <3> QED
      BY <1>4, <1>5, <1>6, <1>7, <3>1
  <2>2. Counted(a, WantAsset(b), Locked(tx'.makers))
          = Counted(a, WantAsset(b), Locked(tx.makers)) - Counted(a, WantAsset(b), Gives)
    BY <1>2, <1>3, <1>7 DEF Counted
  <2>3. Counted(a, GiveAsset(b), tx'.taker.remaining_in)
          = Counted(a, GiveAsset(b), tx.taker.remaining_in) - Counted(a, GiveAsset(b), Pays)
    BY <1>2, <1>7 DEF Counted
  <2>4. /\ Counted(a, WantAsset(b), Gives) \in Nat /\ Counted(a, GiveAsset(b), Pays) \in Nat
        /\ Counted(a, WantAsset(b), Locked(tx.makers)) \in Nat
        /\ Counted(a, GiveAsset(b), tx.taker.remaining_in) \in Nat
        /\ Worth(tx.minted, a) \in Nat
    BY <1>2, <1>3, <1>6 DEF Counted
  <2> QED
    BY <2>1, <2>2, <2>3, <2>4
<1> HIDE DEF b
<1>9. SubmitConserves'
  BY <1>1, <1>7, <1>8 DEF SubmitConserves, b
<1> QED
  BY <1>7, <1>9 DEF PruneConserves

\* The sums of a commit: n and b are owed in notes and in books, m and t are
\* minted in all and in the loop, own replaces side and makers replaces opp.
LEMMA CommitSums ==
  ASSUME NEW n \in Nat, NEW b \in Nat, NEW m \in Nat, NEW t \in Nat, NEW own \in Nat,
         NEW side \in Nat, NEW left \in Nat, NEW spent \in Nat, NEW makers \in Nat,
         NEW opp \in Nat,
         m + own = t + side + left, t + makers + left = opp + spent
  PROVE  (n - spent + m) + (((b - opp) + makers) - side + own) = n + b
OBVIOUS

\* The end of a submit_order whose own side and notes account for what the
\* taker had left: the note it spends is what all of it is worth.
LEMMA CommitOwes ==
  ASSUME ValueInv, tx.op = "submit",
         NEW minted \in Seq(Note), NEW own \in Seq(OrderEntry), NEW events, NEW seq,
         Commit(minted, own, events, seq),
         \A a \in Asset :
           Worth(minted, a) + Counted(a, GiveAsset(tx.book_id), Locked(own))
             = Worth(tx.minted, a)
                 + Counted(a, GiveAsset(tx.book_id), Locked(book[tx.book_id]))
                 + Counted(a, GiveAsset(tx.book_id), tx.taker.remaining_in)
  PROVE  OwedStays
<1> DEFINE b == tx.book_id
           opp == OtherSide(b)
           i == tx.spends
           first == [book EXCEPT ![opp] = tx.makers]
<1>1. /\ b \in BookId /\ tx.makers \in Seq(OrderEntry) /\ tx.taker \in OrderEntry
      /\ tx.minted \in Seq(Note) /\ opp \in BookId /\ opp # b
      /\ GiveAsset(opp) = WantAsset(b)
  BY SubmitFields, SideTypes DEF ValueInv
<1>2. /\ Insert(minted) /\ Consume({i}) /\ book' = [first EXCEPT ![b] = own]
  BY DEF Commit
<1>3. i \in (DOMAIN notes) \ consumed
  BY SubmitFields, SpendableUnspent DEF ValueInv, TxInv
<1>4. Turns({i}, minted)
  BY <1>2, <1>3 DEF Turns, Insert, Consume
<1>5. /\ book \in [BookId -> Seq(OrderEntry)] /\ first \in [BookId -> Seq(OrderEntry)]
      /\ first[b] = book[b]
  BY <1>1 DEF ValueInv, TypeInv
<1> HIDE DEF first, opp, i, b
<1>6. /\ Locked(tx.makers) \in Nat /\ Locked(own) \in Nat /\ Locked(book[b]) \in Nat
      /\ Locked(book[opp]) \in Nat /\ tx.taker.remaining_in \in Nat
  <2>1. book[b] \in Seq(OrderEntry) /\ book[opp] \in Seq(OrderEntry)
    BY <1>1, <1>5
  <2> QED
    BY <1>1, <2>1, LockedType, OrderFields
<1>7. /\ notes[i].asset = GiveAsset(b) /\ notes[i].amount \in Nat
      /\ \A a \in Asset :
           Worth(tx.minted, a) + Counted(a, WantAsset(b), Locked(tx.makers))
               + Counted(a, GiveAsset(b), tx.taker.remaining_in)
             = Counted(a, WantAsset(b), Locked(book[opp]))
                 + Counted(a, GiveAsset(b), notes[i].amount)
  <2>1. notes[i].amount \in Nat
    BY <1>3, NoteFields DEF ValueInv, TypeInv
  <2> QED
    BY <2>1 DEF ValueInv, SubmitConserves, b, i, opp
<1>8. ASSUME NEW a \in Asset PROVE Owed(a)' = Owed(a)
  <2>1. NoteValue(a)' = NoteValue(a) - Counted(a, GiveAsset(b), notes[i].amount)
                          + Worth(minted, a)
    BY <1>4, <1>7, SpendsOne DEF ValueInv
  <2>2. /\ BookSum(first, a) = BookSum(book, a) - Counted(a, WantAsset(b), Locked(book[opp]))
                                 + Counted(a, WantAsset(b), Locked(tx.makers))
        /\ BookSum(book, a) \in Nat
    <3>1. /\ BookSum([book EXCEPT ![opp] = tx.makers], a)
               = BookSum(book, a) - Counted(a, GiveAsset(opp), Locked(book[opp]))
                   + Counted(a, GiveAsset(opp), Locked(tx.makers))
          /\ BookSum(book, a) \in Nat
      BY <1>1, <1>5, BookSumUpdate
    <3> QED
      BY <1>1, <3>1 DEF first
  <2>3. BookSum(book', a) = BookSum(first, a) - Counted(a, GiveAsset(b), Locked(book[b]))
                              + Counted(a, GiveAsset(b), Locked(own))
    <3>1. BookSum([first EXCEPT ![b] = own], a)
            = BookSum(first, a) - Counted(a, GiveAsset(b), Locked(first[b]))
                + Counted(a, GiveAsset(b), Locked(own))
      BY <1>1, <1>5, BookSumUpdate
    <3> QED
      BY <1>2, <1>5, <3>1
  <2>4. /\ NoteValue(a) \in Nat /\ BookValue(a) = BookSum(book, a)
        /\ Owed(a) = NoteValue(a) + BookValue(a)
        /\ Owed(a)' = NoteValue(a)' + BookSum(book', a)
    BY OwedParts, OwedPartsNext, OwedType DEF ValueInv
  <2>5. /\ Worth(minted, a) + Counted(a, GiveAsset(b), Locked(own))
             = Worth(tx.minted, a) + Counted(a, GiveAsset(b), Locked(book[b]))
                 + Counted(a, GiveAsset(b), tx.taker.remaining_in)
        /\ Worth(tx.minted, a) + Counted(a, WantAsset(b), Locked(tx.makers))
               + Counted(a, GiveAsset(b), tx.taker.remaining_in)
             = Counted(a, WantAsset(b), Locked(book[opp]))
                 + Counted(a, GiveAsset(b), notes[i].amount)
    BY <1>7 DEF b
  <2>6. Worth(minted, a) \in Nat /\ Worth(tx.minted, a) \in Nat
    <3>1. /\ DOMAIN minted \in SUBSET DOMAIN minted
          /\ DOMAIN tx.minted \in SUBSET DOMAIN tx.minted
      OBVIOUS
    <3> QED
      BY <1>1, <3>1, WorthTerms DEF Worth
  <2>7. /\ Counted(a, GiveAsset(b), Locked(own)) \in Nat
        /\ Counted(a, GiveAsset(b), Locked(book[b])) \in Nat
        /\ Counted(a, GiveAsset(b), tx.taker.remaining_in) \in Nat
        /\ Counted(a, GiveAsset(b), notes[i].amount) \in Nat
        /\ Counted(a, WantAsset(b), Locked(tx.makers)) \in Nat
        /\ Counted(a, WantAsset(b), Locked(book[opp])) \in Nat
    BY <1>6, <1>7 DEF Counted
  <2> DEFINE m == Worth(minted, a)
             t == Worth(tx.minted, a)
             o == Counted(a, GiveAsset(b), Locked(own))
             side == Counted(a, GiveAsset(b), Locked(book[b]))
             left == Counted(a, GiveAsset(b), tx.taker.remaining_in)
             spent == Counted(a, GiveAsset(b), notes[i].amount)
             makers == Counted(a, WantAsset(b), Locked(tx.makers))
             other == Counted(a, WantAsset(b), Locked(book[opp]))
  <2>8. m + o = t + side + left /\ t + makers + left = other + spent
    BY <2>5
  <2>9. /\ m \in Nat /\ t \in Nat /\ o \in Nat /\ side \in Nat /\ left \in Nat
        /\ spent \in Nat /\ makers \in Nat /\ other \in Nat
    BY <2>6, <2>7
  <2>10. /\ NoteValue(a)' = NoteValue(a) - spent + m
         /\ BookSum(first, a) = (BookSum(book, a) - other) + makers
         /\ BookSum(book', a) = BookSum(first, a) - side + o
    BY <2>1, <2>2, <2>3
  <2> HIDE DEF m, t, o, side, left, spent, makers, other
  <2>11. (NoteValue(a) - spent + m) + (((BookSum(book, a) - other) + makers) - side + o)
           = NoteValue(a) + BookSum(book, a)
    BY <2>2, <2>4, <2>8, <2>9, CommitSums
  <2> QED
    BY <2>4, <2>10, <2>11
<1> QED
  BY <1>8 DEF OwedStays

\* submit_order ends: the taker is filled, or what is left of it rests or is
\* returned.
LEMMA SubmitEndsOwes ==
  ASSUME ValueInv, SubmitFilled \/ SubmitRests \/ SubmitReturns
  PROVE  OwedStays
<1> DEFINE b == tx.book_id
<1>1. tx.op = "submit"
  BY DEF SubmitFilled, SubmitRests, SubmitReturns, LoopDone
<1>2. /\ b \in BookId /\ tx.taker \in OrderEntry /\ tx.minted \in Seq(Note)
      /\ book[b] \in Seq(OrderEntry) /\ Locked(book[b]) \in Nat /\ tx.taker.remaining_in \in Nat
      /\ tx.taker.output_owner_tag \in Tag
  BY <1>1, SubmitFields, LockedType, OrderFields DEF ValueInv, TypeInv
<1>3. \A a : Worth(tx.minted, a) \in Nat
  <2>1. DOMAIN tx.minted \in SUBSET DOMAIN tx.minted
    OBVIOUS
  <2> QED
    BY <1>2, <2>1, WorthTerms DEF Worth
<1>4. CASE SubmitFilled
  <2>1. Commit(tx.minted, book[b], tx.events, tx.seq) /\ tx.taker.remaining_in = 0
    BY <1>4 DEF SubmitFilled
  <2>2. \A a \in Asset :
           Worth(tx.minted, a) + Counted(a, GiveAsset(b), Locked(book[b]))
             = Worth(tx.minted, a) + Counted(a, GiveAsset(b), Locked(book[b]))
                 + Counted(a, GiveAsset(b), tx.taker.remaining_in)
    BY <1>2, <1>3, <2>1 DEF Counted
  <2> QED
    BY <1>1, <1>2, <2>1, <2>2, CommitOwes
<1>5. CASE SubmitRests
  <2> DEFINE p == InsertPosition(book[b], tx.taker, b[2])
             own == InsertAt(book[b], p, tx.taker)
             events == Append(tx.events, UpsertEvent(tx.seq + 1, b, tx.taker))
  <2>1. Commit(tx.minted, own, events, tx.seq + 1)
    BY <1>5 DEF SubmitRests, BookInsertSorted
  <2>2. p \in 1..(Len(book[b]) + 1)
    BY <1>2, InsertPositionProperties
  <2> HIDE DEF p, events
  <2>3. own \in Seq(OrderEntry) /\ Locked(own) = Locked(book[b]) + tx.taker.remaining_in
    BY <1>2, <2>2, InsertAtProperties, LockedInsert
  <2> HIDE DEF own
  <2>4. \A a \in Asset :
           Worth(tx.minted, a) + Counted(a, GiveAsset(b), Locked(own))
             = Worth(tx.minted, a) + Counted(a, GiveAsset(b), Locked(book[b]))
                 + Counted(a, GiveAsset(b), tx.taker.remaining_in)
    BY <1>2, <1>3, <2>3 DEF Counted
  <2> QED
    BY <1>1, <1>2, <2>1, <2>3, <2>4, CommitOwes
<1>6. CASE SubmitReturns
  <2> DEFINE returned == Refund(b, tx.taker, tx.taker.output_owner_tag)
             events == tx.events \o NoteEvents(returned)
  <2>1. Commit(tx.minted \o returned, book[b], events, tx.seq)
    BY <1>6 DEF SubmitReturns
  <2>2. /\ returned \in Seq(Note)
        /\ \A a : Worth(returned, a) = Counted(a, GiveAsset(b), tx.taker.remaining_in)
    BY <1>2, RefundWorth
  <2> HIDE DEF returned, events
  <2>3. /\ tx.minted \o returned \in Seq(Note)
        /\ \A a : Worth(tx.minted \o returned, a) = Worth(tx.minted, a) + Worth(returned, a)
    BY <1>2, <2>2, WorthConcat, ConcatProperties
  <2>4. \A a \in Asset :
           Worth(tx.minted \o returned, a) + Counted(a, GiveAsset(b), Locked(book[b]))
             = Worth(tx.minted, a) + Counted(a, GiveAsset(b), Locked(book[b]))
                 + Counted(a, GiveAsset(b), tx.taker.remaining_in)
    BY <1>2, <1>3, <2>2, <2>3 DEF Counted
  <2> QED
    BY <1>1, <1>2, <2>1, <2>3, <2>4, CommitOwes
<1> QED
  BY <1>4, <1>5, <1>6

\* prune_expired removes an order: what it locked is what the note is worth.
LEMMA PruneRemovesConserves ==
  ASSUME TypeInv, PruneConserves, PruneRemoves
  PROVE  SubmitConserves' /\ PruneConserves'
<1> DEFINE b == tx.book_id
           e == tx.makers[tx.i]
           minted == Refund(b, e, e.output_owner_tag)
           rest == RemoveAt(tx.makers, tx.i)
<1>1. tx.op = "prune" /\ tx.i <= Len(tx.makers)
  BY DEF PruneRemoves, Pruning
<1>2. /\ tx \in PruneTx /\ b \in BookId /\ tx.makers \in Seq(OrderEntry)
      /\ tx.minted \in Seq(Note) /\ tx.i \in 1..Len(tx.makers)
  BY <1>1, PruneFields, LenProperties
<1>3. e \in OrderEntry /\ e.output_owner_tag \in Tag /\ e.remaining_in \in Nat
  BY <1>2, ElementOfSeq, OrderFields
<1>4. /\ tx'.op = "prune" /\ tx'.book_id = b /\ tx'.makers = rest
      /\ tx'.minted = tx.minted \o minted /\ book' = book
  BY <1>1, <1>2 DEF PruneRemoves, PruneTx, bookVars
<1>5. /\ Locked(tx.makers) = Locked(rest) + e.remaining_in
      /\ rest \in Seq(OrderEntry) /\ Locked(rest) \in Nat /\ Locked(tx.makers) \in Nat
  BY <1>2, LockedRemove, RemoveAtProperties, LockedType
<1>6. /\ minted \in Seq(Note)
      /\ \A a : Worth(minted, a) = Counted(a, GiveAsset(b), e.remaining_in)
  BY <1>2, <1>3, RefundWorth
<1> HIDE DEF e, minted, rest
<1>7. \A a : Worth(tx.minted \o minted, a) = Worth(tx.minted, a) + Worth(minted, a)
  BY <1>2, <1>6, WorthConcat
<1>8. \A a : Worth(tx.minted, a) \in Nat
  <2>1. DOMAIN tx.minted \in SUBSET DOMAIN tx.minted
    OBVIOUS
  <2> QED
    BY <1>2, <2>1, WorthTerms DEF Worth
<1>9. ASSUME NEW a \in Asset
      PROVE  Worth(tx'.minted, a) + Counted(a, GiveAsset(b), Locked(tx'.makers))
               = Worth(tx.minted, a) + Counted(a, GiveAsset(b), Locked(tx.makers))
  BY <1>3, <1>4, <1>5, <1>6, <1>7, <1>8 DEF Counted
<1> HIDE DEF b
<1>10. PruneConserves'
  BY <1>1, <1>4, <1>9 DEF PruneConserves, b
<1> QED
  BY <1>4, <1>10 DEF SubmitConserves

\* prune_expired ends.
LEMMA PruneReturnsOwes ==
  ASSUME TypeInv, PruneConserves, PruneReturns
  PROVE  OwedStays
<1> DEFINE b == tx.book_id
<1>1. /\ tx.op = "prune" /\ b \in BookId /\ tx.makers \in Seq(OrderEntry)
      /\ tx.minted \in Seq(Note)
  BY PruneFields DEF PruneReturns
<1>2. /\ Insert(tx.minted) /\ book' = [book EXCEPT ![b] = tx.makers] /\ consumed' = consumed
  BY DEF PruneReturns
<1>3. Turns({}, tx.minted)
  BY <1>1, <1>2 DEF Turns, Insert
<1>4. book[b] \in Seq(OrderEntry) /\ book \in [BookId -> Seq(OrderEntry)]
  BY <1>1 DEF TypeInv
<1>5. Locked(tx.makers) \in Nat /\ Locked(book[b]) \in Nat
  BY <1>1, <1>4, LockedType
<1>6. ASSUME NEW a \in Asset PROVE Owed(a)' = Owed(a)
  <2>1. NoteValue(a)' = NoteValue(a) + Worth(tx.minted, a)
    BY <1>3, MintsOnly
  <2>2. BookSum([book EXCEPT ![b] = tx.makers], a)
          = BookSum(book, a) - Counted(a, GiveAsset(b), Locked(book[b]))
              + Counted(a, GiveAsset(b), Locked(tx.makers))
    BY <1>1, <1>4, BookSumUpdate
  <2>3. Worth(tx.minted, a) + Counted(a, GiveAsset(b), Locked(tx.makers))
          = Counted(a, GiveAsset(b), Locked(book[b]))
    BY <1>1 DEF PruneConserves
  <2>4. Worth(tx.minted, a) \in Nat
    <3>1. DOMAIN tx.minted \in SUBSET DOMAIN tx.minted
      OBVIOUS
    <3> QED
      BY <1>1, <3>1, WorthTerms DEF Worth
  <2>5. /\ Counted(a, GiveAsset(b), Locked(book[b])) \in Nat
        /\ Counted(a, GiveAsset(b), Locked(tx.makers)) \in Nat
    BY <1>5 DEF Counted
  <2>6. /\ NoteValue(a) \in Nat /\ BookSum(book, a) \in Nat
        /\ Owed(a) = NoteValue(a) + BookSum(book, a)
        /\ Owed(a)' = NoteValue(a)' + BookSum(book', a)
    BY OwedParts, OwedPartsNext, OwedType
  <2> QED
    BY <1>2, <2>1, <2>2, <2>3, <2>4, <2>5, <2>6
<1> QED
  BY <1>6 DEF OwedStays

\* Nothing that the transaction has is touched.
LEMMA SkipConserves ==
  ASSUME TypeInv, SubmitConserves, PruneConserves, SkipMaker \/ PruneSkips
  PROVE  SubmitConserves' /\ PruneConserves'
<1>1. tx' = [tx EXCEPT !.i = @ + 1] /\ notes' = notes /\ book' = book
  BY DEF SkipMaker, PruneSkips, poolVars, bookVars
<1>2. tx \in SubmitTx \/ tx \in PruneTx
  BY SubmitFields, PruneFields DEF SkipMaker, PruneSkips, InLoop, Pruning
<1>3. /\ tx'.op = tx.op /\ tx'.book_id = tx.book_id /\ tx'.makers = tx.makers
      /\ tx'.minted = tx.minted
      /\ tx.op = "submit" => tx'.spends = tx.spends /\ tx'.taker = tx.taker
  BY <1>1, <1>2 DEF SubmitTx, PruneTx
<1> QED
  BY <1>1, <1>3 DEF SubmitConserves, PruneConserves

\* The steps of a transaction that change what is owed to nobody.
LEMMA TxStepOwes ==
  ASSUME ValueInv, TxStep
  PROVE  OwedStays /\ SubmitConserves' /\ PruneConserves'
<1> USE DEF ValueInv
<1>1. CASE SkipMaker \/ PruneSkips
  BY <1>1, SkipConserves, SameOwed DEF SkipMaker, PruneSkips, poolVars, bookVars
<1>2. CASE FillMaker
  BY <1>2, FillConserves, FillEffect, SameOwed DEF poolVars, bookVars
<1>3. CASE SubmitFilled \/ SubmitRests \/ SubmitReturns
  BY <1>3, SubmitEndsOwes, IdleConserves DEF SubmitFilled, SubmitRests, SubmitReturns, Commit
<1>4. CASE SubmitReverts \/ PruneReverts
  BY <1>4, IdleConserves, SameOwed DEF SubmitReverts, PruneReverts, poolVars, bookVars
<1>5. CASE PruneRemoves
  BY <1>5, PruneRemovesConserves, SameOwed DEF PruneRemoves, poolVars, bookVars
<1>6. CASE PruneReturns
  BY <1>6, PruneReturnsOwes, IdleConserves DEF PruneReturns
<1> QED
  BY <1>1, <1>2, <1>3, <1>4, <1>5, <1>6 DEF TxStep

\* The spends other than unshield.
LEMMA TradesInPool ==
  ASSUME ValueInv, Spend
  PROVE  \/ \E i \in DOMAIN notes : Unshield(i)
         \/ OwedStays /\ UNCHANGED <<custody, bridged, deposits>>
<1> USE DEF ValueInv
<1>1. ASSUME NEW i \in DOMAIN notes, NEW j \in DOMAIN notes, NEW s \in Tag, NEW t \in Tag,
             Swap(i, j, s, t)
      PROVE  OwedStays /\ UNCHANGED <<custody, bridged, deposits>>
  BY <1>1, SwapOwes DEF Swap, baseVars
<1>2. ASSUME NEW i \in DOMAIN notes, NEW j \in DOMAIN notes, NEW s \in Tag, NEW t \in Tag,
             NEW n \in 0..(notes[i].amount + notes[j].amount), Join(i, j, n, s, t)
      PROVE  OwedStays /\ UNCHANGED <<custody, bridged, deposits>>
  BY <1>2, JoinOwes DEF Join, JoinInto, baseVars
<1>3. ASSUME NEW i \in DOMAIN notes, NEW p \in Tag, NEW s \in Tag, NEW t \in Tag,
             NEW n \in 0..notes[i].amount, JoinPadded(i, p, n, s, t)
      PROVE  OwedStays /\ UNCHANGED <<custody, bridged, deposits>>
  BY <1>3, JoinPaddedOwes DEF JoinPadded, JoinInto, baseVars
<1> QED
  BY <1>1, <1>2, <1>3 DEF Spend, Settle, SettleExact

\* Nothing that a step outside a transaction with loops does concerns one.
LEMMA OutsideConserves ==
  ASSUME Deposit \/ Spend \/ Tick
  PROVE  SubmitConserves' /\ PruneConserves'
<1>1. CASE Deposit
  <2>1. tx' = Idle
    BY <1>1 DEF Deposit, Shield, ConfigureBaseBridge, AttestBaseBlock, ShieldFromBase
  <2> QED
    BY <2>1, IdleConserves
<1>2. CASE Spend
  <2>1. ASSUME NEW i \in DOMAIN notes, Unshield(i) PROVE tx' = Idle
    BY <2>1 DEF Unshield
  <2>2. ASSUME NEW i, NEW j, NEW s, NEW t, Swap(i, j, s, t) PROVE tx' = Idle
    BY <2>2 DEF Swap
  <2>3. ASSUME NEW i, NEW j, NEW n, NEW s, NEW t, Join(i, j, n, s, t) PROVE tx' = Idle
    BY <2>3 DEF Join, JoinInto
  <2>4. ASSUME NEW i, NEW p, NEW n, NEW s, NEW t, JoinPadded(i, p, n, s, t) PROVE tx' = Idle
    BY <2>4 DEF JoinPadded, JoinInto
  <2>5. tx' = Idle
    BY <1>2, <2>1, <2>2, <2>3, <2>4 DEF Spend, Settle, SettleExact
  <2> QED
    BY <2>5, IdleConserves
<1>3. CASE Tick
  <2>1. tx' = Idle
    BY <1>3 DEF Tick
  <2> QED
    BY <2>1, IdleConserves
<1> QED
  BY <1>1, <1>2, <1>3

\* Every step either is one of the three that bring value in or take it out, or
\* leaves custody, claims and debts as they are.
LEMMA NextOwes ==
  ASSUME ValueInv, [Next]_vars
  PROVE  /\ SubmitConserves' /\ PruneConserves'
         /\ \/ \E a \in Asset, n \in ShieldAmount, t \in Tag : Shield(a, n, t)
            \/ \E j \in Journal : ShieldFromBase(j)
            \/ \E i \in DOMAIN notes : Unshield(i)
            \/ OwedStays /\ UNCHANGED <<custody, bridged, deposits>>
<1> USE DEF ValueInv
<1>1. CASE Deposit
  <2>1. ASSUME NEW o \in BaseOrigin, ConfigureBaseBridge(o)
        PROVE  OwedStays /\ UNCHANGED <<custody, bridged, deposits>>
    BY <2>1, SameOwed DEF ConfigureBaseBridge, poolVars, bookVars
  <2>2. ASSUME NEW bl \in BaseBlock, AttestBaseBlock(bl[1], bl[2])
        PROVE  OwedStays /\ UNCHANGED <<custody, bridged, deposits>>
    BY <2>2, SameOwed DEF AttestBaseBlock, poolVars, bookVars
  <2> QED
    BY <1>1, <2>1, <2>2, OutsideConserves DEF Deposit
<1>2. CASE Spend
  BY <1>2, TradesInPool, OutsideConserves
<1>3. CASE Trade
  <2>1. ASSUME NEW i \in DOMAIN notes, NEW b \in BookId, NEW o \in Terms, SubmitOrder(i, b, o)
        PROVE  /\ SubmitConserves' /\ PruneConserves'
               /\ OwedStays /\ UNCHANGED <<custody, bridged, deposits>>
    BY <2>1, SubmitBegins, SameOwed DEF SubmitOrder, poolVars, bookVars, baseVars
  <2>2. ASSUME NEW b \in BookId, NEW t \in Tag, NEW k \in DOMAIN book[b], CancelOrder(b, k, t)
        PROVE  /\ SubmitConserves' /\ PruneConserves'
               /\ OwedStays /\ UNCHANGED <<custody, bridged, deposits>>
    BY <2>2, CancelOwes, IdleConserves DEF CancelOrder, baseVars
  <2>3. ASSUME NEW b \in BookId, NEW m \in PruneMax, PruneExpired(b, m)
        PROVE  /\ SubmitConserves' /\ PruneConserves'
               /\ OwedStays /\ UNCHANGED <<custody, bridged, deposits>>
    BY <2>3, PruneBegins, SameOwed DEF PruneExpired, poolVars, bookVars, baseVars
  <2> QED
    BY <1>3, <2>1, <2>2, <2>3 DEF Trade
<1>4. CASE TxStep
  <2>1. UNCHANGED <<custody, bridged, deposits>>
    BY <1>4 DEF TxStep, SkipMaker, FillMaker, SubmitFilled, SubmitRests, SubmitReturns,
       SubmitReverts, PruneSkips, PruneRemoves, PruneReturns, PruneReverts, Commit, baseVars
  <2> QED
    BY <1>4, <2>1, TxStepOwes
<1>5. CASE Tick
  BY <1>5, SameOwed, OutsideConserves DEF Tick, poolVars, bookVars, baseVars
<1>6. CASE UNCHANGED vars
  BY <1>6, SameOwed DEF vars, SubmitConserves, PruneConserves
<1> QED
  BY <1>1, <1>2, <1>3, <1>4, <1>5, <1>6 DEF Next

\* The invariant under which value is conserved.
LEMMA NextValue ==
  ASSUME ValueInv, [Next]_vars
  PROVE  ValueInv'
BY NextOwes, NextType, NextSpendsOnce DEF ValueInv

\* The invariant of conservation holds when the contract is deployed.
LEMMA InitValue == Init => ValueInv
<1> SUFFICES ASSUME Init PROVE ValueInv
  OBVIOUS
<1>1. SingleSpend
  BY DEF Init, SingleSpend
<1>2. tx.op = "idle"
  BY DEF Init, Idle
<1> QED
  BY <1>1, <1>2, InitType DEF ValueInv, SubmitConserves, PruneConserves

\* At the beginning nothing is owed.
LEMMA InitOwes == Init => \A a \in Asset : Owed(a) = 0
<1> SUFFICES ASSUME Init, NEW a \in Asset PROVE Owed(a) = 0
  OBVIOUS
<1>1. NoteValue(a) = 0
  <2>1. Unspent(a) = {}
    BY DEF Init, Unspent
  <2> QED
    BY <2>1, TotalEmpty DEF NoteValue
<1>2. BookValue(a) = 0
  <2> DEFINE S == {b \in BookId : GiveAsset(b) = a}
             f == [b \in BookId |-> Locked(book[b])]
  <2>1. \A b \in BookId : f[b] = 0
    BY LockedEmpty DEF Init
  <2>2. Units(f, S) = {}
    BY <2>1 DEF Units
  <2> QED
    BY <2>2, FS_EmptySet DEF BookValue, Total
<1> QED
  BY <1>1, <1>2 DEF Owed

\* A function that moves at one asset and nowhere else.
LEMMA MovesAt ==
  ASSUME NEW f, NEW g, NEW a \in Asset, NEW d \in Int,
         f \in [Asset -> Int], g \in [Asset -> Int],
         \A x \in Asset : g[x] = f[x] + Counted(x, a, d)
  PROVE  g = [f EXCEPT ![a] = @ + d]
BY DEF Counted

\* What a leaf is.
LEMMA NoteAt ==
  ASSUME TypeInv, NEW i \in DOMAIN notes
  PROVE  /\ notes[i].asset \in Asset
         /\ notes[i].amount \in Nat /\ notes[i].amount > 0
<1>1. notes[i] \in Note
  BY DEF TypeInv
<1> QED
  BY <1>1 DEF Note

\* The debts as a function.
OwedMap == [a \in Asset |-> Owed(a)]

\* The debts are natural numbers, in this state
LEMMA OwedMapType ==
  ASSUME TypeInv
  PROVE  OwedMap \in [Asset -> Int] /\ \A x \in Asset : OwedMap[x] = Owed(x) /\ Owed(x) \in Nat
BY OwedType DEF OwedMap

\* and, stated for priming, in any state that is well formed,
LEMMA OwedNat == TypeInv => \A x \in Asset : Owed(x) \in Nat
BY OwedType

\* so also in the next.
LEMMA OwedMapTypeNext ==
  ASSUME TypeInv'
  PROVE  OwedMap' \in [Asset -> Int] /\ \A x \in Asset : OwedMap'[x] = Owed(x)' /\ Owed(x)' \in Nat
<1>1. (\A x \in Asset : Owed(x) \in Nat)'
  BY OwedNat, PTL
<1> QED
  BY <1>1 DEF OwedMap

\* Debts that move by an amount in one asset, as a change to the function.
LEMMA OwedMoves ==
  ASSUME TypeInv, TypeInv', NEW a \in Asset, NEW d \in Int,
         \A x \in Asset : Owed(x)' = Owed(x) + Counted(x, a, d)
  PROVE  OwedMap' = [OwedMap EXCEPT ![a] = @ + d]
<1>1. /\ OwedMap \in [Asset -> Int] /\ OwedMap' \in [Asset -> Int]
      /\ \A x \in Asset : OwedMap'[x] = OwedMap[x] + Counted(x, a, d)
  BY OwedMapType, OwedMapTypeNext
<1> HIDE DEF OwedMap
<1>2. ASSUME NEW f, NEW g, f \in [Asset -> Int], g \in [Asset -> Int],
             \A x \in Asset : g[x] = f[x] + Counted(x, a, d)
      PROVE  g = [f EXCEPT ![a] = @ + d]
  BY <1>2, MovesAt
<1> QED
  BY <1>1, <1>2

\* Every step of the contract is a step of the vault, or none.
LEMMA NextIsVault ==
  ASSUME ValueInv, [Next]_vars
  PROVE  [VaultOfPool!VaultNext]_(VaultOfPool!vaultVars)
<1>1. /\ TypeInv /\ TypeInv' /\ SingleSpend
      /\ custody \in [Asset -> Nat] /\ bridged \in [Asset -> Nat]
      /\ custody' \in [Asset -> Nat] /\ bridged' \in [Asset -> Nat]
  BY NextValue DEF ValueInv, TypeInv
<1>2. ASSUME NEW a \in Asset, NEW n \in ShieldAmount, NEW t \in Tag, Shield(a, n, t)
      PROVE  VaultOfPool!Deposit(a, custody'[a] - custody[a])
  <2>1. /\ custody' = [custody EXCEPT ![a] = @ + n] /\ n \in Nat /\ n > 0
        /\ OnStellar(a) /\ UNCHANGED <<bridged, deposits>>
    BY <1>2, InputAssumption DEF Shield, OnStellar, baseVars
  <2>2. custody'[a] - custody[a] = n
    BY <1>1, <2>1
  <2>3. \A x \in Asset : Owed(x)' = Owed(x) + Counted(x, a, n)
    BY <1>1, <1>2, ShieldOwes
  <2>4. OwedMap' = [OwedMap EXCEPT ![a] = @ + n]
    BY <1>1, <2>1, <2>3, OwedMoves
  <2> QED
    BY <2>1, <2>2, <2>4 DEF VaultOfPool!Deposit, VaultOfPool!Moves, OwedMap
<1>3. ASSUME NEW j \in Journal, ShieldFromBase(j)
      PROVE  VaultOfPool!Claim(j.deposit_id, j.asset, bridged'[j.asset] - bridged[j.asset])
  <2> DEFINE a == j.asset
             n == j.amount
  <2>1. /\ bridged' = [bridged EXCEPT ![a] = @ + n] /\ a \in Asset /\ n \in Nat /\ n > 0
        /\ OnBase(a) /\ UNCHANGED custody
        /\ j.deposit_id \notin deposits /\ deposits' = deposits \cup {j.deposit_id}
    BY <1>3, JournalAssumption DEF ShieldFromBase, OnBase, JournalType
  <2>2. bridged'[a] - bridged[a] = n
    BY <1>1, <2>1
  <2>3. \A x \in Asset : Owed(x)' = Owed(x) + Counted(x, a, n)
    BY <1>1, <1>3, ClaimOwes
  <2>4. OwedMap' = [OwedMap EXCEPT ![a] = @ + n]
    <3> HIDE DEF a, n
    <3> QED
      BY <1>1, <2>1, <2>3, OwedMoves
  <2> QED
    BY <2>1, <2>2, <2>4 DEF VaultOfPool!Claim, VaultOfPool!Moves, OwedMap
<1>4. ASSUME NEW i \in DOMAIN notes, Unshield(i)
      PROVE  VaultOfPool!Withdraw(notes[i].asset,
                                  custody[notes[i].asset] - custody'[notes[i].asset])
  <2> DEFINE a == notes[i].asset
             n == notes[i].amount
  <2>1. /\ custody' = [custody EXCEPT ![a] = @ - n] /\ custody[a] >= n
        /\ OnStellar(a) /\ UNCHANGED <<bridged, deposits>>
    BY <1>4 DEF Unshield, OnStellar, baseVars
  <2>2. a \in Asset /\ n \in Nat /\ n > 0
    BY <1>1, <1>4, NoteAt
  <2>3. \A x \in Asset : Owed(x) = Owed(x)' + Counted(x, a, n)
    BY <1>1, <1>4, UnshieldOwes
  <2> HIDE DEF a, n
  <2>4. custody[a] - custody'[a] = n
    BY <1>1, <2>1, <2>2
  <2>8. custody' = [custody EXCEPT ![a] = @ + (-n)]
    <3>1. custody[a] - n = custody[a] + (-n)
      BY <1>1, <2>2
    <3> QED
      BY <2>1, <3>1
  <2>5. ASSUME NEW x \in Asset
        PROVE  Owed(x)' = Owed(x) + Counted(x, a, -n)
    BY <1>1, <2>2, <2>3, OwedMapType, OwedMapTypeNext DEF Counted
  <2>6. OwedMap' = [OwedMap EXCEPT ![a] = @ + (-n)]
    BY <1>1, <2>2, <2>5, OwedMoves
  <2>7. OwedMap[a] >= n
    BY <1>1, <2>2, <2>3, OwedMapType, OwedMapTypeNext DEF Counted
  <2>9. VaultOfPool!Withdraw(a, n)
    BY <2>1, <2>2, <2>4, <2>6, <2>7, <2>8 DEF VaultOfPool!Withdraw, VaultOfPool!Moves, OwedMap
  <2> QED
    BY <2>4, <2>9 DEF a, n
<1>5. ASSUME OwedStays, UNCHANGED <<custody, bridged, deposits>>
      PROVE  UNCHANGED VaultOfPool!vaultVars
  <2>1. OwedMap' = OwedMap
    BY <1>5 DEF OwedMap, OwedStays
  <2> QED
    BY <1>5, <2>1 DEF VaultOfPool!vaultVars, OwedMap
<1>6. CASE \E a \in Asset, n \in ShieldAmount, t \in Tag : Shield(a, n, t)
  BY <1>6, <1>2 DEF VaultOfPool!VaultNext
<1>7. CASE \E j \in Journal : ShieldFromBase(j)
  <2>1. PICK j \in Journal : ShieldFromBase(j)
    BY <1>7
  <2>2. j.asset \in Asset /\ j.deposit_id \in {k.deposit_id : k \in Journal}
    BY JournalAssumption DEF JournalType
  <2> QED
    BY <1>3, <2>1, <2>2 DEF VaultOfPool!VaultNext
<1>8. CASE \E i \in DOMAIN notes : Unshield(i)
  <2>1. \A i \in DOMAIN notes : notes[i].asset \in Asset
    BY <1>1, NoteAt
  <2> QED
    BY <1>8, <1>4, <2>1 DEF VaultOfPool!VaultNext
<1> QED
  BY <1>5, <1>6, <1>7, <1>8, NextOwes

\* The contract is deployed as an empty vault.
LEMMA InitVault == Init => VaultOfPool!VaultInit
BY InitOwes DEF Init, VaultOfPool!VaultInit

\* The pool is the vault it promises to be.
THEOREM PoolStaysVault == Spec => PoolIsVault
<1>1. Spec => []ValueInv
  BY InitValue, NextValue, PTL DEF Spec
<1> QED
  BY <1>1, InitVault, NextIsVault, PTL DEF Spec, PoolIsVault, VaultOfPool!VaultSpec

\* Each step of the vault moves debts as it moves what backs them.
LEMMA VaultBacks ==
  ASSUME TypeInv, TypeInv', Backing, [VaultOfPool!VaultNext]_(VaultOfPool!vaultVars)
  PROVE  Backing'
<1>1. /\ custody \in [Asset -> Nat] /\ bridged \in [Asset -> Nat]
      /\ custody' \in [Asset -> Nat] /\ bridged' \in [Asset -> Nat]
  BY DEF TypeInv
<1>2. /\ \A x \in Asset : OwedMap[x] = Owed(x) /\ OwedMap'[x] = Owed(x)'
      /\ OwedMap \in [Asset -> Int] /\ OwedMap' \in [Asset -> Int]
  BY OwedMapType, OwedMapTypeNext
<1>3. \A x \in Asset : /\ OwedMap[x] = custody[x] + bridged[x]
                       /\ Kind[x] = "Stellar" => bridged[x] = 0
                       /\ Kind[x] = "BaseRepresented" => custody[x] = 0
  BY <1>2 DEF Backing
<1>4. SUFFICES \A x \in Asset : /\ OwedMap'[x] = custody'[x] + bridged'[x]
                                /\ Kind[x] = "Stellar" => bridged'[x] = 0
                                /\ Kind[x] = "BaseRepresented" => custody'[x] = 0
  BY <1>2 DEF Backing
<1>5. CASE UNCHANGED VaultOfPool!vaultVars
  <2>1. OwedMap' = OwedMap /\ UNCHANGED <<custody, bridged>>
    BY <1>5 DEF VaultOfPool!vaultVars, OwedMap
  <2> QED
    BY <1>3, <2>1
<1>6. ASSUME NEW a \in Asset, NEW n, n = custody'[a] - custody[a], VaultOfPool!Deposit(a, n)
      PROVE  \A x \in Asset : /\ OwedMap'[x] = custody'[x] + bridged'[x]
                              /\ Kind[x] = "Stellar" => bridged'[x] = 0
                              /\ Kind[x] = "BaseRepresented" => custody'[x] = 0
  <2>1. /\ OwedMap' = [OwedMap EXCEPT ![a] = @ + n]
        /\ custody' = [custody EXCEPT ![a] = @ + n]
        /\ bridged' = bridged /\ Kind[a] # "BaseRepresented"
    BY <1>6 DEF VaultOfPool!Deposit, VaultOfPool!Moves, OwedMap, OnStellar
  <2> QED
    BY <1>1, <1>2, <1>3, <1>6, <2>1
<1>7. ASSUME NEW a \in Asset, NEW n, n = bridged'[a] - bridged[a], NEW d,
             VaultOfPool!Claim(d, a, n)
      PROVE  \A x \in Asset : /\ OwedMap'[x] = custody'[x] + bridged'[x]
                              /\ Kind[x] = "Stellar" => bridged'[x] = 0
                              /\ Kind[x] = "BaseRepresented" => custody'[x] = 0
  <2>1. /\ OwedMap' = [OwedMap EXCEPT ![a] = @ + n]
        /\ bridged' = [bridged EXCEPT ![a] = @ + n]
        /\ custody' = custody /\ Kind[a] # "Stellar"
    BY <1>7 DEF VaultOfPool!Claim, VaultOfPool!Moves, OwedMap, OnBase
  <2> QED
    BY <1>1, <1>2, <1>3, <1>7, <2>1
<1>8. ASSUME NEW a \in Asset, NEW n, n = custody[a] - custody'[a], VaultOfPool!Withdraw(a, n)
      PROVE  \A x \in Asset : /\ OwedMap'[x] = custody'[x] + bridged'[x]
                              /\ Kind[x] = "Stellar" => bridged'[x] = 0
                              /\ Kind[x] = "BaseRepresented" => custody'[x] = 0
  <2>1. /\ OwedMap' = [OwedMap EXCEPT ![a] = @ + (-n)]
        /\ custody' = [custody EXCEPT ![a] = @ + (-n)]
        /\ bridged' = bridged /\ Kind[a] # "BaseRepresented"
    BY <1>8 DEF VaultOfPool!Withdraw, VaultOfPool!Moves, OwedMap, OnStellar
  <2> QED
    BY <1>1, <1>2, <1>3, <1>8, <2>1
<1> QED
  BY <1>5, <1>6, <1>7, <1>8 DEF VaultOfPool!VaultNext

\* Value is conserved.
THEOREM ValueConserved == Spec => []Backing
<1>1. Init => Backing
  <2>1. Init => \A a \in Asset : custody[a] = 0 /\ bridged[a] = 0
    BY DEF Init
  <2> QED
    BY <2>1, InitOwes DEF Backing
<1>2. ValueInv /\ Backing /\ [Next]_vars => (ValueInv /\ Backing)'
  <2> SUFFICES ASSUME ValueInv, Backing, [Next]_vars PROVE ValueInv' /\ Backing'
    OBVIOUS
  <2>1. ValueInv' /\ TypeInv /\ TypeInv'
    BY NextValue DEF ValueInv
  <2> QED
    BY <2>1, NextIsVault, VaultBacks
<1> QED
  BY <1>1, <1>2, InitValue, PTL DEF Spec
-----------------------------------------------------------------------------
(***************************************************************************)
(* Trading: what a fill, a cancel and a prune leave of a book side.        *)
(***************************************************************************)

\* Every order of the side has an id of its own.
OwnIds(orders) ==
  \A k, l \in DOMAIN orders : orders[k].order_id = orders[l].order_id => k = l

\* e is the order d, of which something is left.
SameOrder(e, d) ==
  /\ e.order_id = d.order_id /\ e.amount_in = d.amount_in /\ e.min_out = d.min_out
  /\ e.output_owner_tag = d.output_owner_tag /\ e.cancel_owner_tag = d.cancel_owner_tag
  /\ e.expiry = d.expiry /\ e.partial_allowed = d.partial_allowed
  /\ e.remaining_in \in 1..d.remaining_in

\* The orders of s are orders of t, and in the same order.
Thins(s, t) ==
  /\ \A k \in DOMAIN s : \E p \in DOMAIN t : SameOrder(s[k], t[p])
  /\ \A k, l \in DOMAIN s, p, q \in DOMAIN t :
       s[k].order_id = t[p].order_id /\ s[l].order_id = t[q].order_id /\ k < l => p < q

\* What a side whose orders have something left is to itself.
LEMMA ThinsSelf ==
  ASSUME NEW s \in Seq(OrderEntry), OwnIds(s),
         \A k \in DOMAIN s : s[k].remaining_in > 0
  PROVE  Thins(s, s)
<1>1. \A k \in DOMAIN s : SameOrder(s[k], s[k])
  <2>1. \A k \in DOMAIN s : s[k].remaining_in \in 1..s[k].remaining_in
    BY ElementOfSeq, LenProperties, OrderFields
  <2> QED
    BY <2>1 DEF SameOrder
<1> QED
  BY <1>1 DEF Thins, OwnIds

\* Ids stay apart.
LEMMA ThinsOwnIds ==
  ASSUME NEW s \in Seq(OrderEntry), NEW t \in Seq(OrderEntry), Thins(s, t)
  PROVE  OwnIds(s)
<1> SUFFICES ASSUME NEW k \in DOMAIN s, NEW l \in DOMAIN s,
                    s[k].order_id = s[l].order_id, k # l
             PROVE  FALSE
  BY DEF OwnIds
<1>1. PICK p \in DOMAIN t : s[k].order_id = t[p].order_id
  BY DEF Thins, SameOrder
<1>2. k \in Nat /\ l \in Nat /\ p \in Nat
  BY LenProperties
<1>3. (k < l => p < p) /\ (l < k => p < p)
  BY <1>1 DEF Thins
<1> QED
  BY <1>2, <1>3

\* Taking an order out.
LEMMA ThinsRemove ==
  ASSUME NEW s \in Seq(OrderEntry), NEW t \in Seq(OrderEntry), Thins(s, t),
         NEW i \in 1..Len(s)
  PROVE  Thins(RemoveAt(s, i), t)
<1> DEFINE r == RemoveAt(s, i)
           at(k) == IF k < i THEN k ELSE k + 1
<1>1. /\ r \in Seq(OrderEntry) /\ Len(r) = Len(s) - 1
      /\ \A k \in 1..(Len(s) - 1) : r[k] = IF k < i THEN s[k] ELSE s[k + 1]
  BY RemoveAtProperties
<1>2. Len(s) \in Nat /\ DOMAIN s = 1..Len(s) /\ DOMAIN r = 1..(Len(s) - 1)
  BY <1>1, LenProperties
<1>3. /\ \A k \in DOMAIN r : at(k) \in DOMAIN s /\ r[k] = s[at(k)]
      /\ \A k, l \in DOMAIN r : k < l => at(k) < at(l)
  BY <1>1, <1>2
<1> HIDE DEF r, at
<1>4. \A k \in DOMAIN r : \E p \in DOMAIN t : SameOrder(r[k], t[p])
  BY <1>3 DEF Thins
<1>5. \A k, l \in DOMAIN r, p, q \in DOMAIN t :
        r[k].order_id = t[p].order_id /\ r[l].order_id = t[q].order_id /\ k < l => p < q
  BY <1>3 DEF Thins
<1> QED
  BY <1>4, <1>5 DEF Thins, r

\* Taking something from an order.
LEMMA ThinsUpdate ==
  ASSUME NEW s \in Seq(OrderEntry), NEW t \in Seq(OrderEntry), Thins(s, t),
         NEW i \in 1..Len(s), NEW e \in OrderEntry, SameOrder(e, s[i])
  PROVE  Thins([s EXCEPT ![i] = e], t)
<1> DEFINE r == [s EXCEPT ![i] = e]
<1>1. /\ DOMAIN r = DOMAIN s /\ i \in DOMAIN s
      /\ \A k \in DOMAIN s : r[k] = IF k = i THEN e ELSE s[k]
  BY LenProperties
<1> HIDE DEF r
<1>2. \A k \in DOMAIN r : r[k].order_id = s[k].order_id
  BY <1>1 DEF SameOrder
<1>3. ASSUME NEW k \in DOMAIN r PROVE \E p \in DOMAIN t : SameOrder(r[k], t[p])
  <2>1. PICK p \in DOMAIN t : SameOrder(s[k], t[p])
    BY <1>1 DEF Thins
  <2>2. CASE k # i
    BY <1>1, <2>1, <2>2
  <2>3. CASE k = i
    <3>1. s[i].remaining_in \in Nat /\ t[p].remaining_in \in Nat /\ e.remaining_in \in Nat
      BY <1>1, ElementOfSeq, LenProperties, OrderFields
    <3>2. e.remaining_in \in 1..t[p].remaining_in
      BY <2>1, <2>3, <3>1 DEF SameOrder
    <3>3. SameOrder(e, t[p])
      BY <2>1, <2>3, <3>2 DEF SameOrder
    <3> QED
      BY <1>1, <2>3, <3>3
  <2> QED
    BY <2>2, <2>3
<1> QED
  BY <1>1, <1>2, <1>3 DEF Thins, r

\* Where an order is, when ids are apart.
LEMMA PositionOf ==
  ASSUME NEW s, OwnIds(s), NEW k \in DOMAIN s, NEW id, s[k].order_id = id
  PROVE  Rested(s, id) /\ Position(s, id) = k /\ RemainingOf(s, id) = s[k].remaining_in
<1>1. Rested(s, id)
  BY DEF Rested
<1>2. Position(s, id) = k
  BY DEF Position, OwnIds
<1> QED
  BY <1>1, <1>2 DEF RemainingOf

\* An order that no entry names does not rest.
LEMMA NotRested ==
  ASSUME NEW s, NEW id, \A k \in DOMAIN s : s[k].order_id # id
  PROVE  ~Rested(s, id) /\ RemainingOf(s, id) = 0
BY DEF Rested, RemainingOf

\* What there is of each order when one has been taken out.
LEMMA RemainingRemove ==
  ASSUME NEW s \in Seq(OrderEntry), OwnIds(s), NEW i \in 1..Len(s), NEW id
  PROVE  LET r == RemoveAt(s, i) IN
         /\ OwnIds(r)
         /\ id = s[i].order_id => ~Rested(r, id) /\ RemainingOf(r, id) = 0
         /\ id # s[i].order_id =>
              (Rested(r, id) <=> Rested(s, id)) /\ RemainingOf(r, id) = RemainingOf(s, id)
<1> DEFINE r == RemoveAt(s, i)
           at(k) == IF k < i THEN k ELSE k + 1
           from(k) == IF k < i THEN k ELSE k - 1
<1>1. /\ r \in Seq(OrderEntry) /\ Len(r) = Len(s) - 1
      /\ \A k \in 1..(Len(s) - 1) : r[k] = IF k < i THEN s[k] ELSE s[k + 1]
  BY RemoveAtProperties
<1>2. Len(s) \in Nat /\ DOMAIN s = 1..Len(s) /\ DOMAIN r = 1..(Len(s) - 1)
  BY <1>1, LenProperties
<1>3. /\ \A k \in DOMAIN r : at(k) \in DOMAIN s /\ at(k) # i /\ r[k] = s[at(k)]
      /\ \A k, l \in DOMAIN r : at(k) = at(l) => k = l
      /\ \A k \in DOMAIN s : k # i => from(k) \in DOMAIN r /\ r[from(k)] = s[k]
  BY <1>1, <1>2
<1>4. i \in DOMAIN s
  BY <1>2
<1> HIDE DEF r, at, from
<1>5. OwnIds(r)
  BY <1>3 DEF OwnIds
<1>6. ASSUME id = s[i].order_id PROVE ~Rested(r, id) /\ RemainingOf(r, id) = 0
  <2>1. \A k \in DOMAIN r : r[k].order_id # id
    BY <1>3, <1>4, <1>6 DEF OwnIds
  <2> QED
    BY <2>1, NotRested
<1>7. ASSUME id # s[i].order_id
      PROVE  (Rested(r, id) <=> Rested(s, id)) /\ RemainingOf(r, id) = RemainingOf(s, id)
  <2>1. CASE \E k \in DOMAIN s : s[k].order_id = id
    <3>1. PICK k \in DOMAIN s : s[k].order_id = id
      BY <2>1
    <3>2. from(k) \in DOMAIN r /\ r[from(k)] = s[k]
      BY <1>3, <1>7, <3>1
    <3> QED
      BY <1>5, <3>1, <3>2, PositionOf
  <2>2. CASE \A k \in DOMAIN s : s[k].order_id # id
    <3>1. \A k \in DOMAIN r : r[k].order_id # id
      BY <1>3, <2>2
    <3> QED
      BY <2>2, <3>1, NotRested
  <2> QED
    BY <2>1, <2>2
<1> QED
  BY <1>5, <1>6, <1>7 DEF r

\* What there is of each order when something of one has been taken.
LEMMA RemainingUpdate ==
  ASSUME NEW s \in Seq(OrderEntry), OwnIds(s), NEW i \in 1..Len(s),
         NEW e, e.order_id = s[i].order_id, NEW id
  PROVE  LET r == [s EXCEPT ![i] = e] IN
         /\ OwnIds(r)
         /\ Rested(r, id) <=> Rested(s, id)
         /\ RemainingOf(r, id) = IF id = s[i].order_id THEN e.remaining_in
                                 ELSE RemainingOf(s, id)
<1> DEFINE r == [s EXCEPT ![i] = e]
<1>1. /\ DOMAIN r = DOMAIN s /\ i \in DOMAIN s
      /\ \A k \in DOMAIN s : r[k] = IF k = i THEN e ELSE s[k]
  BY LenProperties
<1> HIDE DEF r
<1>2. \A k \in DOMAIN r : r[k].order_id = s[k].order_id
  BY <1>1
<1>3. OwnIds(r)
  BY <1>1, <1>2 DEF OwnIds
<1>4. CASE \E k \in DOMAIN s : s[k].order_id = id
  <2>1. PICK k \in DOMAIN s : s[k].order_id = id
    BY <1>4
  <2>2. /\ Rested(s, id) /\ RemainingOf(s, id) = s[k].remaining_in
        /\ Rested(r, id) /\ RemainingOf(r, id) = r[k].remaining_in
    BY <1>1, <1>2, <1>3, <2>1, PositionOf
  <2>3. id = s[i].order_id <=> k = i
    BY <1>1, <2>1 DEF OwnIds
  <2> QED
    BY <1>1, <1>3, <2>2, <2>3 DEF r
<1>5. CASE \A k \in DOMAIN s : s[k].order_id # id
  <2>1. \A k \in DOMAIN r : r[k].order_id # id
    BY <1>1, <1>2, <1>5
  <2>2. id # s[i].order_id
    BY <1>1, <1>5
  <2> QED
    BY <1>3, <1>5, <2>1, <2>2, NotRested DEF r
<1> QED
  BY <1>4, <1>5

-----------------------------------------------------------------------------
(***************************************************************************)
(* The inductive invariant of the book.                                    *)
(***************************************************************************)

\* What the running transaction has of the side that it rewrites, and of the
\* order that it brings.
MakersThin == tx # Idle => Thins(tx.makers, book[WorkedSide])
TakerInv ==
  tx.op = "submit" =>
    /\ tx.taker.remaining_in <= tx.taker.amount_in
    /\ tx.taker.expiry >= clock

BookParts == BookInv /\ MakersThin /\ TakerInv
TradeInv == TypeInv /\ TxInv /\ SingleSpend /\ BookSorted /\ MakersSorted /\ BookParts

\* A book side has no two orders of one id and none with nothing left.
LEMMA BookSide ==
  ASSUME TypeInv, BookInv, NEW b \in BookId
  PROVE  /\ book[b] \in Seq(OrderEntry) /\ OwnIds(book[b])
         /\ \A k \in DOMAIN book[b] : /\ book[b][k] \in OrderEntry
                                      /\ book[b][k].remaining_in \in 1..book[b][k].amount_in
                                      /\ book[b][k].remaining_in > 0
                                      /\ book[b][k].partial_allowed
                                      /\ book[b][k].order_id \in nullifiers
         /\ Thins(book[b], book[b])
<1>1. book[b] \in Seq(OrderEntry) /\ OwnIds(book[b])
  BY DEF TypeInv, BookInv, OwnIds
<1>2. \A k \in DOMAIN book[b] : book[b][k] \in OrderEntry
  BY <1>1, ElementOfSeq, LenProperties
<1>3. \A k \in DOMAIN book[b] : /\ book[b][k].remaining_in \in 1..book[b][k].amount_in
                                /\ book[b][k].remaining_in > 0
                                /\ book[b][k].partial_allowed
                                /\ book[b][k].order_id \in nullifiers
  BY <1>2, OrderFields DEF BookInv
<1> QED
  BY <1>1, <1>2, <1>3, ThinsSelf

\* Sides that lose orders or parts of orders keep what BookInv says.
LEMMA ThinsBookInv ==
  ASSUME TypeInv, TypeInv', BookInv, nullifiers \subseteq nullifiers',
         \A b \in BookId : Thins(book'[b], book[b])
  PROVE  BookInv'
<1>1. ASSUME NEW b \in BookId, NEW k \in DOMAIN book'[b]
      PROVE  /\ book'[b][k].order_id \in nullifiers'
             /\ book'[b][k].remaining_in \in 1..book'[b][k].amount_in
             /\ book'[b][k].partial_allowed
  <2>1. PICK p \in DOMAIN book[b] : SameOrder(book'[b][k], book[b][p])
    BY <1>1 DEF Thins
  <2>2. book[b][p].remaining_in \in Nat /\ book[b][p].amount_in \in Nat
    BY BookSide, OrderFields
  <2>3. book'[b][k].remaining_in \in 1..book'[b][k].amount_in
    BY <2>1, <2>2, BookSide DEF SameOrder
  <2> QED
    BY <2>1, <2>3, BookSide DEF SameOrder
<1>2. ASSUME NEW b \in BookId, NEW c \in BookId, NEW k \in DOMAIN book'[b],
             NEW l \in DOMAIN book'[c], book'[b][k].order_id = book'[c][l].order_id
      PROVE  b = c /\ k = l
  <2>1. PICK p \in DOMAIN book[b] : book[b][p].order_id = book'[b][k].order_id
    BY <1>2 DEF Thins, SameOrder
  <2>2. PICK q \in DOMAIN book[c] : book[c][q].order_id = book'[c][l].order_id
    BY <1>2 DEF Thins, SameOrder
  <2>3. b = c
    BY <1>2, <2>1, <2>2 DEF BookInv
  <2>4. OwnIds(book'[b])
    BY BookSide, ThinsOwnIds DEF TypeInv
  <2> QED
    BY <1>2, <2>3, <2>4 DEF OwnIds
<1> QED
  BY <1>1, <1>2 DEF BookInv

\* A side with one order more.
LEMMA InsertOrder ==
  ASSUME NEW s \in Seq(OrderEntry), NEW e \in OrderEntry, NEW p \in 1..(Len(s) + 1),
         NEW r, r = InsertAt(s, p, e)
  PROVE  /\ Len(s) \in Nat /\ DOMAIN s = 1..Len(s) /\ DOMAIN r = 1..(Len(s) + 1)
         /\ \A k \in 1..(Len(s) + 1) :
              r[k] = IF k < p THEN s[k] ELSE IF k = p THEN e ELSE s[k - 1]
<1>1. /\ r \in Seq(OrderEntry) /\ Len(r) = Len(s) + 1
      /\ \A k \in 1..(Len(s) + 1) :
           r[k] = IF k < p THEN s[k] ELSE IF k = p THEN e ELSE s[k - 1]
  <2>1. r \in Seq(OrderEntry) /\ IsInsertion(r, s, p, e)
    BY InsertAtInserts
  <2> QED
    BY <2>1 DEF IsInsertion
<1> QED
  BY <1>1, LenProperties

\* So do they when a new order rests.
LEMMA RestsBookInv ==
  ASSUME TypeInv, TypeInv', BookInv, nullifiers \subseteq nullifiers',
         NEW b \in BookId, NEW e \in OrderEntry, NEW p \in 1..(Len(book[b]) + 1),
         book'[b] = InsertAt(book[b], p, e),
         e.order_id \notin nullifiers, e.order_id \in nullifiers',
         e.remaining_in \in 1..e.amount_in, e.partial_allowed,
         \A c \in BookId \ {b} : Thins(book'[c], book[c])
  PROVE  BookInv'
<1> DEFINE from(k) == IF k < p THEN k ELSE k - 1
<1>1. /\ Len(book[b]) \in Nat /\ DOMAIN book[b] = 1..Len(book[b])
      /\ DOMAIN book'[b] = 1..(Len(book[b]) + 1)
      /\ \A k \in 1..(Len(book[b]) + 1) :
           book'[b][k] = IF k < p THEN book[b][k] ELSE IF k = p THEN e ELSE book[b][k - 1]
  <2>1. book[b] \in Seq(OrderEntry) /\ book'[b] \in Seq(OrderEntry)
    BY DEF TypeInv
  <2> QED
    BY <2>1, InsertOrder
<1>2. /\ p \in DOMAIN book'[b] /\ book'[b][p] = e
      /\ \A k \in DOMAIN book'[b] :
           k # p => from(k) \in DOMAIN book[b] /\ book'[b][k] = book[b][from(k)]
      /\ \A k, l \in DOMAIN book'[b] : k # p /\ l # p /\ from(k) = from(l) => k = l
  BY <1>1
<1> HIDE DEF from
<1>3. ASSUME NEW c \in BookId, NEW k \in DOMAIN book'[c]
      PROVE  \/ /\ c = b /\ k = p /\ book'[c][k] = e
             \/ /\ \E q \in DOMAIN book[c] : SameOrder(book'[c][k], book[c][q])
                /\ c # b \/ k # p
  <2>1. CASE c # b
    BY <2>1, <1>3 DEF Thins
  <2>2. CASE c = b /\ k # p
    <3>1. SameOrder(book[b][from(k)], book[b][from(k)])
      <4>1. book[b][from(k)].remaining_in \in 1..book[b][from(k)].remaining_in
        BY <2>2, <1>2, <1>3, BookSide, OrderFields
      <4> QED
        BY <4>1 DEF SameOrder
    <3> QED
      BY <2>2, <3>1, <1>2, <1>3
  <2> QED
    BY <2>1, <2>2, <1>2
<1>4. ASSUME NEW c \in BookId, NEW k \in DOMAIN book'[c]
      PROVE  /\ book'[c][k].order_id \in nullifiers'
             /\ book'[c][k].remaining_in \in 1..book'[c][k].amount_in
             /\ book'[c][k].partial_allowed
  <2>1. CASE book'[c][k] = e
    BY <2>1
  <2>2. CASE \E q \in DOMAIN book[c] : SameOrder(book'[c][k], book[c][q])
    <3>1. PICK q \in DOMAIN book[c] : SameOrder(book'[c][k], book[c][q])
      BY <2>2
    <3>2. book[c][q].remaining_in \in Nat /\ book[c][q].amount_in \in Nat
      BY BookSide, OrderFields
    <3>3. book'[c][k].remaining_in \in 1..book'[c][k].amount_in
      BY <3>1, <3>2, BookSide DEF SameOrder
    <3> QED
      BY <3>1, <3>3, BookSide DEF SameOrder
  <2> QED
    BY <1>3, <1>4, <2>1, <2>2
<1>5. ASSUME NEW c \in BookId, NEW q \in DOMAIN book[c]
      PROVE  book[c][q].order_id # e.order_id
  BY <1>5, BookSide
<1>6. ASSUME NEW c \in BookId, NEW d \in BookId, NEW k \in DOMAIN book'[c],
             NEW l \in DOMAIN book'[d], book'[c][k].order_id = book'[d][l].order_id
      PROVE  c = d /\ k = l
  <2>1. CASE c = b /\ k = p
    <3>1. book'[d][l].order_id = e.order_id
      BY <1>2, <1>6, <2>1
    <3>2. d = b /\ l = p
      BY <1>3, <1>5, <1>6, <3>1 DEF SameOrder
    <3> QED
      BY <2>1, <3>2
  <2>2. CASE d = b /\ l = p
    <3>1. book'[c][k].order_id = e.order_id
      BY <1>2, <1>6, <2>2
    <3>2. c = b /\ k = p
      BY <1>3, <1>5, <1>6, <3>1 DEF SameOrder
    <3> QED
      BY <2>2, <3>2
  <2>3. CASE ~(c = b /\ k = p) /\ ~(d = b /\ l = p)
    <3>1. PICK q \in DOMAIN book[c] : book[c][q].order_id = book'[c][k].order_id
      BY <1>3, <1>6, <2>3 DEF SameOrder
    <3>2. PICK r \in DOMAIN book[d] : book[d][r].order_id = book'[d][l].order_id
      BY <1>3, <1>6, <2>3 DEF SameOrder
    <3>3. c = d
      BY <1>6, <3>1, <3>2 DEF BookInv
    <3>4. CASE c # b
      <4>1. OwnIds(book'[c])
        BY <3>4, BookSide, ThinsOwnIds DEF TypeInv
      <4> QED
        BY <1>6, <3>3, <4>1 DEF OwnIds
    <3>5. CASE c = b
      <4>1. k # p /\ l # p
        BY <2>3, <3>3, <3>5
      <4>2. book[b][from(k)].order_id = book[b][from(l)].order_id
        BY <1>2, <1>6, <3>3, <3>5, <4>1
      <4>3. from(k) = from(l)
        BY <1>2, <1>6, <3>3, <3>5, <4>1, <4>2, BookSide DEF OwnIds
      <4> QED
        BY <1>2, <1>6, <3>3, <3>5, <4>1, <4>3
    <3> QED
      BY <3>4, <3>5
  <2> QED
    BY <2>1, <2>2, <2>3
<1> QED
  BY <1>4, <1>6 DEF BookInv

-----------------------------------------------------------------------------
(***************************************************************************)
(* The steps, by what they do to the book.                                 *)
(***************************************************************************)

\* The notes that enter the tree are published in their order.
Publishes == \E ms \in Seq(Note) : notes' = notes \o ms /\ emitted' = NoteEvents(ms)

\* Nothing to either, or a note is spent or minted; time stands while a
\* transaction runs.
Quiet ==
  /\ book' = book /\ tx' = tx /\ nullifiers \subseteq nullifiers' /\ NotesKept
  /\ tx = Idle \/ (clock' = clock /\ notes' = notes)
  /\ bookSeq' = bookSeq /\ (notes' = notes \/ Publishes)

\* A transaction takes its copy of a side.
Begins ==
  /\ book' = book /\ nullifiers' = nullifiers /\ notes' = notes /\ clock' = clock
  /\ bookSeq' = bookSeq
  /\ tx = Idle /\ tx' # Idle /\ tx'.op \in {"submit", "prune"} /\ tx'.book_id \in BookId
  /\ tx'.makers = book[IF tx'.op = "submit" THEN OtherSide(tx'.book_id) ELSE tx'.book_id]
  /\ tx'.i = 1 /\ tx'.minted = <<>> /\ tx'.events = <<>> /\ tx'.seq = bookSeq
  /\ tx'.op = "submit" =>
       /\ tx'.taker \in OrderEntry
       /\ tx'.taker.remaining_in = tx'.taker.amount_in /\ tx'.taker.expiry >= clock

\* A transaction ends and has done nothing.
Reverts == UNCHANGED <<poolVars, bookVars, clock, emitted>> /\ tx # Idle /\ tx' = Idle

\* A transaction passes an order.
Passes ==
  /\ UNCHANGED <<poolVars, bookVars, clock, emitted>>
  /\ tx # Idle /\ tx' # Idle /\ tx'.op = tx.op /\ tx'.book_id = tx.book_id
  /\ tx'.makers = tx.makers
  /\ tx'.minted = tx.minted /\ tx'.events = tx.events /\ tx'.seq = tx.seq
  /\ tx'.i = tx.i + 1
  /\ tx.op = "submit" => tx'.taker = tx.taker /\ tx'.spends = tx.spends

\* A maker or an order that the loop passes over.
LEMMA PassesStep ==
  ASSUME TypeInv, SkipMaker \/ PruneSkips
  PROVE  Passes
<1>1. /\ tx' = [tx EXCEPT !.i = @ + 1] /\ tx.op \in {"submit", "prune"}
      /\ UNCHANGED <<poolVars, bookVars, clock, emitted>>
  BY DEF SkipMaker, PruneSkips, InLoop, Pruning
<1>2. CASE tx.op = "submit"
  <2>1. tx \in SubmitTx /\ tx # Idle
    BY <1>2, SubmitFields
  <2>2. tx'.op = "submit"
    BY <1>1, <1>2, <2>1 DEF SubmitTx
  <2>3. tx' # Idle
    BY <2>2 DEF Idle
  <2> QED
    BY <1>1, <1>2, <2>1, <2>3 DEF SubmitTx, Passes
<1>3. CASE tx.op = "prune"
  <2>1. tx \in PruneTx /\ tx # Idle
    BY <1>3, PruneFields
  <2>2. tx'.op = "prune"
    BY <1>1, <1>3, <2>1 DEF PruneTx
  <2>3. tx' # Idle
    BY <2>2 DEF Idle
  <2> QED
    BY <1>1, <1>3, <2>1, <2>3 DEF PruneTx, Passes
<1> QED
  BY <1>1, <1>2, <1>3

\* prune_expired takes an order out.
Doomed == tx.makers[tx.i]
DoomedMints == Refund(tx.book_id, Doomed, Doomed.output_owner_tag)
Dooms ==
  /\ UNCHANGED <<poolVars, bookVars, clock, emitted>>
  /\ tx # Idle /\ tx.op = "prune" /\ tx.i \in 1..Len(tx.makers)
  /\ tx.book_id \in BookId /\ tx.makers \in Seq(OrderEntry) /\ tx.minted \in Seq(Note)
  /\ Doomed \in OrderEntry /\ Expired(Doomed) /\ DoomedMints \in Seq(Note)
  /\ tx' # Idle /\ tx'.op = "prune" /\ tx'.book_id = tx.book_id /\ tx'.i = tx.i
  /\ tx'.makers = RemoveAt(tx.makers, tx.i)
  /\ tx'.minted = tx.minted \o DoomedMints /\ tx'.seq = tx.seq + 1
  /\ tx'.events = tx.events \o NoteEvents(DoomedMints)
                    \o <<RemoveEvent(tx.seq + 1, tx.book_id, Doomed.order_id, REMOVE_EXPIRED)>>

\* prune_expired removes an expired order.
LEMMA DoomsStep == ASSUME TypeInv, PruneRemoves PROVE Dooms
<1>1. tx.op = "prune" /\ tx.i <= Len(tx.makers) /\ Expired(Doomed)
  BY DEF PruneRemoves, Pruning, Doomed
<1>2. /\ tx \in PruneTx /\ tx # Idle /\ tx.book_id \in BookId /\ tx.i \in Nat \ {0}
      /\ tx.makers \in Seq(OrderEntry) /\ tx.minted \in Seq(Note)
  BY <1>1, PruneFields
<1>3. tx.i \in 1..Len(tx.makers) /\ Doomed \in OrderEntry
  BY <1>1, <1>2, LenProperties, ElementOfSeq DEF Doomed
<1>4. DoomedMints \in Seq(Note)
  BY <1>2, <1>3, OrderFields, RefundType DEF DoomedMints
<1>5. /\ tx'.op = "prune" /\ tx'.book_id = tx.book_id /\ tx'.i = tx.i
      /\ tx'.makers = RemoveAt(tx.makers, tx.i)
      /\ tx'.minted = tx.minted \o DoomedMints /\ tx'.seq = tx.seq + 1
      /\ tx'.events = tx.events \o NoteEvents(DoomedMints)
                        \o <<RemoveEvent(tx.seq + 1, tx.book_id, Doomed.order_id,
                                         REMOVE_EXPIRED)>>
  BY <1>1, <1>2 DEF PruneRemoves, PruneTx, Doomed, DoomedMints
<1>6. tx' # Idle
  BY <1>5 DEF Idle
<1>7. UNCHANGED <<poolVars, bookVars, clock, emitted>>
  BY DEF PruneRemoves
<1> QED
  BY <1>1, <1>2, <1>3, <1>4, <1>5, <1>6, <1>7 DEF Dooms

\* A transaction stores what it has made of the side that it rewrites and, at
\* the end of submit_order, of the side of its own order.
Stores(minted, own) ==
  /\ tx # Idle /\ tx' = Idle /\ clock' = clock
  /\ notes' = notes \o minted /\ minted \in Seq(Note)
  /\ \A c \in BookId : book'[c] = IF c = WorkedSide THEN tx.makers
                                  ELSE IF c = tx.book_id THEN own ELSE book[c]
  /\ tx.book_id \in BookId /\ WorkedSide \in BookId
  /\ \/ tx.op = "submit" /\ tx.book_id # WorkedSide
     \/ tx.op = "prune" /\ tx.book_id = WorkedSide /\ own = tx.makers
  /\ nullifiers \subseteq nullifiers'

\* What the end of submit_order stores.
LEMMA CommitStores ==
  ASSUME TypeInv, tx.op = "submit", NEW minted \in Seq(Note), NEW own, NEW events, NEW seq,
         Commit(minted, own, events, seq)
  PROVE  /\ Stores(minted, own) /\ nullifiers' = nullifiers \cup {notes[tx.spends].owner_tag}
         /\ bookSeq' = seq /\ emitted' = events
<1>1. /\ tx # Idle /\ tx.book_id \in BookId
      /\ OtherSide(tx.book_id) \in BookId /\ OtherSide(tx.book_id) # tx.book_id
  BY SubmitFields, SideTypes
<1>2. /\ book' = [book EXCEPT ![OtherSide(tx.book_id)] = tx.makers, ![tx.book_id] = own]
      /\ tx' = Idle /\ clock' = clock /\ notes' = notes \o minted
      /\ nullifiers' = nullifiers \cup {notes[tx.spends].owner_tag}
      /\ bookSeq' = seq /\ emitted' = events
  BY DEF Commit, Insert, Consume
<1>3. WorkedSide = OtherSide(tx.book_id)
  BY DEF WorkedSide
<1>4. \A c \in BookId : book'[c] = IF c = WorkedSide THEN tx.makers
                                   ELSE IF c = tx.book_id THEN own ELSE book[c]
  <2>1. book \in [BookId -> Seq(OrderEntry)]
    BY DEF TypeInv
  <2> QED
    BY <1>1, <1>2, <1>3, <2>1
<1> QED
  BY <1>1, <1>2, <1>3, <1>4 DEF Stores

\* What the end of prune_expired stores.
LEMMA PruneStores ==
  ASSUME TypeInv, PruneReturns
  PROVE  /\ Stores(tx.minted, tx.makers) /\ nullifiers' = nullifiers
         /\ bookSeq' = tx.seq /\ emitted' = tx.events
<1>1. /\ tx.op = "prune" /\ tx' = Idle /\ clock' = clock /\ notes' = notes \o tx.minted
      /\ book' = [book EXCEPT ![tx.book_id] = tx.makers] /\ nullifiers' = nullifiers
      /\ bookSeq' = tx.seq /\ emitted' = tx.events
  BY DEF PruneReturns, Insert
<1>2. tx # Idle /\ tx.book_id \in BookId /\ tx.minted \in Seq(Note)
  BY <1>1, PruneFields
<1>3. WorkedSide = tx.book_id
  BY <1>1 DEF WorkedSide
<1>4. \A c \in BookId : book'[c] = IF c = tx.book_id THEN tx.makers ELSE book[c]
  BY <1>1, <1>2 DEF TypeInv
<1> QED
  BY <1>1, <1>2, <1>3, <1>4 DEF Stores

\* What is minted for the taker's remainder if that does not rest.
Returned == Refund(tx.book_id, tx.taker, tx.taker.output_owner_tag)
OwnAfter == BookInsertSorted(book[tx.book_id], tx.taker, tx.book_id[2])

\* The three ways in which a submit_order succeeds, and that of a prune.
LEMMA EndSteps ==
  ASSUME TypeInv, SubmitFilled \/ SubmitRests \/ SubmitReturns \/ PruneReturns
  PROVE  \/ /\ Stores(tx.minted, book[tx.book_id]) /\ LoopDone /\ tx.taker.remaining_in = 0
            /\ emitted' = tx.events /\ bookSeq' = tx.seq
         \/ /\ Stores(tx.minted, OwnAfter) /\ LoopDone /\ tx.taker.remaining_in > 0
            /\ tx.taker.partial_allowed
            /\ nullifiers' = nullifiers \cup {notes[tx.spends].owner_tag}
            /\ emitted' = Append(tx.events, UpsertEvent(tx.seq + 1, tx.book_id, tx.taker))
            /\ bookSeq' = tx.seq + 1
         \/ /\ Stores(tx.minted \o Returned, book[tx.book_id]) /\ LoopDone
            /\ emitted' = tx.events \o NoteEvents(Returned) /\ bookSeq' = tx.seq
         \/ /\ Stores(tx.minted, tx.makers) /\ tx.op = "prune"
            /\ emitted' = tx.events /\ bookSeq' = tx.seq
<1>1. CASE SubmitFilled
  <2>1. LoopDone /\ tx.taker.remaining_in = 0 /\ tx.op = "submit"
    BY <1>1 DEF SubmitFilled, LoopDone
  <2>2. tx.minted \in Seq(Note)
    BY <2>1, SubmitFields
  <2>3. Commit(tx.minted, book[tx.book_id], tx.events, tx.seq)
    BY <1>1 DEF SubmitFilled
  <2> QED
    BY <2>1, <2>2, <2>3, CommitStores
<1>2. CASE SubmitRests
  <2>1. LoopDone /\ tx.taker.remaining_in > 0 /\ tx.taker.partial_allowed /\ tx.op = "submit"
    BY <1>2 DEF SubmitRests, LoopDone
  <2>2. tx.minted \in Seq(Note)
    BY <2>1, SubmitFields
  <2>3. Commit(tx.minted, OwnAfter,
               Append(tx.events, UpsertEvent(tx.seq + 1, tx.book_id, tx.taker)), tx.seq + 1)
    BY <1>2 DEF SubmitRests, OwnAfter
  <2> QED
    BY <2>1, <2>2, <2>3, CommitStores
<1>3. CASE SubmitReturns
  <2>1. LoopDone /\ tx.op = "submit"
    BY <1>3 DEF SubmitReturns, LoopDone
  <2>2. tx.minted \o Returned \in Seq(Note)
    <3>1. tx.minted \in Seq(Note) /\ tx.taker \in OrderEntry /\ tx.book_id \in BookId
      BY <2>1, SubmitFields
    <3>2. Returned \in Seq(Note)
      BY <3>1, OrderFields, RefundType DEF Returned
    <3> QED
      BY <3>1, <3>2, ConcatProperties
  <2>3. Commit(tx.minted \o Returned, book[tx.book_id], tx.events \o NoteEvents(Returned), tx.seq)
    BY <1>3 DEF SubmitReturns, Returned
  <2> QED
    BY <2>1, <2>2, <2>3, CommitStores
<1>4. CASE PruneReturns
  BY <1>4, PruneStores DEF PruneReturns
<1> QED
  BY <1>1, <1>2, <1>3, <1>4

\* An action outside the book publishes the notes that it mints, in order.
LEMMA PublishesOne ==
  ASSUME NEW n \in Note, Insert(<<n>>), emitted' = <<NoteEvent(n)>>
  PROVE  Publishes
<1>1. NoteEvents(<<n>>) = <<NoteEvent(n)>>
  BY DEF NoteEvents
<1>2. <<n>> \in Seq(Note)
  OBVIOUS
<1> QED
  BY <1>1, <1>2 DEF Publishes, Insert

\* A deposit publishes its note.
LEMMA DepositPublishes ==
  ASSUME Deposit
  PROVE  notes' = notes \/ Publishes
<1>1. ASSUME NEW a \in Asset, NEW n \in ShieldAmount, NEW t \in Tag, Shield(a, n, t)
      PROVE  Publishes
  <2>1. MakeNote(a, n, t) \in Note
    BY InputAssumption DEF MakeNote, Note
  <2> QED
    BY <1>1, <2>1, PublishesOne DEF Shield
<1>2. ASSUME NEW j \in Journal, ShieldFromBase(j)
      PROVE  Publishes
  <2>1. MakeNote(j.asset, j.amount, j.owner_tag) \in Note
    BY <1>2, JournalAssumption DEF MakeNote, Note, JournalType, ShieldFromBase
  <2> QED
    BY <1>2, <2>1, PublishesOne DEF ShieldFromBase
<1>3. ASSUME NEW o, ConfigureBaseBridge(o) PROVE notes' = notes
  BY <1>3 DEF ConfigureBaseBridge, poolVars
<1>4. ASSUME NEW n, NEW h, AttestBaseBlock(n, h) PROVE notes' = notes
  BY <1>4 DEF AttestBaseBlock, poolVars
<1> QED
  BY <1>1, <1>2, <1>3, <1>4 DEF Deposit

\* A spend outside the book publishes its notes.
LEMMA SpendPublishes ==
  ASSUME TypeInv, Spend
  PROVE  notes' = notes \/ Publishes
<1>1. ASSUME NEW i \in DOMAIN notes, NEW j \in DOMAIN notes, NEW s \in Tag, NEW t \in Tag,
             Swap(i, j, s, t)
      PROVE  Publishes
  <2> DEFINE p == MakeNote(notes[j].asset, notes[j].amount, s)
             q == MakeNote(notes[i].asset, notes[i].amount, t)
  <2>1. p \in Note /\ q \in Note
    BY NoteFields DEF TypeInv, MakeNote, Note
  <2>2. Insert(<<p, q>>) /\ emitted' = NoteEvents(<<p, q>>)
    BY <1>1 DEF Swap
  <2> HIDE DEF p, q
  <2> QED
    BY <2>1, <2>2, WorthTwo DEF Publishes, Insert
<1>2. ASSUME NEW asset \in Asset, NEW total \in Nat, NEW n, NEW s \in Tag, NEW t \in Tag,
             JoinInto(asset, total, n, s, t)
      PROVE  Publishes
  <2> DEFINE minted == MintNote(asset, n, s) \o MintNote(asset, total - n, t)
  <2>1. n \in 0..total
    BY <1>2 DEF JoinInto
  <2>2. minted \in Seq(Note)
    BY <2>1, JoinMints
  <2>3. Insert(minted) /\ emitted' = NoteEvents(minted)
    BY <1>2 DEF JoinInto
  <2> HIDE DEF minted
  <2> QED
    BY <2>2, <2>3 DEF Publishes, Insert
<1>3. ASSUME NEW i \in DOMAIN notes, NEW j \in DOMAIN notes, NEW n, NEW s \in Tag, NEW t \in Tag,
             Join(i, j, n, s, t)
      PROVE  Publishes
  <2>1. notes[i].asset \in Asset /\ notes[i].amount + notes[j].amount \in Nat
    BY NoteFields DEF TypeInv
  <2> QED
    BY <1>2, <1>3, <2>1 DEF Join
<1>4. ASSUME NEW i \in DOMAIN notes, NEW p, NEW n, NEW s \in Tag, NEW t \in Tag,
             JoinPadded(i, p, n, s, t)
      PROVE  Publishes
  <2>1. notes[i].asset \in Asset /\ notes[i].amount \in Nat
    BY NoteFields DEF TypeInv
  <2> QED
    BY <1>2, <1>4, <2>1 DEF JoinPadded
<1>5. ASSUME NEW i, Unshield(i) PROVE notes' = notes
  BY <1>5 DEF Unshield
<1> QED
  BY <1>1, <1>3, <1>4, <1>5 DEF Spend, Settle, SettleExact

\* Every step is one of these.
LEMMA TradeSteps ==
  ASSUME TypeInv, TxInv, [Next]_vars
  PROVE  \/ Quiet \/ Begins \/ Reverts
         \/ /\ Passes
            /\ SkipMaker \/ PruneSkips
         \/ FillMaker \/ Dooms
         \/ SubmitFilled \/ SubmitRests \/ SubmitReturns \/ PruneReturns
         \/ \E b \in BookId, t \in Tag : \E k \in DOMAIN book[b] : CancelOrder(b, k, t)
<1>1. NotesKept
  BY NextType
<1>2. CASE Deposit
  BY <1>1, <1>2, DepositPublishes DEF Quiet, Deposit, Shield, ConfigureBaseBridge,
     AttestBaseBlock, ShieldFromBase, bookVars, poolVars
<1>3. CASE Spend
  <2>0. notes' = notes \/ Publishes
    BY <1>3, SpendPublishes
  <2>1. ASSUME NEW i, Unshield(i) PROVE Quiet
    BY <1>1, <2>1 DEF Quiet, Unshield, Consume, bookVars
  <2>2. ASSUME NEW i, NEW j, NEW s, NEW t, Swap(i, j, s, t) PROVE Quiet
    BY <1>1, <2>0, <2>2 DEF Quiet, Swap, Consume, bookVars
  <2>3. ASSUME NEW i, NEW j, NEW n, NEW s, NEW t, Join(i, j, n, s, t) PROVE Quiet
    BY <1>1, <2>0, <2>3 DEF Quiet, Join, JoinInto, Consume, bookVars
  <2>4. ASSUME NEW i, NEW p, NEW n, NEW s, NEW t, JoinPadded(i, p, n, s, t) PROVE Quiet
    BY <1>1, <2>0, <2>4 DEF Quiet, JoinPadded, JoinInto, bookVars
  <2> QED
    BY <1>3, <2>1, <2>2, <2>3, <2>4 DEF Spend, Settle, SettleExact
<1>4. CASE Trade
  <2>1. ASSUME NEW i \in DOMAIN notes, NEW b \in BookId, NEW o \in Terms, SubmitOrder(i, b, o)
        PROVE  Begins
    <3>1. /\ book' = book /\ nullifiers' = nullifiers /\ notes' = notes /\ clock' = clock
          /\ bookSeq' = bookSeq /\ tx = Idle
      BY <2>1 DEF SubmitOrder, bookVars, poolVars
    <3>2. /\ tx'.op = "submit" /\ tx'.book_id = b /\ tx'.makers = book[OtherSide(b)]
          /\ tx'.i = 1 /\ tx'.minted = <<>> /\ tx'.events = <<>> /\ tx'.seq = bookSeq
          /\ tx'.taker.remaining_in = tx'.taker.amount_in /\ tx'.taker.expiry >= clock
      BY <2>1 DEF SubmitOrder
    <3>3. tx' # Idle
      BY <3>2 DEF Idle
    <3>4. tx'.taker \in OrderEntry
      <4>1. TypeInv'
        BY <2>1, SubmitOrderType
      <4>2. tx' \in SubmitTx
        BY <3>2, <4>1 DEF TypeInv, Idle, PruneTx
      <4> QED
        BY <4>2 DEF SubmitTx
    <3> QED
      BY <3>1, <3>2, <3>3, <3>4 DEF Begins
  <2>2. ASSUME NEW b \in BookId, NEW m \in PruneMax, PruneExpired(b, m)
        PROVE  Begins
    <3>1. /\ book' = book /\ nullifiers' = nullifiers /\ notes' = notes /\ clock' = clock
          /\ bookSeq' = bookSeq /\ tx = Idle
      BY <2>2 DEF PruneExpired, bookVars, poolVars
    <3>2. /\ tx'.op = "prune" /\ tx'.book_id = b /\ tx'.makers = book[b]
          /\ tx'.i = 1 /\ tx'.minted = <<>> /\ tx'.events = <<>> /\ tx'.seq = bookSeq
      BY <2>2 DEF PruneExpired
    <3>3. tx' # Idle
      BY <3>2 DEF Idle
    <3> QED
      BY <3>1, <3>2, <3>3 DEF Begins
  <2> QED
    BY <1>4, <2>1, <2>2 DEF Trade
<1>5. CASE TxStep
  <2>1. CASE SubmitReverts
    BY <2>1, SubmitFields DEF SubmitReverts, Reverts, LoopDone
  <2>2. CASE PruneReverts
    BY <2>2, PruneFields DEF PruneReverts, Reverts
  <2> QED
    BY <1>5, <2>1, <2>2, PassesStep, DoomsStep DEF TxStep
<1>6. CASE Tick
  BY <1>1, <1>6 DEF Quiet, Tick, poolVars, bookVars
<1>7. CASE UNCHANGED vars
  BY <1>1, <1>7 DEF Quiet, vars
<1> QED
  BY <1>2, <1>3, <1>4, <1>5, <1>6, <1>7 DEF Next

-----------------------------------------------------------------------------
(***************************************************************************)
(* The book: every resting order is backed.                                *)
(***************************************************************************)

\* The running transaction's copy has orders of the side it was taken from.
LEMMA MakerOf ==
  ASSUME TypeInv, BookInv, MakersThin, tx # Idle
  PROVE  /\ WorkedSide \in BookId /\ tx.makers \in Seq(OrderEntry)
         /\ book[WorkedSide] \in Seq(OrderEntry)
         /\ Thins(tx.makers, book[WorkedSide]) /\ OwnIds(tx.makers)
         /\ \A k \in DOMAIN tx.makers :
              /\ tx.makers[k] \in OrderEntry
              /\ \E p \in DOMAIN book[WorkedSide] :
                   SameOrder(tx.makers[k], book[WorkedSide][p])
<1>1. tx.op = "submit" \/ tx.op = "prune"
  BY DEF TypeInv, SubmitTx, PruneTx
<1>2. tx.book_id \in BookId /\ tx.makers \in Seq(OrderEntry)
  BY <1>1, SubmitFields, PruneFields
<1>3. WorkedSide \in BookId
  BY <1>2, SideTypes DEF WorkedSide
<1>4. book[WorkedSide] \in Seq(OrderEntry) /\ Thins(tx.makers, book[WorkedSide])
  BY <1>3 DEF TypeInv, MakersThin
<1>5. OwnIds(tx.makers)
  BY <1>2, <1>4, ThinsOwnIds
<1>6. \A k \in DOMAIN tx.makers : tx.makers[k] \in OrderEntry
  BY <1>2, ElementOfSeq, LenProperties
<1> QED
  BY <1>2, <1>3, <1>4, <1>5, <1>6 DEF Thins

\* The maker after a fill is the maker, as long as something is left of it.
LEMMA FillSame ==
  ASSUME TypeInv, FillMaker, MakerAfter.remaining_in # 0
  PROVE  SameOrder(MakerAfter, Maker)
<1>1. /\ Maker \in OrderEntry /\ MakerAfter \in OrderEntry
      /\ Gives \in 0..Maker.remaining_in
      /\ MakerAfter.remaining_in = Maker.remaining_in - Gives
  BY FillFields
<1>2. MakerAfter.remaining_in \in 1..Maker.remaining_in
  BY <1>1, OrderFields
<1>3. \E r : MakerAfter = [Maker EXCEPT !.remaining_in = r]
  BY DEF MakerAfter
<1> QED
  BY <1>1, <1>2, <1>3 DEF SameOrder, OrderEntry

\* A fill thins the copy of the opposing side.
LEMMA FillThins ==
  ASSUME TypeInv, BookInv, MakersThin, FillMaker
  PROVE  Thins(MakersAfter, book[WorkedSide])
<1>1. /\ tx # Idle /\ tx.i \in 1..Len(tx.makers) /\ Maker = tx.makers[tx.i]
      /\ MakerAfter \in OrderEntry
  BY FillFields, SubmitFields DEF Maker
<1>2. /\ tx.makers \in Seq(OrderEntry) /\ book[WorkedSide] \in Seq(OrderEntry)
      /\ Thins(tx.makers, book[WorkedSide])
  BY <1>1, MakerOf
<1>3. Thins(RemoveAt(tx.makers, tx.i), book[WorkedSide])
  BY <1>1, <1>2, ThinsRemove
<1>4. MakerAfter.remaining_in # 0 =>
        Thins([tx.makers EXCEPT ![tx.i] = MakerAfter], book[WorkedSide])
  BY <1>1, <1>2, FillSame, ThinsUpdate
<1> QED
  BY <1>3, <1>4 DEF MakersAfter

\* While the same transaction runs.
LEMMA PartsStay ==
  ASSUME BookInv, book' = book, nullifiers \subseteq nullifiers'
  PROVE  BookInv'
BY DEF BookInv

\* BookParts is kept by a step outside the book,
LEMMA QuietParts ==
  ASSUME BookParts, Quiet
  PROVE  BookParts'
<1>1. BookInv' /\ MakersThin'
  BY PartsStay DEF Quiet, BookParts, MakersThin, WorkedSide
<1>2. TakerInv'
  BY DEF Quiet, BookParts, TakerInv, Idle
<1> QED
  BY <1>1, <1>2 DEF BookParts

\* by the start of a transaction,
LEMMA BeginsParts ==
  ASSUME TypeInv, BookParts, Begins
  PROVE  BookParts'
<1>1. BookInv'
  BY PartsStay DEF Begins, BookParts
<1>2. MakersThin'
  <2>1. /\ tx'.book_id \in BookId /\ OtherSide(tx'.book_id) \in BookId
        /\ tx'.makers = book'[WorkedSide']
    BY SideTypes DEF Begins, WorkedSide
  <2>2. WorkedSide' \in BookId
    BY <2>1 DEF WorkedSide
  <2>3. Thins(book[WorkedSide'], book[WorkedSide'])
    BY <2>2, BookSide DEF BookParts
  <2> QED
    BY <2>1, <2>3 DEF MakersThin, Begins
<1>3. TakerInv'
  BY OrderFields DEF Begins, TakerInv
<1> QED
  BY <1>1, <1>2, <1>3 DEF BookParts

\* by its end, if the stored book is well formed,
LEMMA EndsParts ==
  ASSUME BookInv', tx' = Idle
  PROVE  BookParts'
BY DEF BookParts, MakersThin, TakerInv, Idle

\* by a fill,
LEMMA FillParts ==
  ASSUME TypeInv, BookParts, FillMaker
  PROVE  BookParts'
<1>1. /\ book' = book /\ nullifiers' = nullifiers /\ clock' = clock
      /\ tx.op = "submit" /\ tx'.op = "submit" /\ tx'.book_id = tx.book_id
      /\ tx'.makers = MakersAfter /\ tx'.taker = TakerAfter
  BY FillEffect, FillFields DEF bookVars, poolVars
<1>2. BookInv'
  BY <1>1, PartsStay DEF BookParts
<1>3. MakersThin'
  BY <1>1, FillThins DEF BookParts, MakersThin, WorkedSide
<1>4. TakerInv'
  <2>1. /\ tx.taker \in OrderEntry /\ TakerAfter \in OrderEntry
        /\ Pays \in 0..tx.taker.remaining_in
        /\ TakerAfter.remaining_in = tx.taker.remaining_in - Pays
    BY <1>1, SubmitFields, FillFields
  <2>2. TakerAfter.amount_in = tx.taker.amount_in /\ TakerAfter.expiry = tx.taker.expiry
    BY <2>1 DEF TakerAfter, OrderEntry
  <2> QED
    BY <1>1, <2>1, <2>2, OrderFields DEF TakerInv, BookParts
<1> QED
  BY <1>2, <1>3, <1>4 DEF BookParts

\* by the removal of an expired order,
LEMMA DoomsParts ==
  ASSUME TypeInv, BookParts, Dooms
  PROVE  BookParts'
<1>1. /\ book' = book /\ nullifiers' = nullifiers
      /\ tx # Idle /\ tx.op = "prune" /\ tx'.op = "prune" /\ tx'.book_id = tx.book_id
      /\ tx'.makers = RemoveAt(tx.makers, tx.i) /\ tx.i \in 1..Len(tx.makers)
  BY DEF Dooms, bookVars, poolVars
<1>2. BookInv'
  BY <1>1, PartsStay DEF BookParts
<1>3. Thins(RemoveAt(tx.makers, tx.i), book[WorkedSide])
  BY <1>1, MakerOf, ThinsRemove DEF BookParts
<1> QED
  BY <1>1, <1>2, <1>3 DEF BookParts, MakersThin, TakerInv, WorkedSide

\* by a maker that is passed over,
LEMMA PassesParts ==
  ASSUME BookParts, Passes
  PROVE  BookParts'
<1>1. BookInv'
  BY PartsStay DEF Passes, BookParts, bookVars, poolVars
<1>2. MakersThin' /\ TakerInv'
  BY DEF Passes, BookParts, MakersThin, TakerInv, WorkedSide, bookVars
<1> QED
  BY <1>1, <1>2 DEF BookParts

\* A transaction that stores the copy and leaves its own side as it was.
LEMMA StoresThins ==
  ASSUME TypeInv, BookParts, NEW minted, NEW own, Stores(minted, own),
         own = book[tx.book_id] \/ tx.op = "prune"
  PROVE  \A c \in BookId : Thins(book'[c], book[c])
<1>1. Thins(tx.makers, book[WorkedSide])
  BY MakerOf DEF BookParts, Stores
<1>2. \A c \in BookId : Thins(book[c], book[c])
  BY BookSide DEF BookParts
<1> QED
  BY <1>1, <1>2 DEF Stores

\* The taker, when it rests.
LEMMA TakerRests ==
  ASSUME TypeInv, TxInv, BookParts, tx.op = "submit", tx.taker.remaining_in > 0
  PROVE  LET p == InsertPosition(book[tx.book_id], tx.taker, tx.book_id[2]) IN
         /\ tx.taker \in OrderEntry /\ p \in 1..(Len(book[tx.book_id]) + 1)
         /\ OwnAfter = InsertAt(book[tx.book_id], p, tx.taker)
         /\ tx.taker.order_id \notin nullifiers
         /\ tx.taker.order_id = notes[tx.spends].owner_tag
         /\ tx.taker.remaining_in \in 1..tx.taker.amount_in
<1>1. tx # Idle /\ tx.taker \in OrderEntry /\ tx.book_id \in BookId
  BY SubmitFields
<1>2. book[tx.book_id] \in Seq(OrderEntry)
  BY <1>1 DEF TypeInv
<1>3. /\ tx.taker.order_id \notin nullifiers
      /\ tx.taker.order_id = notes[tx.spends].owner_tag
  BY <1>1 DEF TxInv, Spendable
<1>4. tx.taker.remaining_in \in 1..tx.taker.amount_in
  BY <1>1, OrderFields DEF BookParts, TakerInv
<1>5. InsertPosition(book[tx.book_id], tx.taker, tx.book_id[2]) \in 1..(Len(book[tx.book_id]) + 1)
  BY <1>2, InsertPositionProperties
<1> QED
  BY <1>1, <1>3, <1>4, <1>5 DEF OwnAfter, BookInsertSorted

\* and by what the end of a transaction stores.
LEMMA EndParts ==
  ASSUME TypeInv, TypeInv', TxInv, BookParts,
         SubmitFilled \/ SubmitRests \/ SubmitReturns \/ PruneReturns
  PROVE  BookParts'
<1>1. ASSUME NEW minted, NEW own, Stores(minted, own),
             own = book[tx.book_id] \/ tx.op = "prune"
      PROVE  BookParts'
  <2>1. BookInv'
    BY <1>1, StoresThins, ThinsBookInv DEF BookParts, Stores
  <2> QED
    BY <1>1, <2>1, EndsParts DEF Stores
<1>2. ASSUME Stores(tx.minted, OwnAfter), LoopDone, tx.taker.remaining_in > 0,
             tx.taker.partial_allowed,
             nullifiers' = nullifiers \cup {notes[tx.spends].owner_tag}
      PROVE  BookParts'
  <2>1. tx.op = "submit"
    BY <1>2 DEF LoopDone
  <2> DEFINE p == InsertPosition(book[tx.book_id], tx.taker, tx.book_id[2])
  <2>2. /\ tx.taker \in OrderEntry /\ p \in 1..(Len(book[tx.book_id]) + 1)
        /\ OwnAfter = InsertAt(book[tx.book_id], p, tx.taker)
        /\ tx.taker.order_id \notin nullifiers /\ tx.taker.order_id \in nullifiers'
        /\ tx.taker.remaining_in \in 1..tx.taker.amount_in
    BY <1>2, <2>1, TakerRests
  <2> HIDE DEF p
  <2>3. tx.book_id \in BookId /\ book'[tx.book_id] = InsertAt(book[tx.book_id], p, tx.taker)
    BY <1>2, <2>1, <2>2 DEF Stores
  <2>4. \A c \in BookId \ {tx.book_id} : Thins(book'[c], book[c])
    <3>1. Thins(tx.makers, book[WorkedSide])
      BY <1>2, MakerOf DEF BookParts, Stores
    <3>2. \A c \in BookId : Thins(book[c], book[c])
      BY BookSide DEF BookParts
    <3> QED
      BY <1>2, <3>1, <3>2 DEF Stores
  <2>5. BookInv'
    BY <1>2, <2>2, <2>3, <2>4, RestsBookInv DEF BookParts
  <2> QED
    BY <1>2, <2>5, EndsParts DEF Stores
<1> QED
  BY <1>1, <1>2, EndSteps

\* A cancelled order leaves its side.
LEMMA CancelStep ==
  ASSUME TypeInv, NEW b \in BookId, NEW t \in Tag, NEW k \in DOMAIN book[b],
         CancelOrder(b, k, t)
  PROVE  /\ k \in 1..Len(book[b]) /\ book[b] \in Seq(OrderEntry) /\ book[b][k] \in OrderEntry
         /\ tx = Idle /\ tx' = Idle /\ nullifiers' = nullifiers /\ clock' = clock
         /\ notes' = notes \o Refund(b, book[b][k], t) /\ Refund(b, book[b][k], t) \in Seq(Note)
         /\ \A c \in BookId : book'[c] = IF c = b THEN RemoveAt(book[b], k) ELSE book[c]
<1>1. book[b] \in Seq(OrderEntry) /\ k \in 1..Len(book[b]) /\ book[b][k] \in OrderEntry
  BY ElementOfSeq, LenProperties DEF TypeInv
<1>2. /\ tx = Idle /\ tx' = Idle /\ nullifiers' = nullifiers /\ clock' = clock
      /\ notes' = notes \o Refund(b, book[b][k], t)
      /\ book' = [book EXCEPT ![b] = RemoveAt(@, k)]
  BY DEF CancelOrder, Insert
<1>3. \A c \in BookId : book'[c] = IF c = b THEN RemoveAt(book[b], k) ELSE book[c]
  BY <1>2 DEF TypeInv
<1>4. Refund(b, book[b][k], t) \in Seq(Note)
  BY <1>1, RefundType
<1> QED
  BY <1>1, <1>2, <1>3, <1>4

\* A cancel thins its side and no other.
LEMMA CancelThins ==
  ASSUME TypeInv, BookInv, NEW b \in BookId, NEW t \in Tag, NEW k \in DOMAIN book[b],
         CancelOrder(b, k, t)
  PROVE  \A c \in BookId : Thins(book'[c], book[c])
<1>1. \A c \in BookId : Thins(book[c], book[c])
  BY BookSide
<1>2. Thins(RemoveAt(book[b], k), book[b])
  BY <1>1, CancelStep, ThinsRemove
<1> QED
  BY <1>1, <1>2, CancelStep

\* Every step keeps what the book and the copies of its sides have to be.
LEMMA NextParts ==
  ASSUME TypeInv, TxInv, BookParts, [Next]_vars
  PROVE  BookParts'
<1>1. TypeInv'
  BY NextType
<1>2. CASE Reverts
  <2>1. BookInv'
    BY <1>2, PartsStay DEF Reverts, BookParts, bookVars, poolVars
  <2> QED
    BY <1>2, <2>1, EndsParts DEF Reverts
<1>3. ASSUME NEW b \in BookId, NEW t \in Tag, NEW k \in DOMAIN book[b], CancelOrder(b, k, t)
      PROVE  BookParts'
  <2>1. nullifiers \subseteq nullifiers' /\ tx' = Idle
    BY <1>3, CancelStep
  <2>2. BookInv'
    BY <1>1, <1>3, <2>1, CancelThins, ThinsBookInv DEF BookParts
  <2> QED
    BY <2>1, <2>2, EndsParts
<1> QED
  BY <1>1, <1>2, <1>3, TradeSteps, QuietParts, BeginsParts, PassesParts, FillParts, DoomsParts,
     EndParts

\* The inductive invariant of the properties of trading.
LEMMA InitTrade == Init => TradeInv
<1> SUFFICES ASSUME Init PROVE TradeInv
  OBVIOUS
<1>1. SingleSpend
  BY DEF Init, SingleSpend
<1>2. BookSorted /\ MakersSorted
  BY EmptySorted DEF Init, BookSorted, MakersSorted
<1>3. BookParts
  BY DEF Init, BookParts, BookInv, MakersThin, TakerInv, Idle
<1> QED
  BY <1>1, <1>2, <1>3, InitType DEF TradeInv

\* Every step keeps the invariant of trading.
LEMMA NextTrade ==
  ASSUME TradeInv, [Next]_vars
  PROVE  TradeInv'
BY NextType, NextSpendsOnce, NextKeepsSorted, NextParts DEF TradeInv

\* Every resting order is backed by a spent note of its own.
THEOREM OrdersStayBacked == Spec => []BookInv
<1>1. TradeInv => BookInv
  BY DEF TradeInv, BookParts
<1> QED
  BY <1>1, InitTrade, NextTrade, PTL DEF Spec

-----------------------------------------------------------------------------
(***************************************************************************)
(* Time priority.                                                          *)
(***************************************************************************)

\* What TimePriority says of one side.
TimeKept(new, old, side) ==
  \A k, l \in DOMAIN new :
    (k < l /\ Rested(old, new[l].order_id)) =>
      IF Rested(old, new[k].order_id)
      THEN Position(old, new[k].order_id) < Position(old, new[l].order_id)
      ELSE EntryBetter(new[k], new[l], side)

\* Orders that leave do not make the others overtake each other.
LEMMA ThinsTime ==
  ASSUME NEW s, NEW t, OwnIds(t), Thins(s, t), NEW side
  PROVE  TimeKept(s, t, side)
<1> SUFFICES ASSUME NEW k \in DOMAIN s, NEW l \in DOMAIN s, k < l
             PROVE  /\ Rested(t, s[k].order_id)
                    /\ Position(t, s[k].order_id) < Position(t, s[l].order_id)
  BY DEF TimeKept
<1>1. PICK p \in DOMAIN t : t[p].order_id = s[k].order_id
  BY DEF Thins, SameOrder
<1>2. PICK q \in DOMAIN t : t[q].order_id = s[l].order_id
  BY DEF Thins, SameOrder
<1>3. p < q
  BY <1>1, <1>2 DEF Thins
<1> QED
  BY <1>1, <1>2, <1>3, PositionOf

\* A new order goes ahead of those only whose price it beats.
LEMMA InsertTime ==
  ASSUME NEW s \in Seq(OrderEntry), OwnIds(s), NEW side, SortedSide(s, side),
         NEW e \in OrderEntry, \A k \in DOMAIN s : s[k].order_id # e.order_id
  PROVE  TimeKept(BookInsertSorted(s, e, side), s, side)
<1> DEFINE p == InsertPosition(s, e, side)
           r == BookInsertSorted(s, e, side)
           from(k) == IF k < p THEN k ELSE k - 1
<1>1. /\ p \in 1..(Len(s) + 1)
      /\ p # Len(s) + 1 => EntryBetter(e, s[p], side)
  BY InsertPositionProperties
<1>2. r = InsertAt(s, p, e)
  BY DEF BookInsertSorted
<1> HIDE DEF p, r
<1>3. /\ Len(s) \in Nat /\ DOMAIN s = 1..Len(s) /\ DOMAIN r = 1..(Len(s) + 1)
      /\ \A k \in 1..(Len(s) + 1) :
           r[k] = IF k < p THEN s[k] ELSE IF k = p THEN e ELSE s[k - 1]
  BY <1>1, <1>2, InsertOrder
<1>4. /\ p \in DOMAIN r /\ r[p] = e
      /\ \A k \in DOMAIN r : k # p => from(k) \in DOMAIN s /\ r[k] = s[from(k)]
      /\ \A k, l \in DOMAIN r : k < l /\ k # p /\ l # p => from(k) < from(l)
      /\ \A l \in DOMAIN r : p < l => p \in DOMAIN s /\ p <= from(l) /\ p # Len(s) + 1
  BY <1>1, <1>3
<1> HIDE DEF from
<1>5. ASSUME NEW l \in DOMAIN r, p < l PROVE EntryBetter(e, r[l], side)
  <2>1. /\ EntryBetter(e, s[p], side) /\ p \in DOMAIN s /\ from(l) \in DOMAIN s
        /\ p <= from(l) /\ r[l] = s[from(l)]
    BY <1>1, <1>3, <1>4, <1>5
  <2>2. s[p] \in OrderEntry /\ s[from(l)] \in OrderEntry
    BY <2>1, <1>3, ElementOfSeq
  <2>3. CASE from(l) = p
    BY <2>1, <2>3
  <2>4. CASE from(l) # p
    <3>1. ~EntryBetter(s[from(l)], s[p], side)
      <4>1. p < from(l)
        BY <1>3, <2>1, <2>4
      <4> QED
        BY <2>1, <4>1 DEF SortedSide
    <3>2. EntryBetter(e, s[from(l)], side)
      BY <2>1, <2>2, <3>1, OrdersHavePrices, NotBetterTransitive
    <3> QED
      BY <2>1, <3>2
  <2> QED
    BY <2>3, <2>4
<1>6. ASSUME NEW k \in DOMAIN r, NEW l \in DOMAIN r, k < l, Rested(s, r[l].order_id)
      PROVE  IF Rested(s, r[k].order_id)
             THEN Position(s, r[k].order_id) < Position(s, r[l].order_id)
             ELSE EntryBetter(r[k], r[l], side)
  <2>1. l # p
    BY <1>4, <1>6 DEF Rested
  <2>2. /\ from(l) \in DOMAIN s /\ r[l] = s[from(l)]
        /\ Position(s, r[l].order_id) = from(l)
    BY <1>4, <2>1, PositionOf
  <2>3. CASE k # p
    <3>1. /\ from(k) \in DOMAIN s /\ Rested(s, r[k].order_id)
          /\ Position(s, r[k].order_id) = from(k)
      BY <1>4, <2>3, PositionOf
    <3> QED
      BY <1>4, <1>6, <2>1, <2>2, <2>3, <3>1
  <2>4. CASE k = p
    BY <1>4, <1>5, <1>6, <2>4 DEF Rested
  <2> QED
    BY <2>3, <2>4
<1> QED
  BY <1>6 DEF TimeKept, r

\* A step keeps the order of every side.
LEMMA NextTime ==
  ASSUME TradeInv, [Next]_vars
  PROVE  book' = book \/ \A b \in BookId : TimeKept(book'[b], book[b], b[2])
<1> USE DEF TradeInv
<1>1. BookInv /\ MakersThin
  BY DEF BookParts
<1>2. ASSUME \A b \in BookId : Thins(book'[b], book[b])
      PROVE  \A b \in BookId : TimeKept(book'[b], book[b], b[2])
  BY <1>1, <1>2, BookSide, ThinsTime
<1>3. ASSUME NEW b \in BookId, NEW t \in Tag, NEW k \in DOMAIN book[b], CancelOrder(b, k, t)
      PROVE  \A c \in BookId : TimeKept(book'[c], book[c], c[2])
  BY <1>1, <1>2, <1>3, CancelThins
<1>4. ASSUME NEW minted, NEW own, Stores(minted, own),
             own = book[tx.book_id] \/ tx.op = "prune"
      PROVE  \A b \in BookId : TimeKept(book'[b], book[b], b[2])
  BY <1>2, <1>4, StoresThins
<1>5. ASSUME Stores(tx.minted, OwnAfter), LoopDone, tx.taker.remaining_in > 0
      PROVE  \A b \in BookId : TimeKept(book'[b], book[b], b[2])
  <2>1. tx.op = "submit" /\ tx.book_id \in BookId /\ tx.taker \in OrderEntry
    BY <1>5, SubmitFields DEF LoopDone
  <2>2. tx.taker.order_id \notin nullifiers
    BY <1>5, <2>1, TakerRests
  <2>3. TimeKept(OwnAfter, book[tx.book_id], tx.book_id[2])
    <3>1. /\ book[tx.book_id] \in Seq(OrderEntry) /\ OwnIds(book[tx.book_id])
          /\ \A k \in DOMAIN book[tx.book_id] :
               book[tx.book_id][k].order_id # tx.taker.order_id
          /\ SortedSide(book[tx.book_id], tx.book_id[2])
      BY <1>1, <2>1, <2>2, BookSide DEF BookSorted
    <3> QED
      BY <2>1, <3>1, InsertTime DEF OwnAfter
  <2>4. ASSUME NEW b \in BookId, b # tx.book_id PROVE TimeKept(book'[b], book[b], b[2])
    <3>1. Thins(book'[b], book[b])
      <4>1. Thins(tx.makers, book[WorkedSide])
        BY <1>1, <1>5, MakerOf DEF Stores
      <4>2. Thins(book[b], book[b])
        BY <1>1, BookSide
      <4> QED
        BY <1>5, <2>4, <4>1, <4>2 DEF Stores
    <3> QED
      BY <1>1, <3>1, BookSide, ThinsTime
  <2>5. book'[tx.book_id] = OwnAfter
    BY <1>5, <2>1 DEF Stores
  <2> QED
    BY <2>3, <2>4, <2>5
<1>6. CASE SubmitFilled \/ SubmitRests \/ SubmitReturns \/ PruneReturns
  BY <1>4, <1>5, <1>6, EndSteps
<1>7. Quiet \/ Begins \/ Reverts \/ Passes \/ FillMaker \/ Dooms => book' = book
  BY FillEffect DEF Quiet, Begins, Reverts, Passes, Dooms, bookVars
<1> QED
  BY <1>3, <1>6, <1>7, TradeSteps

\* Resting orders never overtake each other, and a new order goes ahead only
\* of orders whose price it beats.
THEOREM TimeStaysPrior == Spec => TimePriority
<1>1. TradeInv /\ [Next]_vars
        => [\A b \in BookId : \A k, l \in DOMAIN book'[b] :
              LET first == book'[b][k]  second == book'[b][l] IN
              (k < l /\ Rested(book[b], second.order_id)) =>
                IF Rested(book[b], first.order_id)
                THEN Position(book[b], first.order_id) < Position(book[b], second.order_id)
                ELSE EntryBetter(first, second, b[2])]_book
  BY NextTime DEF TimeKept
<1> QED
  BY <1>1, InitTrade, NextTrade, PTL DEF Spec, TimePriority

-----------------------------------------------------------------------------
(***************************************************************************)
(* Expired orders.                                                         *)
(***************************************************************************)

\* What may become of an expired order e of a side that offers the asset a,
\* whose orders are then those of orders, when minted has entered the tree.
ExpiredFate(e, orders, minted, a) ==
  \/ RemainingOf(orders, e.order_id) = e.remaining_in
  \/ /\ ~Rested(orders, e.order_id)
     /\ \E i \in DOMAIN minted : minted[i].asset = a /\ minted[i].amount = e.remaining_in

\* That is all that the running transaction has done to the expired orders.
ExpiredKept ==
  tx # Idle =>
    \A p \in DOMAIN book[WorkedSide] :
      book[WorkedSide][p].expiry < clock =>
        ExpiredFate(book[WorkedSide][p], tx.makers, tx.minted, GiveAsset(WorkedSide))

\* More leaves change nothing about it.
LEMMA FateMore ==
  ASSUME NEW e, NEW orders, NEW ms \in Seq(Note), NEW more \in Seq(Note), NEW a,
         ExpiredFate(e, orders, ms, a)
  PROVE  ExpiredFate(e, orders, ms \o more, a)
<1>1. \A i \in DOMAIN ms : i \in DOMAIN (ms \o more) /\ (ms \o more)[i] = ms[i]
  BY ConcatProperties, LenProperties
<1> QED
  BY <1>1 DEF ExpiredFate

\* An order whose rest is refunded has met its fate.
LEMMA FateRefund ==
  ASSUME NEW ms \in Seq(Note), NEW b \in BookId, NEW e, e.remaining_in \in Nat \ {0}, NEW t,
         NEW orders, ~Rested(orders, e.order_id), Refund(b, e, t) \in Seq(Note)
  PROVE  ExpiredFate(e, orders, ms \o Refund(b, e, t), GiveAsset(b))
<1> DEFINE n == MakeNote(GiveAsset(b), e.remaining_in, t)
<1>1. Refund(b, e, t) = <<n>>
  BY DEF Refund, MintNote
<1>2. n.asset = GiveAsset(b) /\ n.amount = e.remaining_in
  BY DEF MakeNote
<1> HIDE DEF n
<1>3. /\ Len(ms) + 1 \in DOMAIN (ms \o <<n>>)
      /\ (ms \o <<n>>)[Len(ms) + 1] = n
  <2>1. <<n>> \in Seq(Note) /\ Len(<<n>>) = 1 /\ <<n>>[1] = n
    BY <1>1
  <2>2. ms \o <<n>> \in Seq(Note) /\ Len(ms \o <<n>>) = Len(ms) + 1 /\ Len(ms) \in Nat
    BY <2>1, ConcatProperties, LenProperties
  <2>3. Len(ms) + 1 \in 1..Len(ms \o <<n>>)
    BY <2>2
  <2>4. (ms \o <<n>>)[Len(ms) + 1] = <<n>>[1]
    BY <2>1, <2>2, ConcatProperties
  <2> QED
    BY <2>1, <2>2, <2>3, <2>4, LenProperties
<1> QED
  BY <1>1, <1>2, <1>3 DEF ExpiredFate

\* The same id, the same order.
LEMMA SameId ==
  ASSUME TypeInv, BookInv, MakersThin, tx # Idle, NEW k \in DOMAIN tx.makers,
         NEW p \in DOMAIN book[WorkedSide],
         tx.makers[k].order_id = book[WorkedSide][p].order_id
  PROVE  SameOrder(tx.makers[k], book[WorkedSide][p])
<1>1. PICK q \in DOMAIN book[WorkedSide] : SameOrder(tx.makers[k], book[WorkedSide][q])
  BY MakerOf
<1>2. OwnIds(book[WorkedSide])
  BY MakerOf, BookSide
<1>3. p = q
  BY <1>1, <1>2 DEF SameOrder, OwnIds
<1> QED
  BY <1>1, <1>3

\* What a fill does to what there is of each order.
LEMMA FillRemaining ==
  ASSUME TypeInv, BookInv, MakersThin, FillMaker, NEW id
  PROVE  /\ OwnIds(MakersAfter)
         /\ id # Maker.order_id =>
              /\ Rested(MakersAfter, id) <=> Rested(tx.makers, id)
              /\ RemainingOf(MakersAfter, id) = RemainingOf(tx.makers, id)
         /\ id = Maker.order_id =>
              /\ RemainingOf(tx.makers, id) = Maker.remaining_in
              /\ RemainingOf(MakersAfter, id) = MakerAfter.remaining_in
<1>1. /\ tx # Idle /\ tx.i \in 1..Len(tx.makers) /\ Maker = tx.makers[tx.i]
      /\ MakerAfter.order_id = Maker.order_id
  BY FillFields, SubmitFields DEF Maker
<1>2. /\ tx.makers \in Seq(OrderEntry) /\ OwnIds(tx.makers) /\ tx.i \in DOMAIN tx.makers
  BY <1>1, MakerOf, LenProperties
<1>3. id = Maker.order_id => RemainingOf(tx.makers, id) = Maker.remaining_in
  BY <1>1, <1>2, PositionOf
<1>4. CASE MakerAfter.remaining_in = 0
  BY <1>1, <1>2, <1>3, <1>4, RemainingRemove DEF MakersAfter
<1>5. CASE MakerAfter.remaining_in # 0
  BY <1>1, <1>2, <1>3, <1>5, RemainingUpdate DEF MakersAfter
<1> QED
  BY <1>4, <1>5

\* A fill does not touch an expired order.
LEMMA FillExpired ==
  ASSUME TypeInv, BookParts, ExpiredKept, FillMaker
  PROVE  ExpiredKept'
<1>1. /\ book' = book /\ clock' = clock
      /\ tx.op = "submit" /\ tx'.op = "submit" /\ tx'.book_id = tx.book_id /\ tx # Idle
      /\ tx'.makers = MakersAfter /\ tx'.minted = tx.minted \o FillMints
      /\ tx.minted \in Seq(Note) /\ FillMints \in Seq(Note)
      /\ tx.i \in 1..Len(tx.makers) /\ Maker = tx.makers[tx.i]
  BY FillEffect, FillFields, SubmitFields DEF bookVars, Maker
<1>2. WorkedSide' = WorkedSide
  BY <1>1 DEF WorkedSide
<1>3. tx.i \in DOMAIN tx.makers
  BY <1>1, MakerOf, LenProperties DEF BookParts
<1>4. ~(Maker.expiry < clock)
  BY DEF FillMaker, Skips, Expired, Maker
<1>5. ASSUME NEW p \in DOMAIN book[WorkedSide], book[WorkedSide][p].expiry < clock
      PROVE  ExpiredFate(book[WorkedSide][p], MakersAfter, tx.minted \o FillMints,
                         GiveAsset(WorkedSide))
  <2> DEFINE e == book[WorkedSide][p]
  <2>1. Maker.order_id # e.order_id
    BY <1>1, <1>3, <1>4, <1>5, SameId DEF BookParts, SameOrder
  <2>2. ExpiredFate(e, tx.makers, tx.minted, GiveAsset(WorkedSide))
    BY <1>1, <1>5 DEF ExpiredKept
  <2>3. /\ Rested(MakersAfter, e.order_id) <=> Rested(tx.makers, e.order_id)
        /\ RemainingOf(MakersAfter, e.order_id) = RemainingOf(tx.makers, e.order_id)
    BY <2>1, FillRemaining DEF BookParts
  <2>4. ExpiredFate(e, MakersAfter, tx.minted, GiveAsset(WorkedSide))
    BY <2>2, <2>3 DEF ExpiredFate
  <2> QED
    BY <1>1, <2>4, FateMore
<1> QED
  BY <1>1, <1>2, <1>5 DEF ExpiredKept

\* A removal refunds the order that it removes.
LEMMA DoomsExpired ==
  ASSUME TypeInv, BookParts, ExpiredKept, Dooms
  PROVE  ExpiredKept'
<1> USE DEF BookParts
<1>1. /\ book' = book /\ clock' = clock
      /\ tx.op = "prune" /\ tx'.op = "prune" /\ tx'.book_id = tx.book_id /\ tx # Idle
      /\ tx'.makers = RemoveAt(tx.makers, tx.i) /\ tx'.minted = tx.minted \o DoomedMints
      /\ tx.minted \in Seq(Note) /\ DoomedMints \in Seq(Note)
      /\ tx.i \in 1..Len(tx.makers) /\ Doomed = tx.makers[tx.i]
      /\ tx.book_id \in BookId /\ Doomed \in OrderEntry
  BY DEF Dooms, bookVars, Doomed
<1>2. WorkedSide' = WorkedSide /\ WorkedSide = tx.book_id
  BY <1>1 DEF WorkedSide
<1>3. /\ tx.i \in DOMAIN tx.makers /\ tx.makers \in Seq(OrderEntry) /\ OwnIds(tx.makers)
  BY <1>1, MakerOf, LenProperties
<1>4. ASSUME NEW p \in DOMAIN book[WorkedSide], book[WorkedSide][p].expiry < clock
      PROVE  ExpiredFate(book[WorkedSide][p], tx'.makers, tx'.minted, GiveAsset(WorkedSide))
  <2> DEFINE e == book[WorkedSide][p]
  <2>1. ExpiredFate(e, tx.makers, tx.minted, GiveAsset(WorkedSide))
    BY <1>1, <1>4 DEF ExpiredKept
  <2>2. CASE Doomed.order_id # e.order_id
    <3>1. /\ Rested(tx'.makers, e.order_id) <=> Rested(tx.makers, e.order_id)
          /\ RemainingOf(tx'.makers, e.order_id) = RemainingOf(tx.makers, e.order_id)
      BY <1>1, <1>3, <2>2, RemainingRemove
    <3>2. ExpiredFate(e, tx'.makers, tx.minted, GiveAsset(WorkedSide))
      BY <2>1, <3>1 DEF ExpiredFate
    <3> QED
      BY <1>1, <3>2, FateMore
  <2>3. CASE Doomed.order_id = e.order_id
    <3>1. /\ Rested(tx.makers, e.order_id)
          /\ RemainingOf(tx.makers, e.order_id) = Doomed.remaining_in
      BY <1>1, <1>3, <2>3, PositionOf
    <3>2. Doomed.remaining_in = e.remaining_in
      BY <2>1, <3>1 DEF ExpiredFate
    <3>3. ~Rested(tx'.makers, e.order_id)
      BY <1>1, <1>3, <2>3, RemainingRemove
    <3>4. Doomed.remaining_in \in Nat \ {0}
      BY <1>1, <1>2, <3>2, BookSide, OrderFields
    <3>5. ExpiredFate(Doomed, tx'.makers, tx.minted \o DoomedMints, GiveAsset(WorkedSide))
      BY <1>1, <1>2, <2>3, <3>3, <3>4, FateRefund DEF DoomedMints
    <3> QED
      BY <1>1, <2>3, <3>2, <3>5 DEF ExpiredFate
  <2> QED
    BY <2>2, <2>3
<1> QED
  BY <1>1, <1>2, <1>4 DEF ExpiredKept

\* What is stored at the beginning of a transaction is there in full.
LEMMA BeginsWhole ==
  ASSUME TypeInv, BookInv, Begins
  PROVE  /\ WorkedSide' \in BookId /\ tx'.makers = book[WorkedSide']
         /\ \A p \in DOMAIN book[WorkedSide'] :
              RemainingOf(tx'.makers, book[WorkedSide'][p].order_id)
                = book[WorkedSide'][p].remaining_in
<1>1. /\ tx'.book_id \in BookId /\ OtherSide(tx'.book_id) \in BookId
      /\ tx'.makers = book[WorkedSide']
  BY SideTypes DEF Begins, WorkedSide
<1>2. WorkedSide' \in BookId
  BY <1>1 DEF WorkedSide
<1> QED
  BY <1>1, <1>2, BookSide, PositionOf

\* Every step keeps what is known of the expired orders.
LEMMA NextExpired ==
  ASSUME TypeInv, TxInv, BookParts, ExpiredKept, [Next]_vars
  PROVE  ExpiredKept'
<1>1. CASE Quiet
  BY <1>1 DEF Quiet, ExpiredKept, WorkedSide
<1>2. CASE Begins
  BY <1>2, BeginsWhole DEF Begins, ExpiredKept, ExpiredFate, BookParts
<1>3. CASE Passes
  BY <1>3 DEF Passes, ExpiredKept, WorkedSide, bookVars
<1>4. CASE tx' = Idle
  BY <1>4 DEF ExpiredKept
<1>5. ASSUME Reverts \/ SubmitFilled \/ SubmitRests \/ SubmitReturns \/ PruneReturns
             \/ \E b \in BookId, t \in Tag : \E k \in DOMAIN book[b] : CancelOrder(b, k, t)
      PROVE  tx' = Idle
  BY <1>5, EndSteps, CancelStep DEF Reverts, Stores
<1> QED
  BY <1>1, <1>2, <1>3, <1>4, <1>5, FillExpired, DoomsExpired, TradeSteps

\* A side that gets a new order keeps all of each order that it had.
LEMMA OwnWhole ==
  ASSUME TypeInv, TxInv, BookParts, tx.op = "submit", tx.taker.remaining_in > 0,
         NEW k \in DOMAIN book[tx.book_id]
  PROVE  /\ OwnIds(OwnAfter)
         /\ Rested(OwnAfter, book[tx.book_id][k].order_id)
         /\ RemainingOf(OwnAfter, book[tx.book_id][k].order_id)
              = book[tx.book_id][k].remaining_in
<1> DEFINE s == book[tx.book_id]
           e == tx.taker
           p == InsertPosition(book[tx.book_id], tx.taker, tx.book_id[2])
           r == OwnAfter
           from(l) == IF l < p THEN l ELSE l - 1
           to(l) == IF l < p THEN l ELSE l + 1
<1>1. tx.book_id \in BookId
  BY SubmitFields
<1>2. /\ e \in OrderEntry /\ p \in 1..(Len(s) + 1) /\ r = InsertAt(s, p, e)
      /\ e.order_id \notin nullifiers
  BY TakerRests
<1>3. /\ s \in Seq(OrderEntry) /\ OwnIds(s) /\ k \in DOMAIN s
      /\ \A l \in DOMAIN s : s[l].order_id # e.order_id
  BY <1>1, <1>2, BookSide DEF BookParts
<1> HIDE DEF s, e, p, r
<1>4. /\ Len(s) \in Nat /\ DOMAIN s = 1..Len(s) /\ DOMAIN r = 1..(Len(s) + 1)
      /\ \A l \in 1..(Len(s) + 1) :
           r[l] = IF l < p THEN s[l] ELSE IF l = p THEN e ELSE s[l - 1]
  BY <1>2, <1>3, InsertOrder
<1>5. /\ p \in DOMAIN r /\ r[p] = e
      /\ \A l \in DOMAIN r : l # p => from(l) \in DOMAIN s /\ r[l] = s[from(l)]
      /\ \A l, m \in DOMAIN r : from(l) = from(m) /\ l # p /\ m # p => l = m
      /\ \A l \in DOMAIN s : to(l) \in DOMAIN r /\ r[to(l)] = s[l]
  BY <1>2, <1>4
<1> HIDE DEF from, to
<1>6. OwnIds(r)
  BY <1>3, <1>5 DEF OwnIds
<1>7. to(k) \in DOMAIN r /\ r[to(k)] = s[k]
  BY <1>3, <1>5
<1>8. Rested(r, s[k].order_id) /\ RemainingOf(r, s[k].order_id) = s[k].remaining_in
  BY <1>6, <1>7, PositionOf
<1> QED
  BY <1>6, <1>8 DEF r, s

\* What a transaction stores on the other sides than the one it rewrites has
\* all of each order.
LEMMA OthersWhole ==
  ASSUME TypeInv, TxInv, BookParts,
         SubmitFilled \/ SubmitRests \/ SubmitReturns \/ PruneReturns
  PROVE  /\ WorkedSide \in BookId /\ tx # Idle
         /\ book'[WorkedSide] = tx.makers
         /\ \A b \in BookId : \A k \in DOMAIN book[b] :
              b # WorkedSide =>
                RemainingOf(book'[b], book[b][k].order_id) = book[b][k].remaining_in
         /\ \E more \in Seq(Note) : notes' = notes \o (tx.minted \o more)
         /\ tx.minted \in Seq(Note)
<1>1. \A b \in BookId : \A k \in DOMAIN book[b] :
        RemainingOf(book[b], book[b][k].order_id) = book[b][k].remaining_in
  BY BookSide, PositionOf DEF BookParts
<1>2. tx.minted \in Seq(Note) /\ tx # Idle
  BY EndSteps, SubmitFields, PruneFields DEF Stores
<1>3. ASSUME NEW minted, NEW own, Stores(minted, own),
             own = book[tx.book_id] \/ tx.op = "prune"
      PROVE  /\ WorkedSide \in BookId /\ book'[WorkedSide] = tx.makers
             /\ notes' = notes \o minted
             /\ \A b \in BookId : \A k \in DOMAIN book[b] :
                  b # WorkedSide =>
                    RemainingOf(book'[b], book[b][k].order_id) = book[b][k].remaining_in
  BY <1>1, <1>3 DEF Stores
<1>4. ASSUME Stores(tx.minted, OwnAfter), LoopDone, tx.taker.remaining_in > 0
      PROVE  /\ WorkedSide \in BookId /\ book'[WorkedSide] = tx.makers
             /\ notes' = notes \o tx.minted
             /\ \A b \in BookId : \A k \in DOMAIN book[b] :
                  b # WorkedSide =>
                    RemainingOf(book'[b], book[b][k].order_id) = book[b][k].remaining_in
  <2>1. tx.op = "submit"
    BY <1>4 DEF LoopDone
  <2>2. \A k \in DOMAIN book[tx.book_id] :
          RemainingOf(OwnAfter, book[tx.book_id][k].order_id)
            = book[tx.book_id][k].remaining_in
    BY <1>4, <2>1, OwnWhole
  <2> QED
    BY <1>1, <1>4, <2>1, <2>2 DEF Stores
<1>5. tx.minted = tx.minted \o <<>> /\ <<>> \in Seq(Note)
  BY <1>2, ConcatEmptySeq
<1>6. LoopDone => Returned \in Seq(Note)
  <2>1. LoopDone => tx.taker \in OrderEntry /\ tx.book_id \in BookId
    BY SubmitFields DEF LoopDone
  <2> QED
    BY <2>1, OrderFields, RefundType DEF Returned
<1>7. CASE Stores(tx.minted, book[tx.book_id])
  BY <1>2, <1>3, <1>5, <1>7
<1>8. CASE Stores(tx.minted, OwnAfter) /\ LoopDone /\ tx.taker.remaining_in > 0
  BY <1>2, <1>4, <1>5, <1>8
<1>9. CASE Stores(tx.minted \o Returned, book[tx.book_id]) /\ LoopDone
  BY <1>2, <1>3, <1>6, <1>9
<1>10. CASE Stores(tx.minted, tx.makers) /\ tx.op = "prune"
  BY <1>2, <1>3, <1>5, <1>10
<1> QED
  BY <1>7, <1>8, <1>9, <1>10, EndSteps

\* The fate of the expired orders of one side in a step.
LEMMA FateShows ==
  ASSUME TypeInv, NEW ms \in Seq(Note), notes' = notes \o ms, NEW e, NEW orders, NEW a,
         ExpiredFate(e, orders, ms, a)
  PROVE  \/ RemainingOf(orders, e.order_id) = e.remaining_in
         \/ /\ ~Rested(orders, e.order_id)
            /\ \E i \in (DOMAIN notes') \ (DOMAIN notes) :
                 notes'[i].asset = a /\ notes'[i].amount = e.remaining_in
<1>1. \A i \in DOMAIN ms : /\ Len(notes) + i \in (DOMAIN notes') \ (DOMAIN notes)
                           /\ notes'[Len(notes) + i] = ms[i]
  <2>1. notes \in Seq(Note)
    BY DEF TypeInv
  <2>2. /\ DOMAIN notes = 1..Len(notes) /\ DOMAIN ms = 1..Len(ms)
        /\ Len(notes) \in Nat /\ Len(ms) \in Nat
        /\ DOMAIN notes' = 1..(Len(notes) + Len(ms))
        /\ \A i \in 1..Len(ms) : notes'[Len(notes) + i] = ms[i]
    BY <2>1, ConcatProperties, LenProperties
  <2> QED
    BY <2>2
<1> QED
  BY <1>1 DEF ExpiredFate

\* What a step leaves of an expired order.
LEMMA StepExpired ==
  ASSUME TypeInv, TxInv, BookParts, ExpiredKept, [Next]_vars
  PROVE  \/ book' = book
         \/ \A b \in BookId : \A k \in DOMAIN book[b] :
              book[b][k].expiry < clock =>
                \/ RemainingOf(book'[b], book[b][k].order_id) = book[b][k].remaining_in
                \/ /\ ~Rested(book'[b], book[b][k].order_id)
                   /\ \E i \in (DOMAIN notes') \ (DOMAIN notes) :
                        /\ notes'[i].asset = GiveAsset(b)
                        /\ notes'[i].amount = book[b][k].remaining_in
<1>1. CASE SubmitFilled \/ SubmitRests \/ SubmitReturns \/ PruneReturns
  <2>1. /\ WorkedSide \in BookId /\ tx # Idle /\ book'[WorkedSide] = tx.makers
        /\ tx.minted \in Seq(Note)
        /\ \A b \in BookId : \A k \in DOMAIN book[b] :
             b # WorkedSide =>
               RemainingOf(book'[b], book[b][k].order_id) = book[b][k].remaining_in
    BY <1>1, OthersWhole
  <2>2. PICK more \in Seq(Note) : notes' = notes \o (tx.minted \o more)
    BY <1>1, OthersWhole
  <2>3. tx.minted \o more \in Seq(Note)
    BY <2>1, <2>2, ConcatProperties
  <2>4. ASSUME NEW k \in DOMAIN book[WorkedSide], book[WorkedSide][k].expiry < clock
        PROVE  ExpiredFate(book[WorkedSide][k], book'[WorkedSide], tx.minted \o more,
                           GiveAsset(WorkedSide))
    BY <2>1, <2>2, <2>4, FateMore DEF ExpiredKept
  <2>5. \A k \in DOMAIN book[WorkedSide] :
          book[WorkedSide][k].expiry < clock =>
            \/ RemainingOf(book'[WorkedSide], book[WorkedSide][k].order_id)
                 = book[WorkedSide][k].remaining_in
            \/ /\ ~Rested(book'[WorkedSide], book[WorkedSide][k].order_id)
               /\ \E i \in (DOMAIN notes') \ (DOMAIN notes) :
                    /\ notes'[i].asset = GiveAsset(WorkedSide)
                    /\ notes'[i].amount = book[WorkedSide][k].remaining_in
    <3> TAKE k \in DOMAIN book[WorkedSide]
    <3> HAVE book[WorkedSide][k].expiry < clock
    <3> DEFINE e == book[WorkedSide][k]
               a == GiveAsset(WorkedSide)
               ms == tx.minted \o more
    <3>1. ExpiredFate(e, book'[WorkedSide], ms, a) /\ notes' = notes \o ms /\ ms \in Seq(Note)
      BY <2>2, <2>3, <2>4
    <3> HIDE DEF e, a, ms
    <3>2. \/ RemainingOf(book'[WorkedSide], e.order_id) = e.remaining_in
          \/ /\ ~Rested(book'[WorkedSide], e.order_id)
             /\ \E i \in (DOMAIN notes') \ (DOMAIN notes) :
                  notes'[i].asset = a /\ notes'[i].amount = e.remaining_in
      BY <3>1, FateShows
    <3> QED
      BY <3>2 DEF e, a
  <2> QED
    BY <2>1, <2>5
<1>2. ASSUME NEW c \in BookId, NEW t \in Tag, NEW j \in DOMAIN book[c], CancelOrder(c, j, t),
             NEW b \in BookId, NEW k \in DOMAIN book[b]
      PROVE  \/ RemainingOf(book'[b], book[b][k].order_id) = book[b][k].remaining_in
             \/ /\ ~Rested(book'[b], book[b][k].order_id)
                /\ \E i \in (DOMAIN notes') \ (DOMAIN notes) :
                     /\ notes'[i].asset = GiveAsset(b)
                     /\ notes'[i].amount = book[b][k].remaining_in
  <2> DEFINE e == book[b][k]
             ms == Refund(c, book[c][j], t)
  <2>1. /\ j \in 1..Len(book[c]) /\ notes' = notes \o ms /\ ms \in Seq(Note)
        /\ book'[b] = IF b = c THEN RemoveAt(book[c], j) ELSE book[b]
    BY <1>2, CancelStep
  <2>2. /\ book[b] \in Seq(OrderEntry) /\ OwnIds(book[b])
        /\ RemainingOf(book[b], e.order_id) = e.remaining_in
        /\ e.remaining_in \in Nat \ {0}
    BY BookSide, PositionOf, OrderFields DEF BookParts
  <2>3. CASE b # c
    BY <2>1, <2>2, <2>3
  <2>4. CASE b = c /\ j # k
    <3>1. book[b][j].order_id # e.order_id
      BY <1>2, <2>2, <2>4 DEF OwnIds
    <3> QED
      BY <2>1, <2>2, <2>4, <3>1, RemainingRemove
  <2>5. CASE b = c /\ j = k
    <3>1. ~Rested(book'[b], e.order_id)
      BY <2>1, <2>2, <2>5, RemainingRemove
    <3>2. ms = Refund(b, e, t) /\ <<>> \o ms = ms /\ <<>> \in Seq(Note)
      BY <2>1, <2>5, ConcatEmptySeq
    <3>3. ExpiredFate(e, book'[b], <<>> \o Refund(b, e, t), GiveAsset(b))
      <4> HIDE DEF e, ms
      <4> QED
        BY <2>1, <2>2, <3>1, <3>2, FateRefund
    <3>4. ExpiredFate(e, book'[b], ms, GiveAsset(b))
      BY <3>2, <3>3
    <3> QED
      BY <2>1, <3>4, FateShows
  <2> QED
    BY <2>3, <2>4, <2>5
<1>3. Quiet \/ Begins \/ Reverts \/ Passes \/ FillMaker \/ Dooms => book' = book
  BY FillEffect DEF Quiet, Begins, Reverts, Passes, Dooms, bookVars
<1> QED
  BY <1>1, <1>2, <1>3, TradeSteps

\* An expired order never trades.
THEOREM ExpiredStaysRefundable == Spec => ExpiredOnlyRefunded
<1>1. Init => ExpiredKept
  BY DEF Init, ExpiredKept
<1>2. TradeInv /\ ExpiredKept /\ [Next]_vars => (TradeInv /\ ExpiredKept)'
  BY NextTrade, NextExpired DEF TradeInv
<1>3. TradeInv /\ ExpiredKept /\ [Next]_vars
        => [\A b \in BookId : \A k \in DOMAIN book[b] :
              LET e == book[b][k] IN
              e.expiry < clock =>
                \/ RemainingOf(book'[b], e.order_id) = e.remaining_in
                \/ /\ ~Rested(book'[b], e.order_id)
                   /\ \E i \in (DOMAIN notes') \ (DOMAIN notes) :
                        /\ notes'[i].asset = GiveAsset(b)
                        /\ notes'[i].amount = e.remaining_in]_book
  BY StepExpired DEF TradeInv
<1> QED
  BY <1>1, <1>2, <1>3, InitTrade, PTL DEF Spec, ExpiredOnlyRefunded

-----------------------------------------------------------------------------
(***************************************************************************)
(* Price priority.                                                         *)
(***************************************************************************)

\* Nothing of e that could trade is left in orders.
Exhausted(e, orders) ==
  e.expiry < clock \/ RemainingOf(orders, e.order_id) < Lot(e)

\* The loop of submit_order has passed only makers that cannot trade, and of
\* a maker that it has traded with it has first exhausted all that are ahead.
Passed ==
  \A k \in DOMAIN tx.makers :
    k < tx.i => tx.makers[k].expiry < clock \/ tx.makers[k].remaining_in < Lot(tx.makers[k])
BestFirst ==
  \A p, q \in DOMAIN book[WorkedSide] :
    (/\ p < q
     /\ RemainingOf(tx.makers, book[WorkedSide][q].order_id)
          < book[WorkedSide][q].remaining_in)
      => Exhausted(book[WorkedSide][p], tx.makers)
PriceKept == tx.op = "submit" => Passed /\ BestFirst

\* Lots depend on the terms of an order.
LEMMA LotOf ==
  ASSUME NEW e, NEW d, SameOrder(e, d)
  PROVE  Lot(e) = Lot(d)
BY DEF Lot, SameOrder

\* A lot is at least one unit.
LEMMA LotPositive == ASSUME NEW e \in OrderEntry PROVE Lot(e) \in Nat \ {0}
BY LotProperties, OrderFields

\* No whole lot: less than one.
LEMMA QuotientZero ==
  ASSUME NEW a \in Nat, NEW d \in Nat \ {0}, a \div d = 0
  PROVE  a < d
<1>1. a < d \/ a \div d >= 1
  OBVIOUS
<1> QED
  BY <1>1

\* An order that gives no whole lot has less than one left.
LEMMA NoLot ==
  ASSUME NEW e \in OrderEntry, KMaker(e) = 0
  PROVE  e.remaining_in < Lot(e)
BY LotPositive, OrderFields, QuotientZero DEF KMaker

\* PriceKept is kept when a maker is passed over,
LEMMA PassesPrice ==
  ASSUME TypeInv, BookParts, PriceKept, Passes, SkipMaker \/ PruneSkips
  PROVE  PriceKept'
<1> SUFFICES ASSUME tx.op = "submit" PROVE PriceKept'
  BY DEF Passes, PriceKept
<1>1. /\ book' = book /\ clock' = clock /\ tx # Idle /\ tx'.op = "submit"
      /\ tx'.book_id = tx.book_id /\ tx'.makers = tx.makers /\ tx'.i = tx.i + 1
  BY DEF Passes, bookVars
<1>2. WorkedSide' = WorkedSide
  BY <1>1 DEF WorkedSide
<1>3. BestFirst'
  BY <1>1, <1>2 DEF BestFirst, PriceKept, Exhausted
<1>4. SkipMaker /\ LoopGuard(tx) /\ Skips(tx) /\ tx.i \in Nat \ {0}
      /\ tx.makers \in Seq(OrderEntry)
  BY SubmitFields DEF SkipMaker, PruneSkips, Pruning, InLoop
<1>5. tx.i \in DOMAIN tx.makers /\ tx.makers[tx.i] \in OrderEntry
  BY <1>4, LenProperties, ElementOfSeq DEF LoopGuard
<1>6. tx.makers[tx.i].partial_allowed
  <2>1. PICK p \in DOMAIN book[WorkedSide] :
          SameOrder(tx.makers[tx.i], book[WorkedSide][p])
    BY <1>1, <1>5, MakerOf DEF BookParts
  <2>2. WorkedSide \in BookId
    BY <1>1, MakerOf DEF BookParts
  <2> QED
    BY <2>1, <2>2, BookSide DEF BookParts, SameOrder
<1>7. \/ tx.makers[tx.i].expiry < clock
      \/ tx.makers[tx.i].remaining_in < Lot(tx.makers[tx.i])
  BY <1>4, <1>5, <1>6, NoLot DEF Skips, Expired
<1>8. Passed'
  <2>1. \A k \in DOMAIN tx.makers : k < tx.i + 1 => k < tx.i \/ k = tx.i
    BY <1>4, LenProperties
  <2> QED
    BY <1>1, <1>7, <2>1 DEF Passed, PriceKept
<1> QED
  BY <1>3, <1>8 DEF PriceKept

\* A fill does not move the makers that the loop has passed.
LEMMA FillPassed ==
  ASSUME TypeInv, FillMaker, NEW k \in DOMAIN MakersAfter, k < tx.i
  PROVE  k \in DOMAIN tx.makers /\ MakersAfter[k] = tx.makers[k]
<1>1. /\ tx.i \in 1..Len(tx.makers) /\ Len(tx.makers) \in Nat
      /\ tx.makers \in Seq(OrderEntry) /\ DOMAIN tx.makers = 1..Len(tx.makers)
      /\ MakersAfter \in Seq(OrderEntry) /\ DOMAIN MakersAfter = 1..Len(MakersAfter)
      /\ Len(MakersAfter) \in Nat
  BY FillFields, SubmitFields, LenProperties
<1>2. CASE MakerAfter.remaining_in = 0
  <2> DEFINE r == RemoveAt(tx.makers, tx.i)
  <2>1. MakersAfter = r
    BY <1>2 DEF MakersAfter
  <2>2. Len(r) = Len(tx.makers) - 1 /\ \A j \in 1..Len(r) : j < tx.i => r[j] = tx.makers[j]
    BY <1>1, RemoveAtProperties
  <2> HIDE DEF r
  <2> QED
    BY <1>1, <2>1, <2>2
<1>3. CASE MakerAfter.remaining_in # 0
  BY <1>1, <1>3 DEF MakersAfter
<1> QED
  BY <1>2, <1>3

\* when one is filled,
LEMMA FillPrice ==
  ASSUME TypeInv, BookParts, PriceKept, FillMaker
  PROVE  PriceKept'
<1> USE DEF BookParts
<1>1. /\ book' = book /\ clock' = clock
      /\ tx.op = "submit" /\ tx'.op = "submit" /\ tx'.book_id = tx.book_id /\ tx # Idle
      /\ tx'.makers = MakersAfter /\ tx'.i = tx.i
      /\ tx.i \in 1..Len(tx.makers) /\ Maker = tx.makers[tx.i] /\ Maker \in OrderEntry
      /\ MakerAfter.remaining_in <= Maker.remaining_in
  <2>1. Gives \in Nat /\ Maker.remaining_in \in Nat
    BY FillFields, OrderFields
  <2> QED
    BY <2>1, FillEffect, FillFields, SubmitFields DEF bookVars, Maker
<1>2. WorkedSide' = WorkedSide
  BY <1>1 DEF WorkedSide
<1>3. Passed'
  BY <1>1, FillPassed DEF Passed, PriceKept
<1>4. /\ WorkedSide \in BookId /\ tx.i \in DOMAIN tx.makers /\ OwnIds(tx.makers)
      /\ book[WorkedSide] \in Seq(OrderEntry) /\ Thins(tx.makers, book[WorkedSide])
      /\ OwnIds(book[WorkedSide])
  BY <1>1, MakerOf, BookSide, LenProperties
<1>5. ASSUME NEW p \in DOMAIN book[WorkedSide], NEW q \in DOMAIN book[WorkedSide], p < q,
             RemainingOf(MakersAfter, book[WorkedSide][q].order_id)
               < book[WorkedSide][q].remaining_in
      PROVE  Exhausted(book[WorkedSide][p], MakersAfter)
  <2> DEFINE d == book[WorkedSide][p]
             e == book[WorkedSide][q]
  <2>1. /\ d \in OrderEntry /\ Lot(d) \in Nat \ {0} /\ p \in Nat /\ q \in Nat
        /\ tx.i \in Nat /\ \A k \in DOMAIN tx.makers : k \in Nat
    BY <1>1, <1>4, BookSide, LotPositive, LenProperties
  <2>2. d.order_id # e.order_id
    BY <1>4, <1>5, <2>1 DEF OwnIds
  <2>3. CASE e.order_id # Maker.order_id
    <3>1. RemainingOf(tx.makers, e.order_id) < e.remaining_in
      BY <1>5, <2>3, FillRemaining
    <3>2. Exhausted(d, tx.makers)
      BY <1>1, <1>5, <3>1 DEF PriceKept, BestFirst
    <3>3. CASE d.order_id # Maker.order_id
      BY <3>2, <3>3, FillRemaining DEF Exhausted
    <3>4. CASE d.order_id = Maker.order_id
      <4>1. /\ RemainingOf(tx.makers, d.order_id) = Maker.remaining_in
            /\ RemainingOf(MakersAfter, d.order_id) = MakerAfter.remaining_in
        BY <3>4, FillRemaining
      <4>2. Maker.remaining_in \in Nat /\ MakerAfter.remaining_in \in Nat
        BY FillFields, OrderFields
      <4> QED
        BY <1>1, <2>1, <3>2, <4>1, <4>2 DEF Exhausted
    <3> QED
      BY <3>3, <3>4
  <2>4. CASE e.order_id = Maker.order_id
    <3>1. RemainingOf(MakersAfter, d.order_id) = RemainingOf(tx.makers, d.order_id)
      BY <2>2, <2>4, FillRemaining
    <3>2. CASE \E k \in DOMAIN tx.makers : tx.makers[k].order_id = d.order_id
      <4>1. PICK k \in DOMAIN tx.makers : tx.makers[k].order_id = d.order_id
        BY <3>2
      <4>2. RemainingOf(tx.makers, d.order_id) = tx.makers[k].remaining_in
        BY <1>4, <4>1, PositionOf
      <4>3. k # tx.i /\ ~(tx.i < k)
        <5>1. tx.i < k => q < p
          BY <1>1, <1>4, <2>4, <4>1 DEF Thins
        <5> QED
          BY <1>1, <1>5, <2>1, <2>2, <2>4, <4>1, <5>1
      <4>4. k < tx.i
        BY <2>1, <4>1, <4>3
      <4>5. SameOrder(tx.makers[k], d)
        BY <1>1, <4>1, SameId
      <4>6. tx.makers[k].expiry < clock \/ tx.makers[k].remaining_in < Lot(tx.makers[k])
        BY <1>1, <4>1, <4>4 DEF PriceKept, Passed
      <4>7. Lot(tx.makers[k]) = Lot(d)
        BY <4>5, LotOf
      <4>8. tx.makers[k].expiry = d.expiry
        BY <4>5 DEF SameOrder
      <4> QED
        BY <3>1, <4>2, <4>6, <4>7, <4>8 DEF Exhausted
    <3>3. CASE \A k \in DOMAIN tx.makers : tx.makers[k].order_id # d.order_id
      <4>1. RemainingOf(tx.makers, d.order_id) = 0
        BY <3>3, NotRested
      <4> QED
        BY <2>1, <3>1, <4>1 DEF Exhausted
    <3> QED
      BY <3>2, <3>3
  <2> QED
    BY <2>3, <2>4
<1>6. BestFirst'
  BY <1>1, <1>2, <1>5 DEF BestFirst, Exhausted
<1> QED
  BY <1>3, <1>6 DEF PriceKept

\* when a transaction begins,
LEMMA BeginsPrice ==
  ASSUME TypeInv, BookParts, Begins
  PROVE  PriceKept'
<1>1. Passed'
  <2>1. tx'.i = 1 /\ WorkedSide' \in BookId /\ tx'.makers = book[WorkedSide']
    BY BeginsWhole DEF Begins, BookParts
  <2>2. \A k \in DOMAIN tx'.makers : ~(k < tx'.i)
    BY <2>1, LenProperties DEF TypeInv
  <2> QED
    BY <2>2 DEF Passed
<1>2. BestFirst'
  <2>1. book' = book
    BY DEF Begins
  <2>2. /\ WorkedSide' \in BookId
        /\ \A p \in DOMAIN book[WorkedSide'] :
             RemainingOf(tx'.makers, book[WorkedSide'][p].order_id)
               = book[WorkedSide'][p].remaining_in
    BY BeginsWhole DEF BookParts
  <2>3. \A p \in DOMAIN book[WorkedSide'] : book[WorkedSide'][p].remaining_in \in Nat
    BY <2>2, BookSide, OrderFields DEF BookParts
  <2>4. \A q \in DOMAIN book[WorkedSide'] :
          ~(RemainingOf(tx'.makers, book[WorkedSide'][q].order_id)
              < book[WorkedSide'][q].remaining_in)
    BY <2>2, <2>3
  <2> QED
    BY <2>1, <2>4 DEF BestFirst
<1> QED
  BY <1>1, <1>2 DEF PriceKept

\* and by every other step.
LEMMA NextPrice ==
  ASSUME TypeInv, TxInv, BookParts, PriceKept, [Next]_vars
  PROVE  PriceKept'
<1>1. CASE Quiet
  BY <1>1 DEF Quiet, PriceKept, Passed, BestFirst, Exhausted, WorkedSide, Idle
<1>2. CASE tx' = Idle \/ Dooms
  BY <1>2 DEF PriceKept, Dooms, Idle
<1>3. ASSUME Reverts \/ SubmitFilled \/ SubmitRests \/ SubmitReturns \/ PruneReturns
             \/ \E b \in BookId, t \in Tag : \E k \in DOMAIN book[b] : CancelOrder(b, k, t)
      PROVE  tx' = Idle
  BY <1>3, EndSteps, CancelStep DEF Reverts, Stores
<1> QED
  BY <1>1, <1>2, <1>3, BeginsPrice, PassesPrice, FillPrice, TradeSteps

\* What a step of a submit_order does to the makers.
LEMMA StepPrice ==
  ASSUME TypeInv, TxInv, BookParts, PriceKept, [Next]_vars, tx.op = "submit"
  PROVE  \/ book' = book
         \/ \A b \in BookId : \A k, l \in DOMAIN book[b] :
              (k < l /\ RemainingOf(book'[b], book[b][l].order_id) < book[b][l].remaining_in) =>
                \/ book[b][k].expiry < clock
                \/ RemainingOf(book'[b], book[b][k].order_id) < Lot(book[b][k])
<1>1. CASE SubmitFilled \/ SubmitRests \/ SubmitReturns \/ PruneReturns
  <2>1. /\ WorkedSide \in BookId /\ book'[WorkedSide] = tx.makers
        /\ \A b \in BookId : \A k \in DOMAIN book[b] :
             b # WorkedSide =>
               RemainingOf(book'[b], book[b][k].order_id) = book[b][k].remaining_in
    BY <1>1, OthersWhole
  <2>2. \A b \in BookId : \A k \in DOMAIN book[b] : book[b][k].remaining_in \in Nat
    BY BookSide, OrderFields DEF BookParts
  <2>3. ASSUME NEW b \in BookId, NEW k \in DOMAIN book[b], NEW l \in DOMAIN book[b], k < l,
               RemainingOf(book'[b], book[b][l].order_id) < book[b][l].remaining_in
        PROVE  \/ book[b][k].expiry < clock
               \/ RemainingOf(book'[b], book[b][k].order_id) < Lot(book[b][k])
    <3>1. b = WorkedSide
      BY <2>1, <2>2, <2>3
    <3> QED
      BY <2>1, <2>3, <3>1 DEF PriceKept, BestFirst, Exhausted
  <2> QED
    BY <2>3
<1>2. ~ \E b \in BookId, t \in Tag : \E k \in DOMAIN book[b] : CancelOrder(b, k, t)
  BY CancelStep DEF Idle
<1>3. Quiet \/ Begins \/ Reverts \/ Passes \/ FillMaker \/ Dooms => book' = book
  BY FillEffect DEF Quiet, Begins, Reverts, Passes, Dooms, bookVars
<1> QED
  BY <1>1, <1>2, <1>3, TradeSteps

\* A submit_order trades with a maker only when no maker ahead of it has a
\* whole lot left, unless that one had expired.
THEOREM PriceStaysPrior == Spec => PricePriority
<1>1. Init => PriceKept
  BY DEF Init, PriceKept, Idle
<1>2. TradeInv /\ PriceKept /\ [Next]_vars => (TradeInv /\ PriceKept)'
  BY NextTrade, NextPrice DEF TradeInv
<1>3. TradeInv /\ PriceKept /\ [Next]_vars
        => [\A b \in BookId : \A k, l \in DOMAIN book[b] :
              LET ahead == book[b][k]  traded == book[b][l] IN
              (/\ tx.op = "submit" /\ k < l
               /\ RemainingOf(book'[b], traded.order_id) < traded.remaining_in) =>
                \/ ahead.expiry < clock
                \/ RemainingOf(book'[b], ahead.order_id) < Lot(ahead)]_book
  BY StepPrice DEF TradeInv
<1> QED
  BY <1>1, <1>2, <1>3, InitTrade, PTL DEF Spec, PricePriority

-----------------------------------------------------------------------------
(***************************************************************************)
(* Limit prices: what a fill pays, and what that adds up to.               *)
(***************************************************************************)

\* The notes of ns are among those of all.
Grows(ns, all) == \A i \in DOMAIN ns : i \in DOMAIN all /\ all[i] = ns[i]

\* Among the notes ms is one of n units of a for the tag t, unless n is 0.
Mints(ms, a, n, t) ==
  n = 0 \/ \E i \in DOMAIN ms : ms[i].asset = a /\ ms[i].amount = n /\ ms[i].owner_tag = t

\* The notes that Proceeds counts.
LEMMA ProceedsTerms ==
  ASSUME NEW ns \in Seq(Note), NEW t, NEW a
  PROVE  LET mine == {i \in DOMAIN ns : ns[i].owner_tag = t /\ ns[i].asset = a}
             f == [i \in DOMAIN ns |-> ns[i].amount]
         IN  /\ IsFiniteSet(mine) /\ \A i \in mine : f[i] \in Nat
             /\ Proceeds(ns, t, a) = Total(f, mine) /\ Proceeds(ns, t, a) \in Nat
<1> DEFINE mine == {i \in DOMAIN ns : ns[i].owner_tag = t /\ ns[i].asset = a}
           f == [i \in DOMAIN ns |-> ns[i].amount]
           g == [i \in mine |-> ns[i].amount]
<1>1. DOMAIN ns = 1..Len(ns) /\ \A i \in DOMAIN ns : ns[i].amount \in Nat
  BY WorthTerms
<1>2. IsFiniteSet(mine)
  <2>1. mine \in SUBSET (1..Len(ns)) /\ IsFiniteSet(1..Len(ns))
    BY <1>1, FS_Interval, LenProperties
  <2> QED
    BY <2>1, FS_Subset
<1>3. \A i \in mine : f[i] \in Nat /\ g[i] = f[i]
  BY <1>1
<1>4. Proceeds(ns, t, a) = Total(g, mine)
  BY DEF Proceeds
<1> HIDE DEF mine, f, g
<1>5. Total(g, mine) = Total(f, mine)
  BY <1>3, TotalSame
<1>6. Total(f, mine) \in Nat
  BY <1>2, <1>3, TotalType
<1> QED
  BY <1>2, <1>3, <1>4, <1>5, <1>6 DEF mine, f

\* What an owner has been paid never becomes less.
LEMMA ProceedsGrow ==
  ASSUME NEW ns \in Seq(Note), NEW all \in Seq(Note), Grows(ns, all), NEW t, NEW a
  PROVE  /\ Proceeds(ns, t, a) \in Nat /\ Proceeds(all, t, a) \in Nat
         /\ Proceeds(all, t, a) >= Proceeds(ns, t, a)
         /\ \A i \in (DOMAIN all) \ (DOMAIN ns) :
              all[i].owner_tag = t /\ all[i].asset = a =>
                Proceeds(all, t, a) >= Proceeds(ns, t, a) + all[i].amount
<1> DEFINE old == {i \in DOMAIN ns : ns[i].owner_tag = t /\ ns[i].asset = a}
           now == {i \in DOMAIN all : all[i].owner_tag = t /\ all[i].asset = a}
           f == [i \in DOMAIN ns |-> ns[i].amount]
           g == [i \in DOMAIN all |-> all[i].amount]
<1>1. /\ IsFiniteSet(old) /\ \A i \in old : f[i] \in Nat
      /\ Proceeds(ns, t, a) = Total(f, old) /\ Proceeds(ns, t, a) \in Nat
  BY ProceedsTerms
<1>2. /\ IsFiniteSet(now) /\ \A i \in now : g[i] \in Nat
      /\ Proceeds(all, t, a) = Total(g, now) /\ Proceeds(all, t, a) \in Nat
  BY ProceedsTerms
<1>3. old \in SUBSET now /\ \A i \in old : f[i] = g[i]
  BY DEF Grows
<1>4. \A i \in (DOMAIN all) \ (DOMAIN ns) :
        all[i].owner_tag = t /\ all[i].asset = a =>
          i \in now /\ i \notin old /\ g[i] = all[i].amount
  OBVIOUS
<1> HIDE DEF old, now, f, g
<1>5. Total(f, old) = Total(g, old)
  BY <1>3, TotalSame
<1>6. IsFiniteSet(now \ old) /\ now = old \cup (now \ old) /\ old \cap (now \ old) = {}
  BY <1>2, <1>3, FS_Subset
<1>7. Total(g, now) = Total(g, old) + Total(g, now \ old)
  BY <1>1, <1>2, <1>6, TotalUnion
<1>8. Total(g, now \ old) \in Nat
  BY <1>2, <1>6, TotalType
<1>9. ASSUME NEW i \in now \ old
      PROVE  Total(g, now \ old) >= g[i]
  <2>1. Total(g, now \ old) = Total(g, (now \ old) \ {i}) + g[i]
    BY <1>2, <1>6, TotalRemove
  <2>2. IsFiniteSet((now \ old) \ {i})
    BY <1>6, FS_Subset
  <2>3. Total(g, (now \ old) \ {i}) \in Nat /\ g[i] \in Nat
    BY <1>2, <2>2, TotalType
  <2> QED
    BY <2>1, <2>3
<1>10. ASSUME NEW i \in (DOMAIN all) \ (DOMAIN ns), all[i].owner_tag = t, all[i].asset = a
       PROVE  Proceeds(all, t, a) >= Proceeds(ns, t, a) + all[i].amount
  <2>1. i \in now \ old /\ g[i] = all[i].amount /\ g[i] \in Nat
    BY <1>2, <1>4, <1>10
  <2>2. Total(g, now \ old) >= g[i]
    BY <1>9, <2>1
  <2> QED
    BY <1>1, <1>2, <1>5, <1>7, <1>8, <2>1, <2>2
<1>11. Proceeds(all, t, a) >= Proceeds(ns, t, a)
  BY <1>1, <1>2, <1>5, <1>7, <1>8
<1> QED
  BY <1>1, <1>2, <1>10, <1>11

\* Appending notes.
LEMMA AppendGrows ==
  ASSUME NEW ns \in Seq(Note), NEW ms \in Seq(Note)
  PROVE  /\ ns \o ms \in Seq(Note) /\ Grows(ns, ns \o ms)
         /\ \A i \in DOMAIN ms : /\ Len(ns) + i \in (DOMAIN (ns \o ms)) \ (DOMAIN ns)
                                 /\ (ns \o ms)[Len(ns) + i] = ms[i]
<1>1. /\ DOMAIN ns = 1..Len(ns) /\ DOMAIN ms = 1..Len(ms) /\ Len(ns) \in Nat /\ Len(ms) \in Nat
      /\ ns \o ms \in Seq(Note) /\ DOMAIN (ns \o ms) = 1..(Len(ns) + Len(ms))
      /\ \A i \in 1..(Len(ns) + Len(ms)) :
           (ns \o ms)[i] = IF i <= Len(ns) THEN ns[i] ELSE ms[i - Len(ns)]
  BY ConcatProperties, LenProperties
<1>2. Grows(ns, ns \o ms)
  BY <1>1 DEF Grows
<1>3. ASSUME NEW i \in DOMAIN ms
      PROVE  /\ Len(ns) + i \in (DOMAIN (ns \o ms)) \ (DOMAIN ns)
             /\ (ns \o ms)[Len(ns) + i] = ms[i]
  <2>1. /\ i \in Nat /\ Len(ns) + i \in 1..(Len(ns) + Len(ms)) /\ Len(ns) + i \notin 1..Len(ns)
        /\ ~(Len(ns) + i <= Len(ns)) /\ (Len(ns) + i) - Len(ns) = i
    BY <1>1
  <2> QED
    BY <1>1, <2>1
<1> QED
  BY <1>1, <1>2, <1>3

\* A note that is minted is among those minted,
LEMMA MintsNote ==
  ASSUME NEW a, NEW n, NEW t
  PROVE  Mints(MintNote(a, n, t), a, n, t)
<1>1. n # 0 => /\ 1 \in DOMAIN MintNote(a, n, t)
               /\ MintNote(a, n, t)[1] = MakeNote(a, n, t)
  BY DEF MintNote
<1> QED
  BY <1>1 DEF Mints, MakeNote

\* also among more of them,
LEMMA MintsBoth ==
  ASSUME NEW ms \in Seq(Note), NEW ks \in Seq(Note), NEW a, NEW n, NEW t,
         Mints(ms, a, n, t) \/ Mints(ks, a, n, t)
  PROVE  Mints(ms \o ks, a, n, t)
<1>1. \A i \in DOMAIN ms : i \in DOMAIN (ms \o ks) /\ (ms \o ks)[i] = ms[i]
  BY AppendGrows DEF Grows
<1>2. \A i \in DOMAIN ks : /\ Len(ms) + i \in DOMAIN (ms \o ks)
                            /\ (ms \o ks)[Len(ms) + i] = ks[i]
  BY AppendGrows
<1> QED
  BY <1>1, <1>2 DEF Mints

\* and adds its amount to the proceeds of its tag.
LEMMA ProceedsMint ==
  ASSUME NEW ns \in Seq(Note), NEW ms \in Seq(Note), NEW a, NEW n \in Nat, NEW t,
         Mints(ms, a, n, t)
  PROVE  Proceeds(ns \o ms, t, a) >= Proceeds(ns, t, a) + n
<1>1. ns \o ms \in Seq(Note) /\ Grows(ns, ns \o ms)
  BY AppendGrows
<1>2. /\ Proceeds(ns, t, a) \in Nat /\ Proceeds(ns \o ms, t, a) \in Nat
      /\ Proceeds(ns \o ms, t, a) >= Proceeds(ns, t, a)
  BY <1>1, ProceedsGrow
<1>3. CASE n = 0
  BY <1>2, <1>3
<1>4. CASE n # 0
  <2>1. PICK i \in DOMAIN ms : ms[i].asset = a /\ ms[i].amount = n /\ ms[i].owner_tag = t
    BY <1>4 DEF Mints
  <2>2. /\ Len(ns) + i \in (DOMAIN (ns \o ms)) \ (DOMAIN ns)
        /\ (ns \o ms)[Len(ns) + i] = ms[i]
    BY AppendGrows
  <2> QED
    BY <1>1, <2>1, <2>2, ProceedsGrow
<1> QED
  BY <1>3, <1>4

\* More notes leave a paid order paid.
LEMMA PaidGrows ==
  ASSUME NEW ns \in Seq(Note), NEW all \in Seq(Note), Grows(ns, all), NEW e \in OrderEntry,
         NEW left \in Nat, NEW b, PaidAtLimit(ns, e, b, left)
  PROVE  PaidAtLimit(all, e, b, left)
<1> DEFINE p == Proceeds(ns, e.output_owner_tag, WantAsset(b))
           q == Proceeds(all, e.output_owner_tag, WantAsset(b))
<1>1. p \in Nat /\ q \in Nat /\ q >= p
  BY ProceedsGrow
<1>2. e.amount_in \in Nat /\ e.min_out \in Nat
  BY OrderFields
<1>3. p * e.amount_in >= e.min_out * (e.amount_in - left)
  BY DEF PaidAtLimit
<1> HIDE DEF p, q
<1>4. q * e.amount_in >= p * e.amount_in /\ q * e.amount_in \in Nat /\ p * e.amount_in \in Nat
  BY <1>1, <1>2
<1>5. e.min_out * (e.amount_in - left) \in Int
  BY <1>2
<1>6. q * e.amount_in >= e.min_out * (e.amount_in - left)
  BY <1>3, <1>4, <1>5
<1> QED
  BY <1>6 DEF PaidAtLimit, q

\* The order is the same one.
LEMMA PaidSame ==
  ASSUME NEW ns, NEW e, NEW d, SameOrder(d, e), NEW b, NEW left
  PROVE  PaidAtLimit(ns, d, b, left) <=> PaidAtLimit(ns, e, b, left)
BY DEF PaidAtLimit, SameOrder

\* An order that gives given more units for got more units, at its limit or
\* better, stays paid.
LEMMA PaidFill ==
  ASSUME NEW ns \in Seq(Note), NEW ms \in Seq(Note), NEW e \in OrderEntry, NEW b,
         NEW left \in Nat, NEW given \in 0..left, NEW got \in Nat,
         PaidAtLimit(ns, e, b, left),
         Mints(ms, WantAsset(b), got, e.output_owner_tag),
         got * e.amount_in >= e.min_out * given
  PROVE  PaidAtLimit(ns \o ms, e, b, left - given)
<1> DEFINE p == Proceeds(ns, e.output_owner_tag, WantAsset(b))
           q == Proceeds(ns \o ms, e.output_owner_tag, WantAsset(b))
           am == e.amount_in
           mo == e.min_out
<1>1. ns \o ms \in Seq(Note) /\ Grows(ns, ns \o ms)
  BY AppendGrows
<1>2. p \in Nat /\ q \in Nat
  BY <1>1, ProceedsGrow
<1>3. q >= p + got
  BY ProceedsMint
<1>4. am \in Nat /\ mo \in Nat /\ given \in Nat /\ given <= left
  BY OrderFields
<1>5. p * am >= mo * (am - left) /\ got * am >= mo * given
  BY DEF PaidAtLimit
<1> HIDE DEF p, q, am, mo
<1>6. q * am >= (p + got) * am
  BY <1>2, <1>3, <1>4
<1>7. (p + got) * am = p * am + got * am
  BY <1>2, <1>4
<1>8. mo * (am - (left - given)) = mo * (am - left) + mo * given
  BY <1>4
<1>9. /\ p * am \in Int /\ got * am \in Int /\ q * am \in Int
      /\ mo * (am - left) \in Int /\ mo * given \in Int
  BY <1>2, <1>4
<1>10. q * am >= mo * (am - (left - given))
  BY <1>5, <1>6, <1>7, <1>8, <1>9
<1> QED
  BY <1>10 DEF PaidAtLimit, q, am, mo

\* Every resting order has been paid its limit price for what it has given;
\* while a transaction runs, with the notes that it has minted so far, so have
\* the orders of the side it rewrites (a prune may have taken one out) and the
\* order of a submit_order.
RestingPaid ==
  \A b \in BookId : \A k \in DOMAIN book[b] :
    PaidAtLimit(notes, book[b][k], b, book[b][k].remaining_in)
MakersPaid ==
  tx # Idle =>
    \A p \in DOMAIN book[WorkedSide] :
      LET e == book[WorkedSide][p] IN
      \/ tx.op = "prune" /\ ~Rested(tx.makers, e.order_id)
      \/ PaidAtLimit(notes \o tx.minted, e, WorkedSide, RemainingOf(tx.makers, e.order_id))
TakerPaid ==
  tx.op = "submit" =>
    PaidAtLimit(notes \o tx.minted, tx.taker, tx.book_id, tx.taker.remaining_in)
AllPaid == RestingPaid /\ MakersPaid /\ TakerPaid

\* How many of an order there are is a number.
LEMMA RemainingNat ==
  ASSUME NEW s \in Seq(OrderEntry), NEW id
  PROVE  RemainingOf(s, id) \in Nat
<1>1. \A k \in DOMAIN s : s[k].remaining_in \in Nat
  BY ElementOfSeq, LenProperties, OrderFields
<1>2. Rested(s, id) => Position(s, id) \in DOMAIN s
  BY DEF Rested, Position
<1> QED
  BY <1>1, <1>2 DEF RemainingOf

\* The maker and the taker of a fill get at least their limit price.
LEMMA FillTerms ==
  ASSUME TypeInv, FillMaker
  PROVE  /\ Gives \in Nat /\ Pays \in Nat
         /\ Pays * Maker.amount_in >= Maker.min_out * Gives
         /\ Gives * tx.taker.amount_in >= tx.taker.min_out * Pays
<1> DEFINE k == FillLots(Maker, tx.taker.remaining_in)
           l == Lot(Maker)
           p == LotPrice(Maker)
           ma == Maker.amount_in
           mm == Maker.min_out
           ta == tx.taker.amount_in
           tm == tx.taker.min_out
<1>1. /\ Maker \in OrderEntry /\ tx.taker \in OrderEntry
  BY FillFields, SubmitFields
<1>2. /\ ma \in Nat \ {0} /\ mm \in Nat \ {0} /\ ta \in Nat \ {0} /\ tm \in Nat \ {0}
      /\ Maker.remaining_in \in Nat /\ tx.taker.remaining_in \in Nat
  BY <1>1, OrderFields
<1>3. l \in Nat \ {0} /\ p \in Nat \ {0} /\ l * mm = p * ma
  BY <1>2, LotProperties
<1>4. k \in Nat
  BY <1>2, FillProperties
<1>5. mm * tm <= ma * ta
  <2>1. InLoop /\ ~Breaks(tx) /\ ~Skips(tx)
    BY DEF FillMaker
  <2>2. ~Expired(Maker)
    BY <2>1 DEF Skips, Maker
  <2>3. CrossAmounts(ma, mm, ta, tm)
    BY <2>1, <2>2 DEF Breaks, Maker
  <2> QED
    BY <2>3 DEF CrossAmounts
<1>6. Gives = k * l /\ Pays = k * p
  BY DEF Gives, Pays
<1> HIDE DEF k, l, p, ma, mm, ta, tm
<1>7. k * l \in Nat /\ k * p \in Nat
  BY <1>3, <1>4
<1>8. (k * p) * ma >= mm * (k * l)
  <2>1. (k * p) * ma = k * (p * ma) /\ mm * (k * l) = k * (l * mm)
    BY <1>2, <1>3, <1>4
  <2> QED
    BY <1>3, <2>1, <1>2, <1>4
<1>9. l * ta >= tm * p
  <2> DEFINE x == l * ta
             y == tm * p
  <2>1. x * mm = p * (ma * ta)
    <3>1. (l * ta) * mm = (l * mm) * ta /\ (p * ma) * ta = p * (ma * ta)
      BY <1>2, <1>3
    <3> QED
      BY <1>3, <3>1
  <2>2. y * mm = p * (mm * tm)
    BY <1>2, <1>3
  <2>3. p * (ma * ta) >= p * (mm * tm)
    <3>1. \A n \in Nat : \A c, d \in Int : c >= d => n * c >= n * d
      OBVIOUS
    <3>2. ma * ta \in Int /\ mm * tm \in Int
      BY <1>2
    <3> QED
      BY <1>3, <1>5, <3>1, <3>2
  <2>4. x \in Int /\ y \in Int
    BY <1>2, <1>3
  <2> HIDE DEF x, y
  <2>5. x * mm >= y * mm
    BY <2>1, <2>2, <2>3
  <2>6. x >= y
    <3>1. \A n \in Nat \ {0} : \A c, d \in Int : c * n >= d * n => c >= d
      <4> TAKE n \in Nat \ {0}
      <4> TAKE c, d \in Int
      <4> HAVE c * n >= d * n
      <4>1. c < d => (d - c) >= 1 /\ (d - c) * n >= n
        OBVIOUS
      <4>2. (d - c) * n = d * n - c * n
        OBVIOUS
      <4> QED
        BY <4>1, <4>2
    <3> QED
      BY <1>2, <2>4, <2>5, <3>1
  <2> QED
    BY <2>6 DEF x, y
<1>10. (k * l) * ta >= tm * (k * p)
  <2>1. (k * l) * ta = k * (l * ta) /\ tm * (k * p) = k * (tm * p)
    BY <1>2, <1>3, <1>4
  <2>2. \A n \in Nat : \A c, d \in Int : c >= d => n * c >= n * d
    OBVIOUS
  <2>3. l * ta \in Int /\ tm * p \in Int
    BY <1>2, <1>3
  <2> QED
    BY <1>4, <1>9, <2>1, <2>2, <2>3
<1> QED
  BY <1>6, <1>7, <1>8, <1>10 DEF ma, mm, ta, tm

\* Notes minted one after the other, in either grouping.
LEMMA NotesAssociate ==
  ASSUME NEW ks \in Seq(Note), NEW ms \in Seq(Note), NEW ns \in Seq(Note)
  PROVE  ks \o (ms \o ns) = (ks \o ms) \o ns
BY ConcatAssociative

\* What has been minted so far by the running transaction.
LEMMA MintedSoFar ==
  ASSUME TypeInv, tx # Idle
  PROVE  /\ tx.minted \in Seq(Note) /\ notes \in Seq(Note) /\ notes \o tx.minted \in Seq(Note)
         /\ \A more \in Seq(Note) :
              /\ notes \o (tx.minted \o more) = (notes \o tx.minted) \o more
              /\ Grows(notes \o tx.minted, notes \o (tx.minted \o more))
              /\ Grows(notes, notes \o (tx.minted \o more))
              /\ notes \o (tx.minted \o more) \in Seq(Note)
<1>1. tx.op = "submit" \/ tx.op = "prune"
  BY DEF TypeInv, SubmitTx, PruneTx
<1>2. tx.minted \in Seq(Note) /\ notes \in Seq(Note)
  BY <1>1, SubmitFields, PruneFields DEF TypeInv
<1>3. notes \o tx.minted \in Seq(Note)
  BY <1>2, AppendGrows
<1>4. ASSUME NEW more \in Seq(Note)
      PROVE  /\ notes \o (tx.minted \o more) = (notes \o tx.minted) \o more
             /\ Grows(notes \o tx.minted, notes \o (tx.minted \o more))
             /\ Grows(notes, notes \o (tx.minted \o more))
             /\ notes \o (tx.minted \o more) \in Seq(Note)
  <2>1. notes \o (tx.minted \o more) = (notes \o tx.minted) \o more
    BY <1>2, NotesAssociate
  <2>2. tx.minted \o more \in Seq(Note)
    BY <1>2, AppendGrows
  <2>3. /\ Grows(notes \o tx.minted, (notes \o tx.minted) \o more)
        /\ Grows(notes, notes \o (tx.minted \o more))
        /\ notes \o (tx.minted \o more) \in Seq(Note)
    BY <1>2, <1>3, <2>2, AppendGrows
  <2> QED
    BY <2>1, <2>3
<1> QED
  BY <1>2, <1>3, <1>4

\* AllPaid is kept by a fill,
LEMMA FillPaid ==
  ASSUME TypeInv, BookParts, AllPaid, FillMaker
  PROVE  AllPaid'
<1> USE DEF BookParts
<1> DEFINE sofar == notes \o tx.minted
<1>1. /\ book' = book /\ notes' = notes
      /\ tx.op = "submit" /\ tx'.op = "submit" /\ tx'.book_id = tx.book_id /\ tx # Idle
      /\ tx'.makers = MakersAfter /\ tx'.taker = TakerAfter /\ tx'.minted = tx.minted \o FillMints
      /\ FillMints \in Seq(Note)
  BY FillEffect, FillFields, SubmitFields DEF bookVars, poolVars
<1>2. WorkedSide' = WorkedSide /\ WorkedSide = OtherSide(tx.book_id)
  BY <1>1 DEF WorkedSide
<1>3. /\ sofar \in Seq(Note) /\ notes' \o tx'.minted = sofar \o FillMints
      /\ Grows(sofar, sofar \o FillMints) /\ sofar \o FillMints \in Seq(Note)
  BY <1>1, MintedSoFar
<1>4. /\ tx.book_id \in BookId /\ WorkedSide \in BookId
      /\ WantAsset(WorkedSide) = GiveAsset(tx.book_id)
      /\ tx.taker \in OrderEntry /\ Maker \in OrderEntry /\ TakerAfter \in OrderEntry
      /\ tx.i \in DOMAIN tx.makers /\ Maker = tx.makers[tx.i]
      /\ tx.makers \in Seq(OrderEntry) /\ MakersAfter \in Seq(OrderEntry)
  BY <1>1, <1>2, SubmitFields, SideTypes, FillFields, LenProperties DEF Maker
<1>5. /\ Mints(FillMints, WantAsset(tx.book_id), Gives, tx.taker.output_owner_tag)
      /\ Mints(FillMints, GiveAsset(tx.book_id), Pays, Maker.output_owner_tag)
  <2> DEFINE m == MintNote(WantAsset(tx.book_id), Gives, tx.taker.output_owner_tag)
             n == MintNote(GiveAsset(tx.book_id), Pays, Maker.output_owner_tag)
  <2>1. m \in Seq(Note) /\ n \in Seq(Note)
    <3>1. WantAsset(tx.book_id) \in Asset /\ GiveAsset(tx.book_id) \in Asset
      BY <1>4, SideTypes
    <3> QED
      BY <1>4, <3>1, OrderFields, FillTerms, MintNoteType
  <2>2. /\ Mints(m, WantAsset(tx.book_id), Gives, tx.taker.output_owner_tag)
        /\ Mints(n, GiveAsset(tx.book_id), Pays, Maker.output_owner_tag)
    BY MintsNote
  <2>3. FillMints = m \o n
    BY DEF FillMints
  <2> HIDE DEF m, n
  <2> QED
    BY <2>1, <2>2, <2>3, MintsBoth
<1>6. /\ Gives \in Nat /\ Pays \in Nat
      /\ Pays * Maker.amount_in >= Maker.min_out * Gives
      /\ Gives * tx.taker.amount_in >= tx.taker.min_out * Pays
  BY FillTerms
<1>7. /\ Gives \in 0..Maker.remaining_in /\ Pays \in 0..tx.taker.remaining_in
      /\ MakerAfter.remaining_in = Maker.remaining_in - Gives
      /\ TakerAfter.remaining_in = tx.taker.remaining_in - Pays
      /\ Maker.remaining_in \in Nat /\ tx.taker.remaining_in \in Nat
  BY <1>4, FillFields, OrderFields
<1> HIDE DEF sofar
<1>8. TakerPaid'
  <2>1. PaidAtLimit(sofar, tx.taker, tx.book_id, tx.taker.remaining_in)
    BY <1>1 DEF AllPaid, TakerPaid, sofar
  <2>2. PaidAtLimit(sofar \o FillMints, tx.taker, tx.book_id, tx.taker.remaining_in - Pays)
    BY <1>1, <1>3, <1>4, <1>5, <1>6, <1>7, <2>1, PaidFill
  <2>3. /\ TakerAfter.output_owner_tag = tx.taker.output_owner_tag
        /\ TakerAfter.amount_in = tx.taker.amount_in /\ TakerAfter.min_out = tx.taker.min_out
    BY <1>4 DEF TakerAfter, OrderEntry
  <2>4. PaidAtLimit(sofar \o FillMints, TakerAfter, tx.book_id, TakerAfter.remaining_in)
    BY <1>7, <2>2, <2>3 DEF PaidAtLimit
  <2> QED
    BY <1>1, <1>3, <2>4 DEF TakerPaid
<1>9. ASSUME NEW p \in DOMAIN book[WorkedSide]
      PROVE  PaidAtLimit(sofar \o FillMints, book[WorkedSide][p], WorkedSide,
                         RemainingOf(MakersAfter, book[WorkedSide][p].order_id))
  <2> DEFINE e == book[WorkedSide][p]
             left == RemainingOf(tx.makers, e.order_id)
  <2>1. e \in OrderEntry
    BY <1>4, BookSide
  <2>2. PaidAtLimit(sofar, e, WorkedSide, left) /\ left \in Nat
    BY <1>1, <1>4, RemainingNat DEF AllPaid, MakersPaid, sofar
  <2>3. CASE e.order_id # Maker.order_id
    <3>1. RemainingOf(MakersAfter, e.order_id) = left
      BY <2>3, FillRemaining
    <3>2. PaidAtLimit(sofar \o FillMints, e, WorkedSide, left)
      <4> HIDE DEF e, left
      <4> QED
        BY <1>3, <2>1, <2>2, PaidGrows
    <3> QED
      BY <3>1, <3>2
  <2>4. CASE e.order_id = Maker.order_id
    <3>1. left = Maker.remaining_in
          /\ RemainingOf(MakersAfter, e.order_id) = Maker.remaining_in - Gives
      BY <1>7, <2>4, FillRemaining
    <3>2. SameOrder(Maker, e)
      BY <1>1, <1>4, <2>4, SameId
    <3>3. /\ e.output_owner_tag = Maker.output_owner_tag
          /\ e.amount_in = Maker.amount_in /\ e.min_out = Maker.min_out
      BY <3>2 DEF SameOrder
    <3>4. PaidAtLimit(sofar \o FillMints, e, WorkedSide, left - Gives)
      <4> HIDE DEF e, left
      <4> QED
        BY <1>1, <1>3, <1>4, <1>5, <1>6, <1>7, <2>1, <2>2, <3>1, <3>3, PaidFill
    <3> QED
      BY <3>1, <3>4
  <2> QED
    BY <2>3, <2>4
<1>10. MakersPaid'
  BY <1>1, <1>2, <1>3, <1>9 DEF MakersPaid
<1>11. RestingPaid'
  BY <1>1 DEF AllPaid, RestingPaid
<1> QED
  BY <1>8, <1>10, <1>11 DEF AllPaid

\* by the removal of an expired order,
LEMMA DoomsPaid ==
  ASSUME TypeInv, BookParts, AllPaid, Dooms
  PROVE  AllPaid'
<1> USE DEF BookParts
<1> DEFINE sofar == notes \o tx.minted
<1>1. /\ book' = book /\ notes' = notes
      /\ tx.op = "prune" /\ tx'.op = "prune" /\ tx'.book_id = tx.book_id /\ tx # Idle
      /\ tx'.makers = RemoveAt(tx.makers, tx.i) /\ tx'.minted = tx.minted \o DoomedMints
      /\ DoomedMints \in Seq(Note) /\ tx.i \in 1..Len(tx.makers)
  BY DEF Dooms, bookVars, poolVars
<1>2. WorkedSide' = WorkedSide
  BY <1>1 DEF WorkedSide
<1>3. /\ sofar \in Seq(Note) /\ notes' \o tx'.minted = sofar \o DoomedMints
      /\ Grows(sofar, sofar \o DoomedMints) /\ sofar \o DoomedMints \in Seq(Note)
  BY <1>1, MintedSoFar
<1>4. WorkedSide \in BookId /\ tx.makers \in Seq(OrderEntry) /\ OwnIds(tx.makers)
  BY <1>1, MakerOf
<1> HIDE DEF sofar
<1>5. ASSUME NEW p \in DOMAIN book[WorkedSide],
             Rested(tx'.makers, book[WorkedSide][p].order_id)
      PROVE  PaidAtLimit(sofar \o DoomedMints, book[WorkedSide][p], WorkedSide,
                         RemainingOf(tx'.makers, book[WorkedSide][p].order_id))
  <2> DEFINE e == book[WorkedSide][p]
             left == RemainingOf(tx.makers, e.order_id)
  <2>1. e \in OrderEntry
    BY <1>4, BookSide
  <2>2. RemainingOf(tx'.makers, e.order_id) = left /\ Rested(tx.makers, e.order_id)
    BY <1>1, <1>4, <1>5, RemainingRemove
  <2>3. PaidAtLimit(sofar, e, WorkedSide, left) /\ left \in Nat
    BY <1>1, <1>4, <2>2, RemainingNat DEF AllPaid, MakersPaid, sofar
  <2>4. PaidAtLimit(sofar \o DoomedMints, e, WorkedSide, left)
    <3> HIDE DEF e, left
    <3> QED
      BY <1>3, <2>1, <2>3, PaidGrows
  <2> QED
    BY <2>2, <2>4
<1>6. MakersPaid'
  BY <1>1, <1>2, <1>3, <1>5 DEF MakersPaid
<1>7. RestingPaid' /\ TakerPaid'
  BY <1>1 DEF AllPaid, RestingPaid, TakerPaid
<1> QED
  BY <1>6, <1>7 DEF AllPaid

\* and by the start of a transaction.
LEMMA BeginsPaid ==
  ASSUME TypeInv, BookParts, AllPaid, Begins
  PROVE  AllPaid'
<1>1. /\ book' = book /\ notes' = notes /\ tx'.minted = <<>>
      /\ notes \in Seq(Note) /\ notes' \o tx'.minted = notes
  BY ConcatEmptySeq DEF Begins, TypeInv
<1>2. MakersPaid'
  <2>1. /\ WorkedSide' \in BookId
        /\ \A p \in DOMAIN book[WorkedSide'] :
             RemainingOf(tx'.makers, book[WorkedSide'][p].order_id)
               = book[WorkedSide'][p].remaining_in
    BY BeginsWhole DEF BookParts
  <2> QED
    BY <1>1, <2>1 DEF MakersPaid, AllPaid, RestingPaid
<1>3. TakerPaid'
  <2> SUFFICES ASSUME tx'.op = "submit" PROVE TakerPaid'
    BY DEF TakerPaid
  <2> DEFINE e == tx'.taker
             p == Proceeds(notes, e.output_owner_tag, WantAsset(tx'.book_id))
  <2>1. e \in OrderEntry /\ e.remaining_in = e.amount_in
    BY DEF Begins
  <2>2. p \in Nat
    BY <1>1, ProceedsTerms
  <2>3. e.amount_in \in Nat /\ e.min_out \in Nat /\ e.amount_in - e.remaining_in = 0
    BY <2>1, OrderFields
  <2>4. p * e.amount_in >= e.min_out * (e.amount_in - e.remaining_in)
    <3> HIDE DEF e, p
    <3>1. p * e.amount_in \in Nat /\ e.min_out * 0 = 0
      BY <2>2, <2>3
    <3> QED
      BY <2>3, <3>1
  <2>5. PaidAtLimit(notes, e, tx'.book_id, e.remaining_in)
    BY <2>4 DEF PaidAtLimit
  <2> QED
    BY <1>1, <2>5 DEF TakerPaid
<1>4. RestingPaid'
  BY <1>1 DEF AllPaid, RestingPaid
<1> QED
  BY <1>2, <1>3, <1>4 DEF AllPaid

\* The orders of a side are paid.
SidePaid(ns, orders, b) ==
  \A k \in DOMAIN orders : PaidAtLimit(ns, orders[k], b, orders[k].remaining_in)

\* More notes, or one order less, and the side is still paid.
LEMMA SideGrows ==
  ASSUME NEW ns \in Seq(Note), NEW all \in Seq(Note), Grows(ns, all),
         NEW orders \in Seq(OrderEntry), NEW b, SidePaid(ns, orders, b)
  PROVE  SidePaid(all, orders, b)
<1>1. \A k \in DOMAIN orders : orders[k] \in OrderEntry /\ orders[k].remaining_in \in Nat
  BY ElementOfSeq, LenProperties, OrderFields
<1>2. ASSUME NEW k \in DOMAIN orders
      PROVE  PaidAtLimit(all, orders[k], b, orders[k].remaining_in)
  <2> DEFINE e == orders[k]
             left == orders[k].remaining_in
  <2>1. e \in OrderEntry /\ left \in Nat /\ PaidAtLimit(ns, e, b, left)
    BY <1>1 DEF SidePaid
  <2> HIDE DEF e, left
  <2>2. PaidAtLimit(all, e, b, left)
    BY <2>1, PaidGrows
  <2> QED
    BY <2>2 DEF e, left
<1> QED
  BY <1>2 DEF SidePaid

\* A side whose orders are paid stays so without one of them,
LEMMA SideRemove ==
  ASSUME NEW ns, NEW orders \in Seq(OrderEntry), NEW i \in 1..Len(orders), NEW b,
         SidePaid(ns, orders, b)
  PROVE  SidePaid(ns, RemoveAt(orders, i), b)
<1> DEFINE r == RemoveAt(orders, i)
<1>1. /\ r \in Seq(OrderEntry) /\ Len(r) = Len(orders) - 1
      /\ \A k \in 1..(Len(orders) - 1) : r[k] = IF k < i THEN orders[k] ELSE orders[k + 1]
  BY RemoveAtProperties
<1>2. /\ Len(orders) \in Nat /\ DOMAIN orders = 1..Len(orders)
      /\ DOMAIN r = 1..(Len(orders) - 1)
  BY <1>1, LenProperties
<1> HIDE DEF r
<1>3. \A k \in DOMAIN r : \E p \in DOMAIN orders : r[k] = orders[p]
  BY <1>1, <1>2
<1>4. SidePaid(ns, r, b)
  BY <1>3 DEF SidePaid
<1> QED
  BY <1>4 DEF r

\* and with one more that is paid.
LEMMA SideInsert ==
  ASSUME NEW ns, NEW orders \in Seq(OrderEntry), NEW p \in 1..(Len(orders) + 1),
         NEW e \in OrderEntry, NEW r, r = InsertAt(orders, p, e), NEW b,
         SidePaid(ns, orders, b), PaidAtLimit(ns, e, b, e.remaining_in)
  PROVE  SidePaid(ns, r, b)
<1>1. /\ Len(orders) \in Nat /\ DOMAIN orders = 1..Len(orders)
      /\ DOMAIN r = 1..(Len(orders) + 1)
      /\ \A k \in 1..(Len(orders) + 1) :
           r[k] = IF k < p THEN orders[k] ELSE IF k = p THEN e ELSE orders[k - 1]
  BY InsertOrder
<1>2. \A k \in DOMAIN r : r[k] = e \/ \E q \in DOMAIN orders : r[k] = orders[q]
  BY <1>1
<1> QED
  BY <1>2 DEF SidePaid

\* Every side that is stored when a transaction ends is paid.
LEMMA StoresPaid ==
  ASSUME TypeInv, BookParts, AllPaid, NEW more \in Seq(Note), NEW own,
         Stores(tx.minted \o more, own),
         tx.op = "submit" =>
           /\ own \in Seq(OrderEntry)
           /\ SidePaid(notes \o (tx.minted \o more), own, tx.book_id)
  PROVE  RestingPaid'
<1> USE DEF BookParts
<1> DEFINE sofar == notes \o tx.minted
           all == notes \o (tx.minted \o more)
<1>1. /\ tx # Idle /\ notes' = all /\ WorkedSide \in BookId /\ tx.book_id \in BookId
      /\ \A c \in BookId : book'[c] = IF c = WorkedSide THEN tx.makers
                                      ELSE IF c = tx.book_id THEN own ELSE book[c]
      /\ tx.op = "prune" => tx.book_id = WorkedSide
      /\ tx.op = "submit" \/ tx.op = "prune"
  BY DEF Stores
<1>2. /\ notes \in Seq(Note) /\ sofar \in Seq(Note) /\ all \in Seq(Note)
      /\ Grows(sofar, all) /\ Grows(notes, all)
  BY <1>1, MintedSoFar
<1>3. /\ tx.makers \in Seq(OrderEntry) /\ OwnIds(tx.makers)
      /\ \A k \in DOMAIN tx.makers :
           \E p \in DOMAIN book[WorkedSide] : SameOrder(tx.makers[k], book[WorkedSide][p])
  BY <1>1, MakerOf
<1>4. SidePaid(sofar, tx.makers, WorkedSide)
  <2> SUFFICES ASSUME NEW k \in DOMAIN tx.makers
               PROVE  PaidAtLimit(sofar, tx.makers[k], WorkedSide, tx.makers[k].remaining_in)
    BY DEF SidePaid
  <2> DEFINE d == tx.makers[k]
  <2>1. PICK p \in DOMAIN book[WorkedSide] : SameOrder(d, book[WorkedSide][p])
    BY <1>3
  <2> DEFINE e == book[WorkedSide][p]
  <2>2. d.order_id = e.order_id
    BY <2>1 DEF SameOrder
  <2>3. Rested(tx.makers, e.order_id) /\ RemainingOf(tx.makers, e.order_id) = d.remaining_in
    BY <1>3, <2>2, PositionOf
  <2>4. PaidAtLimit(sofar, e, WorkedSide, d.remaining_in)
    BY <1>1, <2>3 DEF AllPaid, MakersPaid
  <2> HIDE DEF sofar
  <2> QED
    BY <2>1, <2>4, PaidSame
<1> HIDE DEF sofar, all
<1>5. SidePaid(all, tx.makers, WorkedSide)
  BY <1>2, <1>3, <1>4, SideGrows
<1>6. \A c \in BookId : SidePaid(all, book[c], c)
  <2> TAKE c \in BookId
  <2>1. book[c] \in Seq(OrderEntry) /\ SidePaid(notes, book[c], c)
    BY BookSide DEF AllPaid, RestingPaid, SidePaid
  <2> DEFINE s == book[c]
  <2> HIDE DEF s
  <2>2. SidePaid(all, s, c)
    BY <1>2, <2>1, SideGrows DEF s
  <2> QED
    BY <2>2 DEF s
<1>7. \A c \in BookId : SidePaid(all, book'[c], c)
  BY <1>1, <1>5, <1>6 DEF all
<1> QED
  BY <1>1, <1>7 DEF RestingPaid, SidePaid

\* A transaction that ends leaves every resting order paid.
LEMMA EndsPaid ==
  ASSUME TypeInv, TxInv, BookParts, AllPaid,
         SubmitFilled \/ SubmitRests \/ SubmitReturns \/ PruneReturns
  PROVE  AllPaid'
<1> USE DEF BookParts
<1>1. /\ tx # Idle /\ tx' = Idle
      /\ LoopDone => tx.op = "submit" /\ tx.book_id \in BookId /\ tx.taker \in OrderEntry
  BY EndSteps, SubmitFields DEF Stores, LoopDone
<1>2. /\ tx.minted \in Seq(Note) /\ notes \in Seq(Note)
      /\ tx.minted \o <<>> = tx.minted /\ <<>> \in Seq(Note)
  BY <1>1, MintedSoFar, ConcatEmptySeq
<1>3. ASSUME LoopDone, NEW more \in Seq(Note)
      PROVE  /\ book[tx.book_id] \in Seq(OrderEntry)
             /\ SidePaid(notes \o (tx.minted \o more), book[tx.book_id], tx.book_id)
             /\ PaidAtLimit(notes \o (tx.minted \o more), tx.taker, tx.book_id,
                            tx.taker.remaining_in)
  <2> DEFINE all == notes \o (tx.minted \o more)
             sofar == notes \o tx.minted
             s == book[tx.book_id]
  <2>1. /\ all \in Seq(Note) /\ sofar \in Seq(Note) /\ Grows(sofar, all) /\ Grows(notes, all)
    BY <1>1, MintedSoFar
  <2>2. s \in Seq(OrderEntry) /\ SidePaid(notes, s, tx.book_id)
    BY <1>1, <1>3, BookSide DEF AllPaid, RestingPaid, SidePaid
  <2>3. /\ PaidAtLimit(sofar, tx.taker, tx.book_id, tx.taker.remaining_in)
        /\ tx.taker \in OrderEntry /\ tx.taker.remaining_in \in Nat
    BY <1>1, <1>3, OrderFields DEF AllPaid, TakerPaid
  <2> HIDE DEF all, sofar, s
  <2>4. SidePaid(all, s, tx.book_id)
    BY <1>2, <2>1, <2>2, SideGrows
  <2>5. PaidAtLimit(all, tx.taker, tx.book_id, tx.taker.remaining_in)
    BY <2>1, <2>3, PaidGrows
  <2> QED
    BY <2>2, <2>4, <2>5 DEF all, s
<1>4. ASSUME Stores(tx.minted, book[tx.book_id]) /\ LoopDone
      PROVE  RestingPaid'
  BY <1>2, <1>3, <1>4, StoresPaid
<1>5. ASSUME Stores(tx.minted, OwnAfter) /\ LoopDone /\ tx.taker.remaining_in > 0
      PROVE  RestingPaid'
  <2> DEFINE p == InsertPosition(book[tx.book_id], tx.taker, tx.book_id[2])
             all == notes \o (tx.minted \o <<>>)
  <2>1. p \in 1..(Len(book[tx.book_id]) + 1) /\ OwnAfter = InsertAt(book[tx.book_id], p, tx.taker)
    BY <1>1, <1>5, TakerRests
  <2>2. /\ book[tx.book_id] \in Seq(OrderEntry) /\ tx.taker \in OrderEntry
        /\ SidePaid(all, book[tx.book_id], tx.book_id)
        /\ PaidAtLimit(all, tx.taker, tx.book_id, tx.taker.remaining_in)
    BY <1>1, <1>2, <1>3, <1>5
  <2> HIDE DEF p, all
  <2>3. SidePaid(all, OwnAfter, tx.book_id)
    BY <2>1, <2>2, SideInsert
  <2>4. OwnAfter \in Seq(OrderEntry)
    BY <2>1, <2>2, InsertAtProperties
  <2> QED
    BY <1>2, <1>5, <2>3, <2>4, StoresPaid DEF all
<1>6. ASSUME Stores(tx.minted \o Returned, book[tx.book_id]) /\ LoopDone
      PROVE  RestingPaid'
  <2>1. Returned \in Seq(Note)
    BY <1>1, <1>6, OrderFields, RefundType DEF Returned
  <2> QED
    BY <1>3, <1>6, <2>1, StoresPaid
<1>7. ASSUME Stores(tx.minted, tx.makers) /\ tx.op = "prune"
      PROVE  RestingPaid'
  BY <1>2, <1>7, StoresPaid
<1>8. RestingPaid'
  BY <1>4, <1>5, <1>6, <1>7, EndSteps
<1> QED
  BY <1>1, <1>8 DEF AllPaid, MakersPaid, TakerPaid, Idle

\* A cancel keeps AllPaid.
LEMMA CancelPaid ==
  ASSUME TypeInv, BookParts, AllPaid, NEW b \in BookId, NEW t \in Tag, NEW k \in DOMAIN book[b],
         CancelOrder(b, k, t)
  PROVE  AllPaid'
<1> DEFINE ms == Refund(b, book[b][k], t)
<1>1. /\ k \in 1..Len(book[b]) /\ tx' = Idle /\ notes' = notes \o ms /\ ms \in Seq(Note)
      /\ \A c \in BookId : book'[c] = IF c = b THEN RemoveAt(book[b], k) ELSE book[c]
      /\ notes \in Seq(Note)
  BY CancelStep DEF TypeInv
<1> HIDE DEF ms
<1>2. notes' \in Seq(Note) /\ Grows(notes, notes')
  BY <1>1, AppendGrows
<1>3. ASSUME NEW c \in BookId
      PROVE  SidePaid(notes', book'[c], c)
  <2> DEFINE s == book[c]
             all == notes'
  <2>1. s \in Seq(OrderEntry) /\ SidePaid(notes, s, c)
    BY BookSide DEF BookParts, AllPaid, RestingPaid, SidePaid
  <2>2. all \in Seq(Note) /\ Grows(notes, all)
    BY <1>2
  <2> HIDE DEF s, all
  <2>3. SidePaid(all, s, c)
    BY <1>1, <2>1, <2>2, SideGrows
  <2>4. c = b => SidePaid(all, RemoveAt(s, k), c)
    BY <1>1, <2>1, <2>3, SideRemove DEF s
  <2> QED
    BY <1>1, <2>3, <2>4 DEF s, all
<1> QED
  BY <1>1, <1>3 DEF AllPaid, RestingPaid, MakersPaid, TakerPaid, Idle, SidePaid

\* Every step keeps AllPaid.
LEMMA NextPaid ==
  ASSUME TypeInv, TxInv, BookParts, AllPaid, [Next]_vars
  PROVE  AllPaid'
<1>1. CASE Quiet
  <2>1. /\ book' = book /\ tx' = tx /\ Grows(notes, notes') /\ notes \in Seq(Note)
        /\ tx = Idle \/ notes' = notes
    BY <1>1 DEF Quiet, NotesKept, Grows, TypeInv
  <2>2. notes' \in Seq(Note)
    <3>1. TypeInv'
      BY NextType
    <3> QED
      BY <3>1 DEF TypeInv
  <2>3. ASSUME NEW b \in BookId
        PROVE  SidePaid(notes', book[b], b)
    <3> DEFINE s == book[b]
               all == notes'
    <3>1. s \in Seq(OrderEntry) /\ SidePaid(notes, s, b)
      BY BookSide DEF BookParts, AllPaid, RestingPaid, SidePaid
    <3>2. all \in Seq(Note) /\ Grows(notes, all)
      BY <2>1, <2>2
    <3> HIDE DEF s, all
    <3>3. SidePaid(all, s, b)
      BY <2>1, <3>1, <3>2, SideGrows
    <3> QED
      BY <3>3 DEF s, all
  <2>4. RestingPaid'
    BY <2>1, <2>3 DEF RestingPaid, SidePaid
  <2>5. MakersPaid' /\ TakerPaid'
    <3>1. CASE tx = Idle
      BY <2>1, <3>1 DEF MakersPaid, TakerPaid, Idle
    <3>2. CASE tx # Idle
      BY <2>1, <3>2 DEF AllPaid, MakersPaid, TakerPaid, WorkedSide
    <3> QED
      BY <3>1, <3>2
  <2> QED
    BY <2>4, <2>5 DEF AllPaid
<1>2. CASE Reverts
  BY <1>2 DEF Reverts, AllPaid, RestingPaid, MakersPaid, TakerPaid, Idle, bookVars, poolVars
<1>3. CASE Passes
  BY <1>3 DEF Passes, AllPaid, RestingPaid, MakersPaid, TakerPaid, WorkedSide, bookVars, poolVars
<1>4. CASE \E b \in BookId, t \in Tag : \E k \in DOMAIN book[b] : CancelOrder(b, k, t)
  BY <1>4, CancelPaid
<1> QED
  BY <1>1, <1>2, <1>3, <1>4, BeginsPaid, FillPaid, DoomsPaid, EndsPaid, TradeSteps

\* What a submit_order leaves behind when it is done.
LEMMA StepPaid ==
  ASSUME TypeInv, TxInv, BookParts, AllPaid, [Next]_vars, tx.op = "submit"
  PROVE  \/ notes' = notes /\ book' = book
         \/ /\ PaidAtLimit(notes', tx.taker, tx.book_id, tx.taker.remaining_in)
            /\ \A b \in BookId \ {tx.book_id} : \A k \in DOMAIN book[b] :
                 PaidAtLimit(notes', book[b][k], b, RemainingOf(book'[b], book[b][k].order_id))
<1> USE DEF BookParts
<1>1. tx # Idle /\ tx.taker \in OrderEntry /\ tx.taker.remaining_in \in Nat
  BY SubmitFields, OrderFields
<1>2. CASE SubmitFilled \/ SubmitRests \/ SubmitReturns \/ PruneReturns
  <2>1. /\ WorkedSide \in BookId /\ book'[WorkedSide] = tx.makers
        /\ \A b \in BookId : \A k \in DOMAIN book[b] :
             b # WorkedSide =>
               RemainingOf(book'[b], book[b][k].order_id) = book[b][k].remaining_in
        /\ tx.makers \in Seq(OrderEntry)
    BY <1>1, <1>2, OthersWhole, MakerOf
  <2>2. PICK more \in Seq(Note) : notes' = notes \o (tx.minted \o more)
    BY <1>2, OthersWhole
  <2> DEFINE sofar == notes \o tx.minted
             all == notes \o (tx.minted \o more)
  <2>3. /\ all \in Seq(Note) /\ sofar \in Seq(Note) /\ Grows(sofar, all) /\ Grows(notes, all)
        /\ notes \in Seq(Note) /\ notes' = all
    BY <1>1, <2>2, MintedSoFar
  <2>4. PaidAtLimit(all, tx.taker, tx.book_id, tx.taker.remaining_in)
    <3>1. PaidAtLimit(sofar, tx.taker, tx.book_id, tx.taker.remaining_in)
      BY DEF AllPaid, TakerPaid
    <3> HIDE DEF all, sofar
    <3> QED
      BY <1>1, <2>3, <3>1, PaidGrows
  <2>5. ASSUME NEW b \in BookId, NEW k \in DOMAIN book[b]
        PROVE  PaidAtLimit(all, book[b][k], b, RemainingOf(book'[b], book[b][k].order_id))
    <3> DEFINE e == book[b][k]
               left == RemainingOf(book'[b], book[b][k].order_id)
    <3>1. e \in OrderEntry /\ e.remaining_in \in Nat
      BY BookSide, OrderFields
    <3>2. CASE b = WorkedSide
      <4>1. PaidAtLimit(sofar, e, b, left) /\ left \in Nat
        BY <1>1, <2>1, <3>2, RemainingNat DEF AllPaid, MakersPaid
      <4> HIDE DEF all, sofar, e, left
      <4>2. PaidAtLimit(all, e, b, left)
        BY <2>3, <3>1, <4>1, PaidGrows
      <4> QED
        BY <4>2 DEF e, left
    <3>3. CASE b # WorkedSide
      <4>1. PaidAtLimit(notes, e, b, left) /\ left \in Nat
        BY <2>1, <3>1, <3>3 DEF AllPaid, RestingPaid
      <4> HIDE DEF all, e, left
      <4>2. PaidAtLimit(all, e, b, left)
        BY <2>3, <3>1, <4>1, PaidGrows
      <4> QED
        BY <4>2 DEF e, left
    <3> QED
      BY <3>2, <3>3
  <2> HIDE DEF all
  <2> QED
    BY <2>3, <2>4, <2>5
<1>3. ~ \E b \in BookId, t \in Tag : \E k \in DOMAIN book[b] : CancelOrder(b, k, t)
  BY CancelStep DEF Idle
<1>4. Quiet \/ Begins \/ Reverts \/ Passes \/ FillMaker \/ Dooms
        => book' = book /\ notes' = notes
  BY <1>1, FillEffect DEF Quiet, Begins, Reverts, Passes, Dooms, bookVars, poolVars
<1> QED
  BY <1>2, <1>3, <1>4, TradeSteps

\* No submit_order leaves its own order, or an order of another side than the
\* one that order rests on, with less than its limit price for what it gave.
THEOREM LimitStaysHonoured == Spec => LimitHonoured
<1>1. Init => AllPaid
  BY DEF Init, AllPaid, RestingPaid, MakersPaid, TakerPaid, Idle
<1>2. TradeInv /\ AllPaid /\ [Next]_vars => (TradeInv /\ AllPaid)'
  BY NextTrade, NextPaid DEF TradeInv
<1>3. TradeInv /\ AllPaid /\ [Next]_vars
        => [tx.op = "submit" =>
              /\ PaidAtLimit(notes', tx.taker, tx.book_id, tx.taker.remaining_in)
              /\ \A b \in BookId \ {tx.book_id} : \A k \in DOMAIN book[b] :
                   PaidAtLimit(notes', book[b][k], b,
                               RemainingOf(book'[b], book[b][k].order_id))]_<<notes, book>>
  BY StepPaid DEF TradeInv
<1> QED
  BY <1>1, <1>2, <1>3, InitTrade, PTL DEF Spec, LimitHonoured

-----------------------------------------------------------------------------
(***************************************************************************)
(* The event log.                                                          *)
(***************************************************************************)

\* f is what a client has seen after each of the first m of events.
IsReplay(f, seen, events, m) ==
  f = [k \in 0..m |-> IF k = 0 THEN seen ELSE Observe(f[k - 1], events[k])]

\* There is such a function, for any events.
LEMMA ReplayExists ==
  ASSUME NEW seen, NEW events, NEW m \in Nat
  PROVE  \E f : IsReplay(f, seen, events, m)
<1> DEFINE S == {k \in 0..m : \E f : IsReplay(f, seen, events, k)}
<1>1. 0 \in S
  <2>1. IsReplay([k \in 0..0 |-> seen], seen, events, 0)
    BY DEF IsReplay
  <2> QED
    BY <2>1
<1>2. ASSUME NEW k \in 0..(m - 1), k \in S PROVE k + 1 \in S
  <2>1. PICK f : IsReplay(f, seen, events, k)
    BY <1>2
  <2> DEFINE g == [i \in 0..(k + 1) |-> IF i = k + 1 THEN Observe(f[k], events[i]) ELSE f[i]]
  <2>2. ASSUME NEW i \in 0..(k + 1)
        PROVE  g[i] = IF i = 0 THEN seen ELSE Observe(g[i - 1], events[i])
    <3>1. CASE i = k + 1
      BY <3>1
    <3>2. CASE i \in 0..k
      BY <3>2, <2>1 DEF IsReplay
    <3> QED
      BY <3>1, <3>2
  <2>3. IsReplay(g, seen, events, k + 1)
    BY <2>2 DEF IsReplay
  <2> QED
    BY <2>3
<1>3. m \in S
  <2> HIDE DEF S
  <2> QED
    BY <1>1, <1>2, UpTo
<1> QED
  BY <1>3

\* What the recursive definition of Replay says.
LEMMA ReplayDef ==
  ASSUME NEW seen, NEW events, Len(events) \in Nat
  PROVE  \E f : /\ IsReplay(f, seen, events, Len(events))
                /\ Replay(seen, events) = f[Len(events)]
<1> DEFINE f == CHOOSE f : IsReplay(f, seen, events, Len(events))
<1>1. IsReplay(f, seen, events, Len(events))
  BY ReplayExists
<1>2. Replay(seen, events) = f[Len(events)]
  BY DEF Replay, IsReplay
<1> QED
  BY <1>1, <1>2

\* The first m of d are the m of e after position j.
Within(d, m, e, n, j) == j + m <= n /\ \A k \in 1..m : d[k] = e[j + k]

\* A part of the events of a replay, replayed from where the replay had come
\* to, sees what the replay saw.
LEMMA ReplayPart ==
  ASSUME NEW f, NEW a, NEW d, NEW m \in Nat, IsReplay(f, a, d, m),
         NEW g, NEW b, NEW e, NEW n \in Nat, IsReplay(g, b, e, n),
         NEW j \in Nat, Within(d, m, e, n, j), a = g[j]
  PROVE  f[m] = g[j + m]
<1> USE DEF Within
<1> DEFINE S == {k \in 0..m : f[k] = g[j + k]}
<1>1. 0 \in S
  BY DEF IsReplay
<1>2. ASSUME NEW k \in 0..(m - 1), k \in S PROVE k + 1 \in S
  <2>1. k + 1 \in 0..m /\ k + 1 # 0 /\ (k + 1) - 1 = k
    OBVIOUS
  <2>2. f[k + 1] = Observe(f[k], d[k + 1])
    BY <2>1 DEF IsReplay
  <2>3. j + (k + 1) \in 0..n /\ j + (k + 1) # 0 /\ (j + (k + 1)) - 1 = j + k
    OBVIOUS
  <2>4. g[j + (k + 1)] = Observe(g[j + k], e[j + (k + 1)])
    BY <2>3 DEF IsReplay
  <2>5. d[k + 1] = e[j + (k + 1)] /\ f[k] = g[j + k]
    BY <1>2, <2>1
  <2> QED
    BY <2>1, <2>2, <2>4, <2>5
<1>3. 0..m \subseteq S
  <2> HIDE DEF S
  <2> QED
    BY <1>1, <1>2, UpTo
<1> QED
  BY <1>3

\* A replay of events is what any such function ends with.
LEMMA ReplayIs ==
  ASSUME NEW seen, NEW events, Len(events) \in Nat,
         NEW f, IsReplay(f, seen, events, Len(events))
  PROVE  Replay(seen, events) = f[Len(events)]
<1>1. PICK g : /\ IsReplay(g, seen, events, Len(events))
               /\ Replay(seen, events) = g[Len(events)]
  BY ReplayDef
<1>2. g[0] = seen
  BY <1>1 DEF IsReplay
<1> DEFINE n == Len(events)
<1>3. n \in Nat /\ Within(events, n, events, n, 0)
  BY DEF Within
<1> HIDE DEF n
<1>4. f[n] = g[0 + n]
  BY <1>1, <1>2, <1>3, ReplayPart DEF n
<1> QED
  BY <1>1, <1>3, <1>4 DEF n

\* Replaying one list of events after another.
LEMMA ReplayJoin ==
  ASSUME NEW seen, NEW d \in Seq(Event), NEW e \in Seq(Event)
  PROVE  Replay(seen, d \o e) = Replay(Replay(seen, d), e)
<1> DEFINE all == d \o e
<1>1. /\ Len(d) \in Nat /\ Len(e) \in Nat /\ Len(all) = Len(d) + Len(e) /\ Len(all) \in Nat
      /\ \A k \in 1..(Len(d) + Len(e)) : all[k] = IF k <= Len(d) THEN d[k] ELSE e[k - Len(d)]
  BY ConcatProperties, LenProperties
<1> HIDE DEF all
<1>2. PICK f : IsReplay(f, seen, d, Len(d)) /\ Replay(seen, d) = f[Len(d)]
  BY <1>1, ReplayDef
<1>3. PICK g : /\ IsReplay(g, f[Len(d)], e, Len(e))
               /\ Replay(f[Len(d)], e) = g[Len(e)]
  BY <1>1, ReplayDef
<1>4. PICK h : IsReplay(h, seen, all, Len(all)) /\ Replay(seen, all) = h[Len(all)]
  BY <1>1, ReplayDef
<1>5. seen = h[0]
  BY <1>1, <1>4 DEF IsReplay
<1>6. Within(d, Len(d), all, Len(all), 0) /\ Within(e, Len(e), all, Len(all), Len(d))
  BY <1>1 DEF Within
<1>7. f[Len(d)] = h[0 + Len(d)]
  BY <1>1, <1>2, <1>4, <1>5, <1>6, ReplayPart
<1>8. f[Len(d)] = h[Len(d)]
  BY <1>1, <1>7
<1>9. g[Len(e)] = h[Len(d) + Len(e)]
  BY <1>1, <1>3, <1>4, <1>6, <1>8, ReplayPart
<1> QED
  BY <1>1, <1>2, <1>3, <1>4, <1>9 DEF all

\* Nothing replayed is nothing seen,
LEMMA ReplayNone == ASSUME NEW seen PROVE Replay(seen, <<>>) = seen
<1>1. Len(<<>>) = 0
  OBVIOUS
<1>2. PICK f : IsReplay(f, seen, <<>>, Len(<<>>)) /\ Replay(seen, <<>>) = f[Len(<<>>)]
  BY <1>1, ReplayDef
<1> QED
  BY <1>1, <1>2 DEF IsReplay

\* one event is seen once,
LEMMA ReplayOne == ASSUME NEW seen, NEW ev PROVE Replay(seen, <<ev>>) = Observe(seen, ev)
<1> DEFINE e == <<ev>>
<1>1. Len(e) = 1 /\ e[1] = ev
  OBVIOUS
<1> HIDE DEF e
<1>2. PICK f : IsReplay(f, seen, e, Len(e)) /\ Replay(seen, e) = f[Len(e)]
  BY <1>1, ReplayDef
<1>3. f[0] = seen /\ f[1] = Observe(f[0], e[1])
  BY <1>1, <1>2 DEF IsReplay
<1> QED
  BY <1>1, <1>2, <1>3 DEF e

\* and a note event is seen as the next leaf.
LEMMA ObserveNote ==
  ASSUME NEW ns, NEW books, NEW seq, NEW n
  PROVE  Observe(Seen(ns, books, seq), NoteEvent(n)) = Seen(Append(ns, n), books, seq)
BY DEF Observe, Seen, NoteEvent

\* The notes of a transaction, announced in order.
LEMMA ReplayNotes ==
  ASSUME NEW ns \in Seq(Note), NEW ms \in Seq(Note), NEW books, NEW seq
  PROVE  Replay(Seen(ns, books, seq), NoteEvents(ms)) = Seen(ns \o ms, books, seq)
<1> DEFINE n == Len(ms)
           e == NoteEvents(ms)
           f == [k \in 0..n |-> Seen(ns \o SubSeq(ms, 1, k), books, seq)]
<1>1. n \in Nat /\ DOMAIN ms = 1..n /\ \A k \in 1..n : ms[k] \in Note
  BY LenProperties, ElementOfSeq
<1>2. Len(e) = n /\ \A k \in 1..n : e[k] = NoteEvent(ms[k])
  <2>1. e \in Seq(Event)
    BY NoteEventsType
  <2>2. DOMAIN e = 1..n /\ \A k \in 1..n : e[k] = NoteEvent(ms[k])
    BY <1>1 DEF NoteEvents
  <2> HIDE DEF e, n
  <2> QED
    BY <1>1, <2>1, <2>2, LenProperties
<1>3. ns \o SubSeq(ms, 1, 0) = ns
  <2>1. SubSeq(ms, 1, 0) = <<>>
    BY SubSeqEmpty
  <2> QED
    BY <2>1, ConcatEmptySeq
<1>4. ns \o SubSeq(ms, 1, n) = ns \o ms
  BY SubSeqFull
<1>5. ASSUME NEW k \in 1..n
      PROVE  ns \o SubSeq(ms, 1, k) = Append(ns \o SubSeq(ms, 1, k - 1), ms[k])
  <2> DEFINE s == SubSeq(ms, 1, k - 1)
  <2>1. s \in Seq(Note) /\ ms[k] \in Note /\ <<ms[k]>> \in Seq(Note)
    <3>1. \A i \in 1..(k - 1) : ms[i] \in Note
      BY <1>1
    <3>2. s \in Seq(Note)
      BY <1>1, <3>1, SubSeqProperties
    <3> QED
      BY <1>1, <3>2
  <2>2. SubSeq(ms, 1, k) = s \o <<ms[k]>>
    BY <1>1, SubSeqRecursiveSecond
  <2> HIDE DEF s
  <2>3. ns \o (s \o <<ms[k]>>) = (ns \o s) \o <<ms[k]>>
    BY <2>1, NotesAssociate
  <2>4. Append(ns \o s, ms[k]) = (ns \o s) \o <<ms[k]>>
    <3>1. ns \o s \in Seq(Note)
      BY <2>1, ConcatProperties
    <3> QED
      BY <2>1, <3>1, AppendIsConcat
  <2> QED
    BY <2>2, <2>3, <2>4 DEF s
<1>6. ASSUME NEW k \in 1..n
      PROVE  f[k] = Observe(f[k - 1], e[k])
  <2> DEFINE now == ns \o SubSeq(ms, 1, k)
             before == ns \o SubSeq(ms, 1, k - 1)
  <2>1. f[k] = Seen(now, books, seq) /\ f[k - 1] = Seen(before, books, seq)
    BY <1>1
  <2>2. now = Append(before, ms[k]) /\ e[k] = NoteEvent(ms[k])
    BY <1>2, <1>5
  <2> HIDE DEF now, before, e, f
  <2> QED
    BY <2>1, <2>2, ObserveNote
<1>7. IsReplay(f, Seen(ns, books, seq), e, Len(e))
  <2>1. f[0] = Seen(ns, books, seq)
    <3>1. 0 \in 0..n
      BY <1>1
    <3>2. f[0] = Seen(ns \o SubSeq(ms, 1, 0), books, seq)
      BY <3>1
    <3> QED
      BY <1>3, <3>2
  <2>2. \A k \in 0..n : f[k] = IF k = 0 THEN Seen(ns, books, seq) ELSE Observe(f[k - 1], e[k])
    <3>1. \A k \in 0..n : k # 0 => k \in 1..n
      BY <1>1
    <3> HIDE DEF f, e, n
    <3> QED
      BY <1>6, <2>1, <3>1
  <2>3. f = [k \in 0..n |-> IF k = 0 THEN Seen(ns, books, seq) ELSE Observe(f[k - 1], e[k])]
    <3>1. DOMAIN f = 0..n /\ f = [k \in 0..n |-> f[k]]
      OBVIOUS
    <3> HIDE DEF f, e, n
    <3> QED
      BY <2>2, <3>1
  <2> HIDE DEF f, e, n
  <2> QED
    BY <1>2, <2>3 DEF IsReplay
<1>8. f[n] = Seen(ns \o ms, books, seq)
  <2>1. n \in 0..n
    BY <1>1
  <2>2. f[n] = Seen(ns \o SubSeq(ms, 1, n), books, seq)
    BY <2>1
  <2> QED
    BY <1>4, <2>2
<1> HIDE DEF f, e, n
<1> QED
  BY <1>1, <1>2, <1>7, <1>8, ReplayIs DEF e

\* What a client sees of the book after an event that it takes.
LEMMA ObserveBook ==
  ASSUME NEW ns, NEW books, NEW seq, NEW ev, ev.type # "note",
         Takes(Seen(ns, books, seq), ev), NEW after, Reduce(books, ev) = after
  PROVE  Observe(Seen(ns, books, seq), ev) = Seen(ns, after, seq + 1)
BY DEF Observe, Seen, Takes

\* books with side b replaced.
Put(books, b, orders) == [books EXCEPT ![b] = orders]

\* Order id rests at position i of side b, which is orders.
RestsAt(books, b, orders, i, id) ==
  /\ books \in [BookId -> Seq(OrderEntry)] /\ b \in BookId /\ books[b] = orders
  /\ OwnIds(orders) /\ i \in DOMAIN orders /\ orders[i].order_id = id

\* A removal takes the order it names out of its side.
LEMMA ObserveRemove ==
  ASSUME NEW ns, NEW books, NEW seq, NEW b, NEW orders, NEW i, NEW id,
         RestsAt(books, b, orders, i, id), NEW reason
  PROVE  Observe(Seen(ns, books, seq), RemoveEvent(seq + 1, b, id, reason))
           = Seen(ns, Put(books, b, RemoveAt(orders, i)), seq + 1)
<1> DEFINE ev == RemoveEvent(seq + 1, b, id, reason)
<1>1. ev.type = "ordremove" /\ ev.sequence = seq + 1 /\ ev.book = b /\ ev.order_id = id
  BY DEF RemoveEvent
<1> HIDE DEF ev
<1>2. Rested(books[b], id) /\ Position(books[b], id) = i
  BY PositionOf DEF RestsAt
<1>3. Reduce(books, ev) = Put(books, b, RemoveAt(orders, i))
  BY <1>1, <1>2 DEF Reduce, Put, RestsAt
<1>4. Takes(Seen(ns, books, seq), ev)
  BY <1>1, <1>2 DEF Takes, Seen, RestsAt
<1> QED
  BY <1>1, <1>3, <1>4, ObserveBook DEF ev

\* An upsert of an order that rests replaces it.
LEMMA ObserveUpdate ==
  ASSUME NEW ns, NEW books, NEW seq, NEW b, NEW orders, NEW i, NEW e,
         RestsAt(books, b, orders, i, e.order_id)
  PROVE  Observe(Seen(ns, books, seq), UpsertEvent(seq + 1, b, e))
           = Seen(ns, Put(books, b, [orders EXCEPT ![i] = e]), seq + 1)
<1> DEFINE ev == UpsertEvent(seq + 1, b, e)
<1>1. ev.type = "ordupsert" /\ ev.sequence = seq + 1 /\ ev.book = b /\ ev.order = e
  BY DEF UpsertEvent
<1> HIDE DEF ev
<1>2. Rested(books[b], e.order_id) /\ Position(books[b], e.order_id) = i
  BY PositionOf DEF RestsAt
<1>3. Reduce(books, ev) = Put(books, b, [orders EXCEPT ![i] = e])
  BY <1>1, <1>2 DEF Reduce, Put, RestsAt
<1>4. Takes(Seen(ns, books, seq), ev)
  BY <1>1 DEF Takes, Seen, RestsAt
<1> QED
  BY <1>1, <1>3, <1>4, ObserveBook DEF ev

\* The client finds the place of a new order as the contract does: in a sorted
\* side the orders that it does not beat are those before the first it beats.
LEMMA AheadOf ==
  ASSUME NEW s \in Seq(OrderEntry), NEW e \in OrderEntry, NEW side, SortedSide(s, side)
  PROVE  Cardinality({k \in DOMAIN s : ~EntryBetter(e, s[k], side)}) + 1
           = InsertPosition(s, e, side)
<1> DEFINE p == InsertPosition(s, e, side)
           ahead == {k \in DOMAIN s : ~EntryBetter(e, s[k], side)}
<1>1. Len(s) \in Nat /\ DOMAIN s = 1..Len(s) /\ \A k \in 1..Len(s) : s[k] \in OrderEntry
  BY LenProperties, ElementOfSeq
<1>2. /\ p \in 1..(Len(s) + 1)
      /\ p # Len(s) + 1 => EntryBetter(e, s[p], side)
      /\ \A j \in 1..(p - 1) : ~EntryBetter(e, s[j], side)
  BY InsertPositionProperties
<1> HIDE DEF p
<1>3. ASSUME NEW k \in 1..Len(s), p <= k
      PROVE  EntryBetter(e, s[k], side)
  <2>1. p \in 1..Len(s) /\ EntryBetter(e, s[p], side) /\ s[p] \in OrderEntry /\ s[k] \in OrderEntry
    BY <1>1, <1>2, <1>3
  <2>2. ~EntryBetter(s[k], s[p], side)
    <3>1. CASE p = k
      <4>1. s[k].amount_in * s[k].min_out \in Nat /\ s[k].min_out * s[k].amount_in \in Nat
        BY <2>1, OrderFields
      <4> QED
        BY <3>1, <4>1 DEF EntryBetter
    <3>2. CASE p < k
      BY <1>1, <2>1, <3>2 DEF SortedSide
    <3> QED
      BY <1>2, <1>3, <3>1, <3>2
  <2>3. \A o \in OrderEntry : o.amount_in \in Nat \ {0} /\ o.min_out \in Nat \ {0}
    BY OrderFields
  <2>4. ~EntryBetter(e, s[k], side) => ~EntryBetter(e, s[p], side)
    <3> HIDE DEF EntryBetter, OrderEntry
    <3> QED
      BY <2>1, <2>2, <2>3, NotBetterTransitive
  <2> QED
    BY <2>1, <2>4
<1>4. ahead = 1..(p - 1)
  BY <1>1, <1>2, <1>3
<1>5. Cardinality(1..(p - 1)) = p - 1
  BY <1>2, FS_Interval
<1>6. (p - 1) + 1 = p
  BY <1>2
<1> HIDE DEF ahead
<1>7. Cardinality(ahead) + 1 = p
  BY <1>4, <1>5, <1>6
<1> QED
  BY <1>7 DEF p, ahead

\* Order e does not rest in side b, which is sorted.
JoinsSide(books, b, e) ==
  /\ books \in [BookId -> Seq(OrderEntry)] /\ b \in BookId /\ e \in OrderEntry
  /\ ~Rested(books[b], e.order_id) /\ SortedSide(books[b], b[2])

\* An upsert of an order that does not rest inserts it as the contract does.
LEMMA ObserveInsert ==
  ASSUME NEW ns, NEW books, NEW seq, NEW b, NEW e, JoinsSide(books, b, e)
  PROVE  Observe(Seen(ns, books, seq), UpsertEvent(seq + 1, b, e))
           = Seen(ns, Put(books, b, BookInsertSorted(books[b], e, b[2])), seq + 1)
<1> DEFINE ev == UpsertEvent(seq + 1, b, e)
           s == books[b]
           p == Cardinality({k \in DOMAIN s : ~EntryBetter(e, s[k], b[2])}) + 1
<1>1. ev.type = "ordupsert" /\ ev.sequence = seq + 1 /\ ev.book = b /\ ev.order = e
  BY DEF UpsertEvent
<1> HIDE DEF ev
<1>2. p = InsertPosition(s, e, b[2])
  <2>1. s \in Seq(OrderEntry) /\ e \in OrderEntry /\ SortedSide(s, b[2])
    BY DEF JoinsSide
  <2> HIDE DEF s
  <2> QED
    BY <2>1, AheadOf DEF s
<1>3. Reduce(books, ev) = [books EXCEPT ![b] = InsertAt(@, p, e)]
  BY <1>1 DEF Reduce, JoinsSide
<1> HIDE DEF p
<1>4. Reduce(books, ev) = Put(books, b, BookInsertSorted(s, e, b[2]))
  BY <1>2, <1>3 DEF BookInsertSorted, Put
<1>5. Takes(Seen(ns, books, seq), ev)
  BY <1>1 DEF Takes, Seen
<1> QED
  BY <1>1, <1>4, <1>5, ObserveBook DEF ev

\* The events that a running transaction has published so far give a client
\* what it has minted and what it has made of the side that it works on.
WithSide(makers) == Put(book, WorkedSide, makers)
LogKept ==
  tx # Idle =>
    Replay(Seen(notes, book, bookSeq), tx.events)
      = Seen(notes \o tx.minted, WithSide(tx.makers), tx.seq)

\* A book with one side put in place.
LEMMA WithSideOf ==
  ASSUME TypeInv, WorkedSide \in BookId, NEW makers \in Seq(OrderEntry)
  PROVE  /\ WithSide(makers) \in [BookId -> Seq(OrderEntry)]
         /\ WithSide(makers)[WorkedSide] = makers
         /\ \A b \in BookId : b # WorkedSide => WithSide(makers)[b] = book[b]
         /\ \A other : Put(WithSide(makers), WorkedSide, other) = WithSide(other)
<1>1. book \in [BookId -> Seq(OrderEntry)]
  BY DEF TypeInv
<1> DEFINE W == WorkedSide
<1>2. W \in BookId
  OBVIOUS
<1> HIDE DEF W
<1>3. /\ [book EXCEPT ![W] = makers] \in [BookId -> Seq(OrderEntry)]
      /\ [book EXCEPT ![W] = makers][W] = makers
      /\ \A b \in BookId : b # W => [book EXCEPT ![W] = makers][b] = book[b]
  BY <1>1, <1>2
<1>4. ASSUME NEW other
      PROVE  [[book EXCEPT ![W] = makers] EXCEPT ![W] = other] = [book EXCEPT ![W] = other]
  BY <1>1, <1>2
<1> QED
  BY <1>3, <1>4 DEF W, WithSide, Put

\* Some notes and one event of the book more.
LEMMA LogGrows ==
  ASSUME NEW ns \in Seq(Note), NEW books, NEW seq, NEW d \in Seq(Event),
         NEW ms \in Seq(Note), NEW now, NEW n,
         Replay(Seen(ns, books, seq), d) = Seen(ns \o ms, now, n),
         NEW more \in Seq(Note), NEW ev \in Event, NEW after,
         \A all : Observe(Seen(all, now, n), ev) = Seen(all, after, n + 1)
  PROVE  Replay(Seen(ns, books, seq), d \o NoteEvents(more) \o <<ev>>)
           = Seen(ns \o (ms \o more), after, n + 1)
<1> DEFINE e == NoteEvents(more)
           all == (ns \o ms) \o more
<1>1. e \in Seq(Event) /\ <<ev>> \in Seq(Event) /\ d \o e \in Seq(Event)
  BY NoteEventsType, ConcatProperties
<1>2. ns \o ms \in Seq(Note) /\ all = ns \o (ms \o more)
  BY ConcatProperties, NotesAssociate
<1> DEFINE seen == Seen(ns, books, seq)
<1>3. Replay(seen, d \o e) = Replay(Replay(seen, d), e)
  BY <1>1, ReplayJoin
<1>4. Replay(Seen(ns \o ms, now, n), e) = Seen(all, now, n)
  <2> DEFINE so == ns \o ms
  <2>1. so \in Seq(Note)
    BY <1>2
  <2> HIDE DEF so
  <2>2. Replay(Seen(so, now, n), NoteEvents(more)) = Seen(so \o more, now, n)
    BY <2>1, ReplayNotes
  <2> QED
    BY <2>2 DEF so
<1>5. Replay(seen, (d \o e) \o <<ev>>) = Replay(Replay(seen, d \o e), <<ev>>)
  BY <1>1, ReplayJoin
<1>6. Replay(Seen(all, now, n), <<ev>>) = Seen(all, after, n + 1)
  BY ReplayOne
<1> QED
  BY <1>2, <1>3, <1>4, <1>5, <1>6

\* A transaction that begins has published nothing.
LEMMA BeginsLog ==
  ASSUME TypeInv, TypeInv', Begins
  PROVE  LogKept'
<1>1. /\ book' = book /\ notes' = notes /\ bookSeq' = bookSeq
      /\ tx'.minted = <<>> /\ tx'.events = <<>> /\ tx'.seq = bookSeq
      /\ tx'.makers = book[WorkedSide']
  BY DEF Begins, WorkedSide
<1>2. notes \o <<>> = notes
  <2>1. notes \in Seq(Note)
    BY DEF TypeInv
  <2> QED
    BY <2>1, ConcatEmptySeq
<1>3. WithSide(tx.makers)' = book
  <2>1. book \in [BookId -> Seq(OrderEntry)]
    BY DEF TypeInv
  <2>2. \A c : [book EXCEPT ![c] = book[c]] = book
    BY <2>1
  <2> QED
    BY <1>1, <2>2 DEF WithSide, Put
<1> QED
  BY <1>1, <1>2, <1>3, ReplayNone DEF LogKept

\* A maker that is passed over publishes nothing.
LEMMA PassesLog ==
  ASSUME LogKept, Passes
  PROVE  LogKept'
BY DEF LogKept, Passes, WithSide, WorkedSide, poolVars, bookVars

\* A fill publishes the two notes that it mints and what it does to the maker.
LEMMA FillLog ==
  ASSUME TypeInv, BookParts, LogKept, FillMaker
  PROVE  LogKept'
<1>1. /\ tx.op = "submit" /\ tx # Idle /\ WorkedSide = OtherSide(tx.book_id)
      /\ tx.events \in Seq(Event) /\ tx.minted \in Seq(Note) /\ tx.seq \in Nat
      /\ notes \in Seq(Note)
  BY FillFields, SubmitFields DEF WorkedSide, TypeInv
<1>2. /\ tx' # Idle /\ WorkedSide' = WorkedSide
      /\ book' = book /\ notes' = notes /\ bookSeq' = bookSeq
      /\ tx'.makers = MakersAfter /\ tx'.minted = tx.minted \o FillMints /\ tx'.seq = tx.seq + 1
      /\ tx'.events = tx.events \o NoteEvents(FillMints) \o <<FillEvent>>
  <2>1. tx' # Idle
    BY FillEffect DEF Idle
  <2> QED
    BY <1>1, <2>1, FillEffect DEF WorkedSide, poolVars, bookVars
<1>3. /\ WorkedSide \in BookId /\ tx.makers \in Seq(OrderEntry) /\ OwnIds(tx.makers)
  BY <1>1, MakerOf DEF BookParts
<1>4. /\ tx.i \in DOMAIN tx.makers /\ tx.makers[tx.i] = Maker
      /\ MakerAfter.order_id = Maker.order_id
      /\ FillMints \in Seq(Note) /\ FillEvent \in Event /\ MakersAfter \in Seq(OrderEntry)
  BY <1>3, FillFields, LenProperties DEF Maker
<1> DEFINE now == WithSide(tx.makers)
           after == WithSide(MakersAfter)
<1>5. /\ now \in [BookId -> Seq(OrderEntry)] /\ now[WorkedSide] = tx.makers
      /\ \A other : Put(now, WorkedSide, other) = WithSide(other)
  BY <1>3, WithSideOf
<1> HIDE DEF now
<1>6. ASSUME NEW all
      PROVE  Observe(Seen(all, now, tx.seq), FillEvent) = Seen(all, after, tx.seq + 1)
  <2>0. RestsAt(now, WorkedSide, tx.makers, tx.i, Maker.order_id)
    BY <1>3, <1>4, <1>5 DEF RestsAt
  <2>1. CASE MakerAfter.remaining_in = 0
    <3>1. /\ FillEvent = RemoveEvent(tx.seq + 1, WorkedSide, Maker.order_id, REMOVE_FILLED)
          /\ MakersAfter = RemoveAt(tx.makers, tx.i)
      BY <1>1, <2>1 DEF FillEvent, MakersAfter
    <3>2. Observe(Seen(all, now, tx.seq), FillEvent)
            = Seen(all, Put(now, WorkedSide, RemoveAt(tx.makers, tx.i)), tx.seq + 1)
      BY <2>0, <3>1, ObserveRemove
    <3> QED
      BY <1>5, <3>1, <3>2
  <2>2. CASE MakerAfter.remaining_in # 0
    <3>1. /\ FillEvent = UpsertEvent(tx.seq + 1, WorkedSide, MakerAfter)
          /\ MakersAfter = [tx.makers EXCEPT ![tx.i] = MakerAfter]
      BY <1>1, <2>2 DEF FillEvent, MakersAfter
    <3>2. Observe(Seen(all, now, tx.seq), FillEvent)
            = Seen(all, Put(now, WorkedSide, [tx.makers EXCEPT ![tx.i] = MakerAfter]),
                   tx.seq + 1)
      BY <1>4, <2>0, <3>1, ObserveUpdate
    <3> QED
      BY <1>5, <3>1, <3>2
  <2> QED
    BY <2>1, <2>2
<1>7. Replay(Seen(notes, book, bookSeq), tx.events) = Seen(notes \o tx.minted, now, tx.seq)
  BY <1>1 DEF LogKept, now
<1> HIDE DEF after
<1>8. Replay(Seen(notes, book, bookSeq), tx'.events)
        = Seen(notes \o tx'.minted, after, tx'.seq)
  BY <1>1, <1>2, <1>4, <1>6, <1>7, LogGrows
<1>9. WithSide(tx.makers)' = after
  BY <1>2 DEF WithSide, after
<1> QED
  BY <1>2, <1>8, <1>9 DEF LogKept

\* A removed order is refunded and its removal published.
LEMMA DoomsLog ==
  ASSUME TypeInv, BookParts, LogKept, Dooms
  PROVE  LogKept'
<1>1. /\ tx.op = "prune" /\ tx # Idle /\ WorkedSide = tx.book_id
      /\ tx.events \in Seq(Event) /\ tx.minted \in Seq(Note) /\ tx.seq \in Nat
      /\ notes \in Seq(Note) /\ tx.i \in 1..Len(tx.makers)
      /\ Doomed \in OrderEntry /\ DoomedMints \in Seq(Note)
  BY PruneFields DEF WorkedSide, TypeInv, Dooms
<1> DEFINE ev == RemoveEvent(tx.seq + 1, WorkedSide, Doomed.order_id, REMOVE_EXPIRED)
<1>2. /\ tx' # Idle /\ WorkedSide' = WorkedSide
      /\ book' = book /\ notes' = notes /\ bookSeq' = bookSeq
      /\ tx'.makers = RemoveAt(tx.makers, tx.i) /\ tx'.minted = tx.minted \o DoomedMints
      /\ tx'.seq = tx.seq + 1
      /\ tx'.events = tx.events \o NoteEvents(DoomedMints) \o <<ev>>
  BY <1>1 DEF Dooms, WorkedSide, poolVars, bookVars
<1>3. /\ WorkedSide \in BookId /\ tx.makers \in Seq(OrderEntry) /\ OwnIds(tx.makers)
  BY <1>1, MakerOf DEF BookParts
<1>4. tx.i \in DOMAIN tx.makers /\ tx.makers[tx.i] = Doomed
  BY <1>1, <1>3, LenProperties DEF Doomed
<1>5. ev \in Event
  BY <1>1, <1>3, OrderFields DEF RemoveEvent, Event
<1> DEFINE now == WithSide(tx.makers)
           after == WithSide(RemoveAt(tx.makers, tx.i))
<1>6. /\ now \in [BookId -> Seq(OrderEntry)] /\ now[WorkedSide] = tx.makers
      /\ Put(now, WorkedSide, RemoveAt(tx.makers, tx.i)) = after
  BY <1>3, WithSideOf
<1> HIDE DEF now, after
<1>7. ASSUME NEW all
      PROVE  Observe(Seen(all, now, tx.seq), ev) = Seen(all, after, tx.seq + 1)
  <2>1. RestsAt(now, WorkedSide, tx.makers, tx.i, Doomed.order_id)
    BY <1>3, <1>4, <1>6 DEF RestsAt
  <2> QED
    BY <1>6, <2>1, ObserveRemove DEF ev
<1>8. Replay(Seen(notes, book, bookSeq), tx.events) = Seen(notes \o tx.minted, now, tx.seq)
  BY <1>1 DEF LogKept, now
<1> HIDE DEF ev
<1>9. Replay(Seen(notes, book, bookSeq), tx'.events)
        = Seen(notes \o tx'.minted, after, tx'.seq)
  BY <1>1, <1>2, <1>5, <1>7, <1>8, LogGrows
<1>10. WithSide(tx.makers)' = after
  BY <1>2 DEF WithSide, after
<1> QED
  BY <1>2, <1>9, <1>10 DEF LogKept

\* What a step publishes gives a client what the step leaves in storage.
StepLogged == Replay(Seen(notes, book, bookSeq), emitted') = Seen(notes', book', bookSeq')

\* An action outside the book: the notes that it mints.
LEMMA QuietLogged ==
  ASSUME TypeInv, Quiet
  PROVE  UNCHANGED <<notes, book, bookSeq>> \/ StepLogged
<1>1. book' = book /\ bookSeq' = bookSeq /\ notes \in Seq(Note)
  BY DEF Quiet, TypeInv
<1>2. ASSUME NEW ms \in Seq(Note), notes' = notes \o ms, emitted' = NoteEvents(ms)
      PROVE  StepLogged
  BY <1>1, <1>2, ReplayNotes DEF StepLogged
<1> QED
  BY <1>1, <1>2 DEF Quiet, Publishes

\* A book that a transaction stores.
LEMMA StoredBook ==
  ASSUME TypeInv, TypeInv', NEW minted, NEW own, Stores(minted, own)
  PROVE  book' = IF tx.book_id = WorkedSide THEN WithSide(tx.makers)
                 ELSE Put(WithSide(tx.makers), tx.book_id, own)
<1>1. book \in [BookId -> Seq(OrderEntry)] /\ book' \in [BookId -> Seq(OrderEntry)]
  BY DEF TypeInv
<1>2. /\ WorkedSide \in BookId /\ tx.book_id \in BookId
      /\ \A c \in BookId : book'[c] = IF c = WorkedSide THEN tx.makers
                                      ELSE IF c = tx.book_id THEN own ELSE book[c]
  BY DEF Stores
<1> DEFINE W == WorkedSide
           b == tx.book_id
           makers == tx.makers
           stored == book'
           B == IF b = W THEN Put(book, W, makers) ELSE Put(Put(book, W, makers), b, own)
<1>3. /\ W \in BookId /\ b \in BookId /\ stored \in [BookId -> Seq(OrderEntry)]
      /\ \A c \in BookId : stored[c] = IF c = W THEN makers ELSE IF c = b THEN own ELSE book[c]
  BY <1>1, <1>2
<1> HIDE DEF W, b, makers, stored
<1>4. /\ DOMAIN B = BookId /\ B = [c \in BookId |-> B[c]]
      /\ \A c \in BookId : B[c] = IF c = W THEN makers ELSE IF c = b THEN own ELSE book[c]
  BY <1>1, <1>3 DEF Put
<1> HIDE DEF B
<1>5. stored = [c \in BookId |-> stored[c]]
  BY <1>3
<1>6. stored = B
  BY <1>3, <1>4, <1>5
<1> QED
  BY <1>6 DEF stored, B, W, b, makers, WithSide

\* What a client sees when a transaction returns.
LEMMA EndsLog ==
  ASSUME TypeInv, TypeInv', TxInv, BookSorted, BookParts, LogKept,
         SubmitFilled \/ SubmitRests \/ SubmitReturns \/ PruneReturns
  PROVE  StepLogged /\ LogKept'
<1> DEFINE start == Seen(notes, book, bookSeq)
           now == WithSide(tx.makers)
           b == tx.book_id
<1>1. /\ tx # Idle /\ WorkedSide \in BookId /\ b \in BookId
      /\ tx.makers \in Seq(OrderEntry)
      /\ tx.minted \in Seq(Note) /\ tx.events \in Seq(Event) /\ notes \in Seq(Note)
      /\ tx' = Idle
  <2>1. tx # Idle /\ tx' = Idle /\ (tx.op = "submit" \/ tx.op = "prune")
    BY EndSteps DEF Stores
  <2>2. tx.makers \in Seq(OrderEntry) /\ tx.minted \in Seq(Note) /\ tx.events \in Seq(Event)
    BY <2>1, SubmitFields, PruneFields
  <2> QED
    BY <2>1, <2>2, EndSteps DEF Stores, TypeInv
<1>2. Replay(start, tx.events) = Seen(notes \o tx.minted, now, tx.seq)
  BY <1>1 DEF LogKept
<1>3. LogKept'
  BY <1>1 DEF LogKept
<1>4. /\ now \in [BookId -> Seq(OrderEntry)]
      /\ \A c \in BookId : c # WorkedSide => now[c] = book[c]
  BY <1>1, WithSideOf
<1>5. ASSUME NEW minted, Stores(minted, book[b]), b # WorkedSide
      PROVE  book' = now
  <2>1. book' = Put(now, b, book[b])
    BY <1>5, StoredBook
  <2>2. now[b] = book[b]
    BY <1>1, <1>4, <1>5
  <2>3. Put(now, b, now[b]) = now
    <3> HIDE DEF now
    <3> QED
      BY <1>4 DEF Put
  <2> QED
    BY <2>1, <2>2, <2>3
<1> HIDE DEF start, now
<1>6. CASE /\ Stores(tx.minted, book[b]) /\ LoopDone /\ tx.taker.remaining_in = 0
           /\ emitted' = tx.events /\ bookSeq' = tx.seq
  <2>1. b # WorkedSide /\ notes' = notes \o tx.minted
    BY <1>6 DEF Stores, LoopDone
  <2> QED
    BY <1>2, <1>3, <1>5, <1>6, <2>1 DEF StepLogged, start
<1>7. CASE /\ Stores(tx.minted, OwnAfter) /\ LoopDone /\ tx.taker.remaining_in > 0
           /\ tx.taker.partial_allowed
           /\ nullifiers' = nullifiers \cup {notes[tx.spends].owner_tag}
           /\ emitted' = Append(tx.events, UpsertEvent(tx.seq + 1, tx.book_id, tx.taker))
           /\ bookSeq' = tx.seq + 1
  <2>1. b # WorkedSide /\ notes' = notes \o tx.minted /\ tx.op = "submit"
    BY <1>7 DEF Stores, LoopDone
  <2>2. book' = Put(now, b, OwnAfter)
    BY <1>7, <2>1, StoredBook DEF now
  <2>3. now[b] = book[b] /\ tx.taker \in OrderEntry /\ tx.seq \in Nat
    BY <1>1, <1>4, <2>1, SubmitFields
  <2>4. tx.taker.order_id \notin nullifiers
    BY <1>7, <2>1, TakerRests
  <2>5. ~Rested(now[b], tx.taker.order_id)
    <3>1. \A k \in DOMAIN book[b] : book[b][k].order_id # tx.taker.order_id
      BY <1>1, <2>4 DEF BookParts, BookInv
    <3> QED
      BY <2>3, <3>1, NotRested
  <2>6. SortedSide(now[b], b[2])
    BY <1>1, <2>3 DEF BookSorted
  <2> DEFINE ev == UpsertEvent(tx.seq + 1, b, tx.taker)
             sofar == notes \o tx.minted
  <2>7. Observe(Seen(sofar, now, tx.seq), ev)
          = Seen(sofar, Put(now, b, BookInsertSorted(now[b], tx.taker, b[2])), tx.seq + 1)
    <3>1. JoinsSide(now, b, tx.taker)
      BY <1>1, <1>4, <2>3, <2>5, <2>6 DEF JoinsSide
    <3> QED
      BY <3>1, ObserveInsert
  <2>8. ev \in Event
    BY <1>1, <2>3 DEF UpsertEvent, Event
  <2> HIDE DEF ev, sofar
  <2>9. emitted' = tx.events \o <<ev>> /\ <<ev>> \in Seq(Event)
    <3>1. emitted' = Append(tx.events, ev)
      BY <1>7 DEF ev
    <3> QED
      BY <1>1, <2>8, <3>1, AppendIsConcat
  <2>10. Replay(start, emitted') = Replay(Replay(start, tx.events), <<ev>>)
    BY <1>1, <2>9, ReplayJoin
  <2>11. Replay(start, emitted') = Observe(Seen(sofar, now, tx.seq), ev)
    BY <1>2, <2>10, ReplayOne DEF sofar
  <2>12. Put(now, b, BookInsertSorted(now[b], tx.taker, b[2])) = book'
    BY <2>2, <2>3 DEF OwnAfter
  <2>13. StepLogged
    BY <1>7, <2>1, <2>7, <2>11, <2>12 DEF StepLogged, start, sofar
  <2> QED
    BY <1>3, <2>13
<1>8. CASE /\ Stores(tx.minted \o Returned, book[b]) /\ LoopDone
           /\ emitted' = tx.events \o NoteEvents(Returned) /\ bookSeq' = tx.seq
  <2>1. /\ b # WorkedSide /\ notes' = notes \o (tx.minted \o Returned) /\ tx.op = "submit"
        /\ Returned \in Seq(Note)
    <3>1. b # WorkedSide /\ notes' = notes \o (tx.minted \o Returned) /\ tx.op = "submit"
      BY <1>8 DEF Stores, LoopDone
    <3>2. tx.taker \in OrderEntry
      BY <3>1, SubmitFields
    <3> QED
      BY <1>1, <3>1, <3>2, RefundType, OrderFields DEF Returned
  <2> DEFINE sofar == notes \o tx.minted
             e == NoteEvents(Returned)
  <2>2. e \in Seq(Event) /\ sofar \in Seq(Note) /\ notes' = sofar \o Returned
    BY <1>1, <2>1, NoteEventsType, ConcatProperties, NotesAssociate
  <2> HIDE DEF sofar
  <2>3. Replay(start, tx.events \o e) = Replay(Replay(start, tx.events), e)
    BY <1>1, <2>2, ReplayJoin
  <2>4. Replay(Seen(sofar, now, tx.seq), e) = Seen(sofar \o Returned, now, tx.seq)
    BY <2>1, <2>2, ReplayNotes
  <2>5. book' = now
    BY <1>5, <1>8, <2>1
  <2>6. StepLogged
    BY <1>2, <1>8, <2>2, <2>3, <2>4, <2>5 DEF StepLogged, start, sofar
  <2> QED
    BY <1>3, <2>6
<1>9. CASE /\ Stores(tx.minted, tx.makers) /\ tx.op = "prune"
           /\ emitted' = tx.events /\ bookSeq' = tx.seq
  <2>1. notes' = notes \o tx.minted /\ b = WorkedSide
    BY <1>9 DEF Stores
  <2>2. book' = now
    BY <1>9, <2>1, StoredBook DEF now
  <2> QED
    BY <1>2, <1>3, <1>9, <2>1, <2>2 DEF StepLogged, start
<1> QED
  BY <1>6, <1>7, <1>8, <1>9, EndSteps

\* A cancel publishes what it returns and that the order is gone.
LEMMA CancelLogged ==
  ASSUME TypeInv, TypeInv', BookInv, NEW b \in BookId, NEW t \in Tag, NEW k \in DOMAIN book[b],
         CancelOrder(b, k, t)
  PROVE  StepLogged
<1> DEFINE ms == Refund(b, book[b][k], t)
           id == book[b][k].order_id
           ev == RemoveEvent(bookSeq + 1, b, id, REMOVE_CANCELLED)
           e == NoteEvents(ms)
<1>1. /\ book[b][k] \in OrderEntry /\ notes' = notes \o ms /\ ms \in Seq(Note)
      /\ notes \in Seq(Note) /\ bookSeq \in Nat /\ book \in [BookId -> Seq(OrderEntry)]
  BY CancelStep DEF TypeInv
<1>2. /\ book' = Put(book, b, RemoveAt(book[b], k)) /\ bookSeq' = bookSeq + 1
      /\ emitted' = Append(e, ev)
  BY DEF CancelOrder, Put
<1>3. ev \in Event
  BY <1>1, OrderFields DEF RemoveEvent, Event
<1>4. RestsAt(book, b, book[b], k, id)
  BY <1>1, BookSide DEF RestsAt
<1> HIDE DEF ms, id
<1>5. Observe(Seen(notes', book, bookSeq), ev) = Seen(notes', book', bookSeq')
  BY <1>2, <1>4, ObserveRemove
<1>6. e \in Seq(Event)
  BY <1>1, NoteEventsType
<1>7. Replay(Seen(notes, book, bookSeq), e) = Seen(notes', book, bookSeq)
  BY <1>1, ReplayNotes
<1> HIDE DEF ev, e
<1>8. emitted' = e \o <<ev>> /\ <<ev>> \in Seq(Event)
  BY <1>2, <1>3, <1>6, AppendIsConcat
<1>9. Replay(Seen(notes, book, bookSeq), emitted')
        = Replay(Replay(Seen(notes, book, bookSeq), e), <<ev>>)
  BY <1>6, <1>8, ReplayJoin
<1> QED
  BY <1>5, <1>7, <1>9, ReplayOne DEF StepLogged

\* Every step publishes what it does.
LEMMA NextLogged ==
  ASSUME TradeInv, LogKept, [Next]_vars
  PROVE  LogKept' /\ (UNCHANGED <<notes, book, bookSeq>> \/ StepLogged)
<1> USE DEF TradeInv
<1>1. TypeInv' /\ BookInv
  BY NextType DEF BookParts
<1>2. CASE Quiet
  <2>1. tx' = tx /\ (tx = Idle \/ UNCHANGED <<notes, book, bookSeq>>)
    BY <1>2 DEF Quiet
  <2>2. LogKept'
    BY <2>1 DEF LogKept, WithSide, WorkedSide
  <2> QED
    BY <1>2, <2>2, QuietLogged
<1>3. CASE Begins
  BY <1>1, <1>3, BeginsLog DEF Begins
<1>4. CASE Reverts
  BY <1>4 DEF Reverts, LogKept, poolVars, bookVars
<1>5. CASE Passes
  BY <1>5, PassesLog DEF Passes, poolVars, bookVars
<1>6. CASE FillMaker
  <2>1. UNCHANGED <<notes, book, bookSeq>>
    BY <1>6, FillEffect DEF poolVars, bookVars
  <2> QED
    BY <1>6, <2>1, FillLog
<1>7. CASE Dooms
  BY <1>7, DoomsLog DEF Dooms, poolVars, bookVars
<1>8. CASE SubmitFilled \/ SubmitRests \/ SubmitReturns \/ PruneReturns
  BY <1>1, <1>8, EndsLog
<1>9. CASE \E b \in BookId, t \in Tag : \E k \in DOMAIN book[b] : CancelOrder(b, k, t)
  <2>1. tx' = Idle
    BY <1>9, CancelStep
  <2>2. LogKept'
    BY <2>1 DEF LogKept
  <2> QED
    BY <1>1, <1>9, <2>2, CancelLogged
<1> QED
  BY <1>2, <1>3, <1>4, <1>5, <1>6, <1>7, <1>8, <1>9, TradeSteps

\* A client that replays the events of each transaction in order gets the
\* contract's tree, books and book sequence number back.
THEOREM EventsStayComplete == Spec => EventsReplay
<1>1. Init => LogKept
  BY DEF Init, LogKept
<1>2. TradeInv /\ LogKept /\ [Next]_vars => (TradeInv /\ LogKept)'
  BY NextTrade, NextLogged
<1>3. TradeInv /\ LogKept /\ [Next]_vars
        => [Replay(Seen(notes, book, bookSeq), emitted') = Seen(notes', book', bookSeq')
           ]_<<notes, book, bookSeq>>
  BY NextLogged DEF StepLogged
<1> QED
  BY <1>1, <1>2, <1>3, InitTrade, PTL DEF Spec, EventsReplay
=============================================================================

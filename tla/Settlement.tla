----------------------------- MODULE Settlement -----------------------------
(***************************************************************************)
(* The Soroban settlement contract (contracts/settlement/src/lib.rs): a    *)
(* shielded pool of asset notes, an on-chain order book that trades them,  *)
(* and the Stellar end of a one-way bridge from Base.                      *)
(*                                                                         *)
(* A note is a leaf of the Merkle tree.  Spending one publishes its        *)
(* nullifier.  The circuits compute owner_tag = H(H(sk, 0), rho) and       *)
(* nullifier = H(sk, rho), so a nullifier is determined by the owner tag   *)
(* and by nothing else: it is represented here by the tag itself.  A proof *)
(* accepted by the verifier is represented by what it proves, the index of *)
(* an existing leaf and the public inputs; every root the tree ever had is *)
(* accepted, so any existing leaf can be spent.                            *)
(*                                                                         *)
(* One entry point is one transaction.  The two with loops, submit_order   *)
(* and prune_expired, run one loop iteration per step on a private copy    *)
(* (the variable tx), as the host does: no other action is enabled while   *)
(* a transaction runs, its effects appear all at once when it returns Ok   *)
(* and not at all when it returns an error or traps.                       *)
(***************************************************************************)
EXTENDS Matching, Value

CONSTANTS
  Asset,        \* asset ids given to the constructor
  Kind,         \* [Asset -> AssetKind]
  Pair,         \* sequence of canonical pairs given to the constructor
  Tag,          \* owner tags (and, one to one, nullifiers)
  CancelTag,    \* cancel-authority tags
  BaseOrigin,   \* (guest image id, chain config id, bridge address) triples
  BaseBlock,    \* <<block number, block hash>> pairs an admin may attest
  Journal,      \* journals for which an authentic bridge receipt exists
  BOOK_CAPACITY,
  MAX_FILLS_PER_SUBMIT,
  TREE_CAPACITY,  \* leaves before TreeNext + 1 overflows u32 (2^32 - 1)
  ShieldAmount, \* amounts a user deposits
  MinOut,       \* limits a user asks for
  Expiry,       \* expiry times a user sets
  PruneMax,     \* values of prune_expired's max
  MaxClock,     \* bound on the ledger timestamp
  FreshTags     \* TRUE: a request only carries tags that nobody used before,
                \* as wallets draw them; FALSE: it carries any tags

VARIABLES
  notes,        \* leaves of the tree, in insertion order
  nullifiers,   \* DataKey::Nullifier
  consumed,     \* history: the leaves whose value has been spent
  custody,      \* the contract's token balance, per asset
  bridged,      \* history: value minted by shield_from_base, per asset
  book,         \* DataKey::Book(pair, side): resting orders, best first
  bookSeq,      \* DataKey::BookSeq
  baseConfig,   \* DataKey::BaseRouter .. BaseBridgeAddr, all set at once
  attested,     \* DataKey::BaseBlock
  deposits,     \* DataKey::BaseDeposit
  clock,        \* the ledger timestamp
  tx,           \* the running transaction's local variables, or Idle
  emitted       \* the events of the last transaction that succeeded

vars == <<notes, nullifiers, consumed, custody, bridged, book, bookSeq,
          baseConfig, attested, deposits, clock, tx, emitted>>
poolVars == <<notes, nullifiers, consumed>>
bookVars == <<book, bookSeq>>
baseVars == <<baseConfig, attested, deposits>>
-----------------------------------------------------------------------------
AssetKind == {"Stellar", "Dual", "BaseRepresented"}

\* What register_pair_inner accepts: two different registered assets, and no
\* second pair of the same two assets in either orientation.
ValidPairs ==
  /\ \A p \in DOMAIN Pair : Pair[p].base_asset # Pair[p].quote_asset
  /\ \A p, q \in DOMAIN Pair :
       {Pair[p].base_asset, Pair[p].quote_asset} =
         {Pair[q].base_asset, Pair[q].quote_asset} => p = q

ASSUME RegistryAssumption ==
  /\ Kind \in [Asset -> AssetKind]
  /\ Pair \in Seq([base_asset : Asset, quote_asset : Asset])
  /\ ValidPairs

\* A shield of zero is refused, and so is an order with a limit of zero.
ASSUME InputAssumption ==
  /\ ShieldAmount \subseteq Nat \ {0}
  /\ MinOut \subseteq Nat \ {0}
  /\ Expiry \subseteq Nat
  /\ PruneMax \subseteq Nat
  /\ BaseBlock \subseteq Nat \X Nat

ASSUME BoundAssumption ==
  /\ BOOK_CAPACITY \in Nat
  /\ MAX_FILLS_PER_SUBMIT \in Nat
  /\ TREE_CAPACITY \in Nat
  /\ MaxClock \in Nat
  /\ FreshTags \in BOOLEAN

Note == [asset : Asset, amount : Nat \ {0}, owner_tag : Tag]
MakeNote(asset, amount, owner_tag) ==
  [asset |-> asset, amount |-> amount, owner_tag |-> owner_tag]

OrderEntry ==
  [order_id : Tag, amount_in : Nat \ {0}, min_out : Nat \ {0},
   remaining_in : Nat, output_owner_tag : Tag, cancel_owner_tag : CancelTag,
   expiry : Nat, partial_allowed : BOOLEAN]

\* The public inputs of a lift proof that the owner of a note chooses; the
\* asset and the amount offered are those of the note.
Terms ==
  [min_out : MinOut, output_owner_tag : Tag, cancel_owner_tag : CancelTag,
   expiry : Expiry, partial_allowed : BOOLEAN]

JournalType ==
  [block : Nat, hash : Nat, origin : BaseOrigin, deposit_id : Nat,
   asset : Asset, amount : Nat, owner_tag : Tag]

ASSUME JournalAssumption == Journal \subseteq JournalType

\* A book side is named by its pair and side.  side_assets: a SELL gives the
\* base asset for the quote asset, a BUY the reverse.
BookId == (DOMAIN Pair) \X Side
GiveAsset(b) == IF b[2] = Sell THEN Pair[b[1]].base_asset ELSE Pair[b[1]].quote_asset
WantAsset(b) == IF b[2] = Sell THEN Pair[b[1]].quote_asset ELSE Pair[b[1]].base_asset
OtherSide(b) == <<b[1], Opposite(b[2])>>

\* order_leaf is a hash of the order's terms, so equal terms are equal leaves.
OrderLeaf(e) ==
  <<e.amount_in, e.min_out, e.output_owner_tag, e.cancel_owner_tag, e.expiry,
    e.partial_allowed>>

REMOVE_FILLED    == "filled"
REMOVE_CANCELLED == "cancelled"
REMOVE_EXPIRED   == "expired"

\* The events a replaying client consumes: a leaf entering the tree (shielded
\* and noteins announce one leaf, settled announces two), and the sequenced
\* book log.
NoteEvent(n) == [type |-> "note", note |-> n]
UpsertEvent(seq, b, e) ==
  [type |-> "ordupsert", sequence |-> seq, book |-> b, order |-> e]

\* Variant: the counter is read before it is incremented.
RemoveEvent_StaleSequence(seq, b, id, reason) ==
  [type |-> "ordremove", sequence |-> seq - 1, book |-> b, order_id |-> id,
   reason |-> reason]
RemoveEvent(seq, b, id, reason) ==
  [type |-> "ordremove", sequence |-> seq, book |-> b, order_id |-> id,
   reason |-> reason]

NoConfig == [configured |-> FALSE]
Idle     == [op |-> "idle"]
-----------------------------------------------------------------------------
\* Variant: the nullifier is recorded but never looked up.
Spendable_NullifierUnchecked(i) == i \in DOMAIN notes

\* A spend of leaf i: its proof verifies and its nullifier is unused.
Spendable(i) == i \in DOMAIN notes /\ notes[i].owner_tag \notin nullifiers

\* The tags that a note, a nullifier or a resting order carries.
UsedTags ==
  {notes[i].owner_tag : i \in DOMAIN notes} \cup nullifiers
    \cup UNION {{book[b][k].output_owner_tag : k \in DOMAIN book[b]} : b \in BookId}

\* Whether a request may carry tag t when the tags in used are taken.  Tags
\* are only compared with each other, so which unused tag a wallet draws makes
\* no difference: it draws a fixed one.
MayUse(t, used) ==
  FreshTags => /\ t \notin used
               /\ t = CHOOSE u \in Tag : u \notin used

\* Variant: the tree takes one leaf too many.
Fits_OneTooMany(minted) == Len(notes) + Len(minted) <= TREE_CAPACITY + 1

\* tree_insert of a sequence of leaves; it traps when the tree is full.
Fits(minted) == Len(notes) + Len(minted) <= TREE_CAPACITY
Insert(minted) == Fits(minted) /\ notes' = notes \o minted

\* mint_note does nothing for an amount of zero.
MintNote(asset, amount, owner_tag) ==
  IF amount = 0 THEN <<>> ELSE <<MakeNote(asset, amount, owner_tag)>>

\* Variant: the whole offer goes back.
Refund_WholeOffer(b, e, tag) == MintNote(GiveAsset(b), e.amount_in, tag)

\* What is left of an order goes back to tag as a note of the asset it offered.
Refund(b, e, tag) == MintNote(GiveAsset(b), e.remaining_in, tag)

\* Variant: the events of one transaction are published last leaf first.
NoteEvents_Reversed(minted) ==
  [k \in DOMAIN minted |-> NoteEvent(minted[Len(minted) + 1 - k])]
NoteEvents(minted) == [k \in DOMAIN minted |-> NoteEvent(minted[k])]

\* Record the nullifiers of the spent leaves.
Consume(spent) ==
  /\ nullifiers' = nullifiers \cup {notes[i].owner_tag : i \in spent}
  /\ consumed' = consumed \cup spent
-----------------------------------------------------------------------------
(***************************************************************************)
(* Deposits.                                                               *)
(***************************************************************************)

Shield(asset, amount, owner_tag) ==
  /\ tx = Idle
  /\ Kind[asset] # "BaseRepresented"
  /\ MayUse(owner_tag, UsedTags)
  /\ custody' = [custody EXCEPT ![asset] = @ + amount]
  /\ Insert(<<MakeNote(asset, amount, owner_tag)>>)
  /\ emitted' = <<NoteEvent(MakeNote(asset, amount, owner_tag))>>
  /\ UNCHANGED <<nullifiers, consumed, bridged, bookVars, baseVars, clock, tx>>

ConfigureBaseBridge(origin) ==
  /\ tx = Idle
  /\ baseConfig' = [configured |-> TRUE, origin |-> origin]
  /\ emitted' = <<>>
  /\ UNCHANGED <<poolVars, custody, bridged, bookVars, attested, deposits,
                 clock, tx>>

\* The hash attested for a block number replaces an earlier one.
AttestBaseBlock(number, hash) ==
  /\ tx = Idle
  /\ attested' = {a \in attested : a[1] # number} \cup {<<number, hash>>}
  /\ emitted' = <<>>
  /\ UNCHANGED <<poolVars, custody, bridged, bookVars, baseConfig, deposits,
                 clock, tx>>

\* Variant: a deposit may be claimed again.
ShieldFromBase_NoReplayGuard(j) ==
  /\ tx = Idle
  /\ baseConfig = [configured |-> TRUE, origin |-> j.origin]
  /\ <<j.block, j.hash>> \in attested
  /\ j.amount > 0
  /\ Kind[j.asset] # "Stellar"
  /\ deposits' = deposits \cup {j.deposit_id}
  /\ bridged' = [bridged EXCEPT ![j.asset] = @ + j.amount]
  /\ Insert(<<MakeNote(j.asset, j.amount, j.owner_tag)>>)
  /\ emitted' = <<NoteEvent(MakeNote(j.asset, j.amount, j.owner_tag))>>
  /\ UNCHANGED <<nullifiers, consumed, custody, bookVars, baseConfig, attested,
                 clock, tx>>

ShieldFromBase(j) ==
  /\ tx = Idle
  /\ baseConfig = [configured |-> TRUE, origin |-> j.origin]
  /\ <<j.block, j.hash>> \in attested
  /\ j.amount > 0
  /\ Kind[j.asset] # "Stellar"
  /\ j.deposit_id \notin deposits
  /\ deposits' = deposits \cup {j.deposit_id}
  /\ bridged' = [bridged EXCEPT ![j.asset] = @ + j.amount]
  /\ Insert(<<MakeNote(j.asset, j.amount, j.owner_tag)>>)
  /\ emitted' = <<NoteEvent(MakeNote(j.asset, j.amount, j.owner_tag))>>
  /\ UNCHANGED <<nullifiers, consumed, custody, bookVars, baseConfig, attested,
                 clock, tx>>
-----------------------------------------------------------------------------
(***************************************************************************)
(* Spends outside the book.                                                *)
(***************************************************************************)

\* The part settle and settle_exact share: both inputs are spent and each
\* side receives what the other offered, whole.
Swap(i, j, tag_i, tag_j) ==
  LET minted == <<MakeNote(notes[j].asset, notes[j].amount, tag_i),
                  MakeNote(notes[i].asset, notes[i].amount, tag_j)>>
  IN  /\ tx = Idle
      /\ Spendable(i) /\ Spendable(j)
      /\ notes[i].owner_tag # notes[j].owner_tag
      /\ MayUse(tag_i, UsedTags) /\ MayUse(tag_j, UsedTags \cup {tag_i})
      /\ Consume({i, j})
      /\ Insert(minted)
      /\ emitted' = NoteEvents(minted)
      /\ UNCHANGED <<custody, bridged, bookVars, baseVars, clock, tx>>

\* Each order asks for the other's asset and its limit is met; the expiry and
\* the pair registry are not consulted.
Settle(i, j, min_i, min_j, tag_i, tag_j) ==
  /\ notes[i].amount >= min_j /\ notes[j].amount >= min_i
  /\ Swap(i, j, tag_i, tag_j)

SettleExact(i, j, min_i, min_j, tag_i, tag_j) ==
  /\ notes[i].amount = min_j /\ notes[j].amount = min_i
  /\ \E b \in BookId : /\ notes[i].asset = GiveAsset(b)
                       /\ notes[j].asset = WantAsset(b)
  /\ Swap(i, j, tag_i, tag_j)

\* The token transfer traps when the contract does not hold the amount.
Unshield(i) ==
  /\ tx = Idle
  /\ Spendable(i)
  /\ Kind[notes[i].asset] # "BaseRepresented"
  /\ custody[notes[i].asset] >= notes[i].amount
  /\ custody' = [custody EXCEPT ![notes[i].asset] = @ - notes[i].amount]
  /\ Consume({i})
  /\ emitted' = <<>>
  /\ UNCHANGED <<notes, bridged, bookVars, baseVars, clock, tx>>

\* The outputs of a join of value total: out_1 to tag_1, the rest to tag_2.
JoinInto(asset, total, out_1, tag_1, tag_2) ==
  LET minted == MintNote(asset, out_1, tag_1)
                  \o MintNote(asset, total - out_1, tag_2)
  IN  /\ out_1 \in 0..total
      /\ MayUse(tag_1, UsedTags) /\ MayUse(tag_2, UsedTags \cup {tag_1})
      /\ Insert(minted)
      /\ emitted' = NoteEvents(minted)
      /\ UNCHANGED <<custody, bridged, bookVars, baseVars, clock, tx>>

\* Variant: the two nullifiers may be equal, so one note counts twice.
Join_SameNoteTwice(i, j, out_1, tag_1, tag_2) ==
  /\ tx = Idle
  /\ Spendable(i) /\ Spendable(j)
  /\ notes[i].asset = notes[j].asset
  /\ Consume({i, j})
  /\ JoinInto(notes[i].asset, notes[i].amount + notes[j].amount, out_1, tag_1, tag_2)

Join(i, j, out_1, tag_1, tag_2) ==
  /\ tx = Idle
  /\ Spendable(i) /\ Spendable(j)
  /\ notes[i].owner_tag # notes[j].owner_tag
  /\ notes[i].asset = notes[j].asset
  /\ Consume({i, j})
  /\ JoinInto(notes[i].asset, notes[i].amount + notes[j].amount, out_1, tag_1, tag_2)

\* The second input may be a null padding note: nothing is spent for it, but
\* its nullifier is recorded like any other.
JoinPadded(i, pad, out_1, tag_1, tag_2) ==
  /\ tx = Idle
  /\ Spendable(i)
  /\ pad \notin nullifiers /\ pad # notes[i].owner_tag
  /\ MayUse(pad, UsedTags \cup {tag_1, tag_2})
  /\ nullifiers' = nullifiers \cup {notes[i].owner_tag, pad}
  /\ consumed' = consumed \cup {i}
  /\ JoinInto(notes[i].asset, notes[i].amount, out_1, tag_1, tag_2)
-----------------------------------------------------------------------------
(***************************************************************************)
(* submit_order.  While it runs, tx.taker is the incoming order (its       *)
(* remaining_in is the loop's remaining_in), tx.makers the opposing side   *)
(* as the loop changes it, tx.i the loop index (from 1), tx.minted and     *)
(* tx.events what it has minted and published so far, tx.seq its book_seq. *)
(***************************************************************************)

\* Variant: an order lives one second longer.
Expired_OneLate(e) == e.expiry + 1 < clock
Expired(e) == e.expiry < clock

SubmitOrder(i, b, terms) ==
  /\ tx = Idle
  /\ Spendable(i)
  /\ notes[i].asset = GiveAsset(b)       \* pair_and_side
  /\ terms.expiry >= clock
  /\ MayUse(terms.output_owner_tag, UsedTags)
  /\ tx' = [op |-> "submit", spends |-> i, book_id |-> b,
            taker |-> [order_id |-> notes[i].owner_tag,
                       amount_in |-> notes[i].amount,
                       min_out |-> terms.min_out,
                       remaining_in |-> notes[i].amount,
                       output_owner_tag |-> terms.output_owner_tag,
                       cancel_owner_tag |-> terms.cancel_owner_tag,
                       expiry |-> terms.expiry,
                       partial_allowed |-> terms.partial_allowed],
            filled_out |-> 0, fills |-> 0, i |-> 1,
            makers |-> book[OtherSide(b)],
            minted |-> <<>>, events |-> <<>>, seq |-> bookSeq]
  /\ UNCHANGED <<poolVars, custody, bridged, bookVars, baseVars, clock, emitted>>

\* The loop condition.
LoopGuard(t) ==
  /\ t.i <= Len(t.makers)
  /\ t.fills < MAX_FILLS_PER_SUBMIT
  /\ t.taker.remaining_in > 0

\* The loop's break: the best remaining maker does not cross, or the taker
\* cannot pay for one of its lots.
Breaks(t) ==
  LET maker == t.makers[t.i]
  IN  /\ ~Expired(maker)
      /\ \/ ~CrossAmounts(maker.amount_in, maker.min_out,
                          t.taker.amount_in, t.taker.min_out)
         \/ KTaker(maker, t.taker.remaining_in) = 0

\* Variant: a maker is skipped whenever it would be filled in part.
Skips_EveryPartialFill(t) ==
  LET maker == t.makers[t.i]
  IN  \/ Expired(maker)
      \/ KMaker(maker) = 0
      \/ KTaker(maker, t.taker.remaining_in) < KMaker(maker)

\* The loop's continue: the maker is expired, has less than one lot left, or
\* would be filled in part although it forbids that.
Skips(t) ==
  LET maker == t.makers[t.i]
  IN  \/ Expired(maker)
      \/ KMaker(maker) = 0
      \/ /\ ~maker.partial_allowed
         /\ KTaker(maker, t.taker.remaining_in) < KMaker(maker)

InLoop == tx.op = "submit" /\ LoopGuard(tx)

\* Variant: the index is not advanced.
SkipMaker_NoAdvance ==
  /\ InLoop /\ ~Breaks(tx) /\ Skips(tx)
  /\ tx' = [tx EXCEPT !.i = @]
  /\ UNCHANGED <<poolVars, custody, bridged, bookVars, baseVars, clock, emitted>>

SkipMaker ==
  /\ InLoop /\ ~Breaks(tx) /\ Skips(tx)
  /\ tx' = [tx EXCEPT !.i = @ + 1]
  /\ UNCHANGED <<poolVars, custody, bridged, bookVars, baseVars, clock, emitted>>

\* A fill of k lots at the maker's price.  A filled maker leaves the book and
\* the next one moves into its place; a maker with funds left stays, and the
\* index does not move either.
FillMaker ==
  LET maker   == tx.makers[tx.i]
      k       == FillLots(maker, tx.taker.remaining_in)
      give    == k * Lot(maker)
      pay     == k * LotPrice(maker)
      filled  == [maker EXCEPT !.remaining_in = @ - give]
      minted  == MintNote(WantAsset(tx.book_id), give, tx.taker.output_owner_tag)
                   \o MintNote(GiveAsset(tx.book_id), pay, maker.output_owner_tag)
      opp     == OtherSide(tx.book_id)
  IN  /\ InLoop /\ ~Breaks(tx) /\ ~Skips(tx)
      /\ tx' = [tx EXCEPT
                  !.taker.remaining_in = @ - pay,
                  !.filled_out = @ + give,
                  !.fills = @ + 1,
                  !.makers = IF filled.remaining_in = 0
                             THEN RemoveAt(@, tx.i)
                             ELSE [@ EXCEPT ![tx.i] = filled],
                  !.minted = @ \o minted,
                  !.seq = @ + 1,
                  !.events =
                    @ \o NoteEvents(minted)
                      \o <<IF filled.remaining_in = 0
                           THEN RemoveEvent(tx.seq + 1, opp, maker.order_id,
                                            REMOVE_FILLED)
                           ELSE UpsertEvent(tx.seq + 1, opp, filled)>>]
      /\ UNCHANGED <<poolVars, custody, bridged, bookVars, baseVars, clock,
                     emitted>>

LoopDone == tx.op = "submit" /\ (LoopGuard(tx) => Breaks(tx))

\* submit_order returns Ok: the input note is spent, the notes enter the tree
\* and both book sides are stored.
Commit(minted, own, events, seq) ==
  /\ Insert(minted)
  /\ Consume({tx.spends})
  /\ book' = [book EXCEPT ![OtherSide(tx.book_id)] = tx.makers,
                          ![tx.book_id] = own]
  /\ bookSeq' = seq
  /\ emitted' = events
  /\ tx' = Idle
  /\ UNCHANGED <<custody, bridged, baseVars, clock>>

\* Variant: a full book takes one more order.
Rests_FullBook ==
  /\ tx.taker.remaining_in >= Lot(tx.taker)
  /\ Len(book[tx.book_id]) <= BOOK_CAPACITY

\* A remainder rests if it is at least one lot and there is a free slot.
Rests ==
  /\ tx.taker.remaining_in >= Lot(tx.taker)
  /\ Len(book[tx.book_id]) < BOOK_CAPACITY

SubmitFilled ==
  /\ LoopDone /\ tx.taker.remaining_in = 0
  /\ Commit(tx.minted, book[tx.book_id], tx.events, tx.seq)

SubmitRests ==
  /\ LoopDone /\ tx.taker.remaining_in > 0 /\ tx.taker.partial_allowed /\ Rests
  /\ Commit(tx.minted,
            BookInsertSorted(book[tx.book_id], tx.taker, tx.book_id[2]),
            Append(tx.events, UpsertEvent(tx.seq + 1, tx.book_id, tx.taker)),
            tx.seq + 1)

SubmitReturns ==
  LET returned == Refund(tx.book_id, tx.taker, tx.taker.output_owner_tag)
  IN  /\ LoopDone /\ tx.taker.remaining_in > 0 /\ tx.taker.partial_allowed
      /\ ~Rests
      /\ Commit(tx.minted \o returned, book[tx.book_id],
                tx.events \o NoteEvents(returned), tx.seq)

\* Every note that a submit_order mints if it returns Ok.
SubmitMints ==
  IF tx.taker.remaining_in > 0 /\ ~Rests
  THEN tx.minted \o Refund(tx.book_id, tx.taker, tx.taker.output_owner_tag)
  ELSE tx.minted

\* NotPartialAllowed, or a trap in tree_insert: nothing happened.
SubmitReverts ==
  /\ LoopDone
  /\ \/ tx.taker.remaining_in > 0 /\ ~tx.taker.partial_allowed
     \/ ~Fits(SubmitMints)
  /\ tx' = Idle
  /\ UNCHANGED <<poolVars, custody, bridged, bookVars, baseVars, clock, emitted>>
-----------------------------------------------------------------------------
(***************************************************************************)
(* cancel_order and prune_expired.                                         *)
(***************************************************************************)

\* The proof names an order leaf and its cancel tag; the first entry that
\* carries them is removed and what is left of it minted to a new tag.
CancelOrder(b, k, return_owner_tag) ==
  LET e == book[b][k]
      minted == Refund(b, e, return_owner_tag)
  IN  /\ tx = Idle
      /\ \A j \in 1..(k - 1) : OrderLeaf(book[b][j]) # OrderLeaf(e)
      /\ MayUse(return_owner_tag, UsedTags)
      /\ Insert(minted)
      /\ book' = [book EXCEPT ![b] = RemoveAt(@, k)]
      /\ bookSeq' = bookSeq + 1
      /\ emitted' = Append(NoteEvents(minted),
                           RemoveEvent(bookSeq + 1, b, e.order_id, REMOVE_CANCELLED))
      /\ UNCHANGED <<nullifiers, consumed, custody, bridged, baseVars, clock, tx>>

PruneExpired(b, max) ==
  /\ tx = Idle
  /\ tx' = [op |-> "prune", book_id |-> b, max |-> max, removed |-> 0, i |-> 1,
            makers |-> book[b], minted |-> <<>>, events |-> <<>>, seq |-> bookSeq]
  /\ UNCHANGED <<poolVars, custody, bridged, bookVars, baseVars, clock, emitted>>

Pruning == tx.op = "prune" /\ tx.i <= Len(tx.makers) /\ tx.removed < tx.max

PruneSkips ==
  /\ Pruning /\ ~Expired(tx.makers[tx.i])
  /\ tx' = [tx EXCEPT !.i = @ + 1]
  /\ UNCHANGED <<poolVars, custody, bridged, bookVars, baseVars, clock, emitted>>

PruneRemoves ==
  LET e == tx.makers[tx.i]
      minted == Refund(tx.book_id, e, e.output_owner_tag)
  IN  /\ Pruning /\ Expired(e)
      /\ tx' = [tx EXCEPT
                  !.makers = RemoveAt(@, tx.i),
                  !.removed = @ + 1,
                  !.minted = @ \o minted,
                  !.seq = @ + 1,
                  !.events = @ \o NoteEvents(minted)
                               \o <<RemoveEvent(tx.seq + 1, tx.book_id, e.order_id,
                                                REMOVE_EXPIRED)>>]
      /\ UNCHANGED <<poolVars, custody, bridged, bookVars, baseVars, clock,
                     emitted>>

PruneReturns ==
  /\ tx.op = "prune" /\ ~Pruning
  /\ Insert(tx.minted)
  /\ book' = [book EXCEPT ![tx.book_id] = tx.makers]
  /\ bookSeq' = tx.seq
  /\ emitted' = tx.events
  /\ tx' = Idle
  /\ UNCHANGED <<nullifiers, consumed, custody, bridged, baseVars, clock>>

PruneReverts ==
  /\ tx.op = "prune" /\ ~Pruning /\ ~Fits(tx.minted)
  /\ tx' = Idle
  /\ UNCHANGED <<poolVars, custody, bridged, bookVars, baseVars, clock, emitted>>

\* The ledger closes: time moves on between transactions.
Tick ==
  /\ tx = Idle /\ clock < MaxClock
  /\ clock' = clock + 1
  /\ UNCHANGED <<poolVars, custody, bridged, bookVars, baseVars, tx, emitted>>
-----------------------------------------------------------------------------
\* The constructor: an empty tree, empty books, no Base bridge.
Init ==
  /\ notes = <<>> /\ nullifiers = {} /\ consumed = {}
  /\ custody = [a \in Asset |-> 0] /\ bridged = [a \in Asset |-> 0]
  /\ book = [b \in BookId |-> <<>>] /\ bookSeq = 0
  /\ baseConfig = NoConfig /\ attested = {} /\ deposits = {}
  /\ clock = 0 /\ tx = Idle /\ emitted = <<>>

\* The rest of a transaction that has begun.
TxStep ==
  \/ SkipMaker \/ FillMaker
  \/ SubmitFilled \/ SubmitRests \/ SubmitReturns \/ SubmitReverts
  \/ PruneSkips \/ PruneRemoves \/ PruneReturns \/ PruneReverts

Deposit ==
  \/ \E a \in Asset, n \in ShieldAmount, t \in Tag : Shield(a, n, t)
  \/ \E o \in BaseOrigin : ConfigureBaseBridge(o)
  \/ \E bl \in BaseBlock : AttestBaseBlock(bl[1], bl[2])
  \/ \E j \in Journal : ShieldFromBase(j)

Spend ==
  \/ \E i \in DOMAIN notes : Unshield(i)
  \/ \E i, j \in DOMAIN notes, m, n \in MinOut, s, t \in Tag :
       Settle(i, j, m, n, s, t) \/ SettleExact(i, j, m, n, s, t)
  \/ \E i, j \in DOMAIN notes, s, t \in Tag :
       \E n \in 0..(notes[i].amount + notes[j].amount) : Join(i, j, n, s, t)
  \/ \E i \in DOMAIN notes, p, s, t \in Tag :
       \E n \in 0..notes[i].amount : JoinPadded(i, p, n, s, t)

Trade ==
  \/ \E i \in DOMAIN notes, b \in BookId, o \in Terms : SubmitOrder(i, b, o)
  \/ \E b \in BookId, t \in Tag :
       \E k \in DOMAIN book[b] : CancelOrder(b, k, t)
  \/ \E b \in BookId, m \in PruneMax : PruneExpired(b, m)

Next == Deposit \/ Spend \/ Trade \/ TxStep \/ Tick

Spec == Init /\ [][Next]_vars

\* The host runs a transaction it has started to its end.
FairSpec == Spec /\ WF_vars(TxStep)
-----------------------------------------------------------------------------
(***************************************************************************)
(* Correctness properties.                                                 *)
(***************************************************************************)

Event ==
  [type : {"note"}, note : Note]
    \cup [type : {"ordupsert"}, sequence : Nat, book : BookId, order : OrderEntry]
    \cup [type : {"ordremove"}, sequence : Nat, book : BookId, order_id : Tag,
          reason : {REMOVE_FILLED, REMOVE_CANCELLED, REMOVE_EXPIRED}]

SubmitTx ==
  [op : {"submit"}, spends : Nat, book_id : BookId, taker : OrderEntry,
   filled_out : Nat, fills : Nat, i : Nat \ {0}, makers : Seq(OrderEntry),
   minted : Seq(Note), events : Seq(Event), seq : Nat]

PruneTx ==
  [op : {"prune"}, book_id : BookId, max : Nat, removed : Nat, i : Nat \ {0},
   makers : Seq(OrderEntry), minted : Seq(Note), events : Seq(Event), seq : Nat]

\* Type correctness: storage holds well-formed values, a stored note has a
\* positive amount, the tree never exceeds its capacity and a book side never
\* exceeds BOOK_CAPACITY entries.
TypeInv ==
  /\ notes \in Seq(Note) /\ Len(notes) <= TREE_CAPACITY
  /\ nullifiers \subseteq Tag
  /\ consumed \subseteq DOMAIN notes
  /\ custody \in [Asset -> Nat] /\ bridged \in [Asset -> Nat]
  /\ book \in [BookId -> Seq(OrderEntry)]
  /\ \A b \in BookId : Len(book[b]) <= BOOK_CAPACITY
  /\ bookSeq \in Nat
  /\ baseConfig \in {NoConfig} \cup [configured : {TRUE}, origin : BaseOrigin]
  /\ attested \subseteq Nat \X Nat /\ deposits \subseteq Nat
  /\ clock \in Nat
  /\ tx \in {Idle} \cup SubmitTx \cup PruneTx
  /\ emitted \in Seq(Event)

\* The book side that the running transaction works on.
WorkedSide == IF tx.op = "submit" THEN OtherSide(tx.book_id) ELSE tx.book_id

\* What storage still holds when a transaction returns is what it read when it
\* began: the note it spends is still unspent, the order it will store carries
\* that note's nullifier, and the side it rewrites has not lost a slot that
\* another order could have taken since.
TxInv ==
  tx # Idle =>
    /\ tx.op = "submit" => /\ Spendable(tx.spends)
                           /\ tx.taker.order_id = notes[tx.spends].owner_tag
    /\ Len(tx.makers) <= Len(book[WorkedSide])

\* What the pool owes in asset a: the notes nobody has spent and the funds
\* locked in the book sides that offer a.
Amounts == [i \in DOMAIN notes |-> notes[i].amount]
Unspent(a) == {i \in (DOMAIN notes) \ consumed : notes[i].asset = a}
NoteValue(a) == Total(Amounts, Unspent(a))
Locked(orders) == Total([k \in DOMAIN orders |-> orders[k].remaining_in], DOMAIN orders)
BookValue(a) == Total([b \in BookId |-> Locked(book[b])], {b \in BookId : GiveAsset(b) = a})
Owed(a) == NoteValue(a) + BookValue(a)

\* Conservation: in every asset, what unspent notes and resting orders are
\* worth is exactly what was deposited on Stellar and is still in custody plus
\* what was minted for Base deposits; a Stellar asset is backed by custody
\* alone and a BaseRepresented one by Base alone.  No interleaving of shields,
\* fills, cancels, prunes, joins and withdrawals creates or destroys value.
Backing ==
  \A a \in Asset :
    /\ Owed(a) = custody[a] + bridged[a]
    /\ Kind[a] = "Stellar" => bridged[a] = 0
    /\ Kind[a] = "BaseRepresented" => custody[a] = 0

\* Seen from outside the pool is a vault: deposits, claims and withdrawals
\* move what it holds and what it owes together, and nothing else moves either.
OnStellar(a) == Kind[a] # "BaseRepresented"
OnBase(a) == Kind[a] # "Stellar"
VaultOfPool ==
  INSTANCE Vault WITH held <- custody, owed <- [a \in Asset |-> Owed(a)],
                      claimed <- deposits,
                      DepositId <- {j.deposit_id : j \in Journal}
PoolIsVault == VaultOfPool!VaultSpec

\* Each published nullifier has released the value of at most one leaf, even
\* when several leaves carry the same owner tag.
SingleSpend ==
  /\ \A i \in consumed : notes[i].owner_tag \in nullifiers
  /\ \A i, j \in consumed : notes[i].owner_tag = notes[j].owner_tag => i = j

\* Every resting order is backed by a spent note of its own: its id is a
\* recorded nullifier, no other resting order (on any book) has that id, and it
\* still locks between one unit and what it offered.  Only orders that allow
\* partial execution ever rest, so the matching loop never meets a maker that
\* forbids it.
BookInv ==
  /\ \A b \in BookId : \A k \in DOMAIN book[b] :
       /\ book[b][k].order_id \in nullifiers
       /\ book[b][k].remaining_in \in 1..book[b][k].amount_in
       /\ book[b][k].partial_allowed
  /\ \A b, c \in BookId : \A k \in DOMAIN book[b], l \in DOMAIN book[c] :
       book[b][k].order_id = book[c][l].order_id => b = c /\ k = l

\* Each book side is sorted best price first, which is what lets the matching
\* loop stop at the first maker that does not cross.
BookSorted == \A b \in BookId : SortedSide(book[b], b[2])

\* The position and the remaining funds of an order in a book side.
Position(orders, id) ==
  CHOOSE k \in DOMAIN orders : orders[k].order_id = id
Rested(orders, id) == \E k \in DOMAIN orders : orders[k].order_id = id
RemainingOf(orders, id) ==
  IF Rested(orders, id) THEN orders[Position(orders, id)].remaining_in ELSE 0

\* Time priority: resting orders never overtake each other, whatever is
\* filled, cancelled or pruned around them, and a new order only goes ahead of
\* orders whose price it beats.
TimePriority ==
  [][\A b \in BookId : \A k, l \in DOMAIN book'[b] :
       LET first == book'[b][k]  second == book'[b][l] IN
       (k < l /\ Rested(book[b], second.order_id)) =>
         IF Rested(book[b], first.order_id)
         THEN Position(book[b], first.order_id) < Position(book[b], second.order_id)
         ELSE EntryBetter(first, second, b[2])]_book

\* Price priority: a submit_order that trades with a maker leaves no maker
\* ahead of it with a whole lot still to trade, unless that one had expired.
PricePriority ==
  [][\A b \in BookId : \A k, l \in DOMAIN book[b] :
       LET ahead == book[b][k]  traded == book[b][l] IN
       (/\ tx.op = "submit" /\ k < l
        /\ RemainingOf(book'[b], traded.order_id) < traded.remaining_in) =>
         \/ ahead.expiry < clock
         \/ RemainingOf(book'[b], ahead.order_id) < Lot(ahead)]_book

\* All that was ever minted to tag t in asset a.
Proceeds(ns, t, a) ==
  LET mine == {i \in DOMAIN ns : ns[i].owner_tag = t /\ ns[i].asset = a}
  IN  Total([i \in mine |-> ns[i].amount], mine)

\* What an order has received is worth at least its limit price for what it
\* has given: proceeds / given >= min_out / amount_in.
PaidAtLimit(ns, e, b, left) ==
  Proceeds(ns, e.output_owner_tag, WantAsset(b)) * e.amount_in
    >= e.min_out * (e.amount_in - left)

\* No submit_order leaves a party worse off than its limit price: neither the
\* taker nor any maker, over all the fills of the order's life, also when the
\* order is filled to zero, left with dust, or returned (needs FreshTags, so
\* that an output tag receives the proceeds of one order only).
LimitHonoured ==
  [][tx.op = "submit" =>
       /\ PaidAtLimit(notes', tx.taker, tx.book_id, tx.taker.remaining_in)
       /\ \A b \in BookId \ {tx.book_id} : \A k \in DOMAIN book[b] :
            PaidAtLimit(notes', book[b][k], b,
                        RemainingOf(book'[b], book[b][k].order_id))]_<<notes, book>>

\* An expired order never trades: it rests untouched until a cancel or a prune
\* removes it and mints one note for all that it still locks.
ExpiredOnlyRefunded ==
  [][\A b \in BookId : \A k \in DOMAIN book[b] :
       LET e == book[b][k] IN
       e.expiry < clock =>
         \/ RemainingOf(book'[b], e.order_id) = e.remaining_in
         \/ /\ ~Rested(book'[b], e.order_id)
            /\ \E i \in (DOMAIN notes') \ (DOMAIN notes) :
                 /\ notes'[i].asset = GiveAsset(b)
                 /\ notes'[i].amount = e.remaining_in]_book

\* The client's reducer (frontend/src/bookIndexer.ts): an upsert replaces the
\* order with its id or inserts it behind every order of an equal or better
\* price; a removal deletes it.
Reduce(books, ev) ==
  IF ev.type = "ordupsert" THEN
    LET orders == books[ev.book]
        ahead == {k \in DOMAIN orders : ~EntryBetter(ev.order, orders[k], ev.book[2])}
    IN  IF Rested(orders, ev.order.order_id)
        THEN [books EXCEPT ![ev.book][Position(orders, ev.order.order_id)] = ev.order]
        ELSE [books EXCEPT ![ev.book] = InsertAt(@, Cardinality(ahead) + 1, ev.order)]
  ELSE [books EXCEPT ![ev.book] = RemoveAt(@, Position(@, ev.order_id))]

\* The client takes a book event that carries the next sequence number, unless
\* it removes an order that the client does not know.
Takes(seen, ev) ==
  /\ ev.sequence = seen.seq + 1
  /\ ev.type = "ordremove" => Rested(seen.book[ev.book], ev.order_id)

\* What a client has seen of the contract after one more event; a note is the
\* next leaf of the tree.
Observe(seen, ev) ==
  IF ev.type = "note" THEN [seen EXCEPT !.notes = Append(@, ev.note)]
  ELSE IF Takes(seen, ev) THEN [seen EXCEPT !.book = Reduce(@, ev), !.seq = ev.sequence]
  ELSE [seen EXCEPT !.failed = TRUE]

Replay(seen, events) ==
  LET After[k \in 0..Len(events)] ==
        IF k = 0 THEN seen ELSE Observe(After[k - 1], events[k])
  IN  After[Len(events)]

Seen(ns, books, seq) == [notes |-> ns, book |-> books, seq |-> seq, failed |-> FALSE]

\* The event log is complete: a client that replays the events of each
\* transaction in order gets the contract's tree and books back, and the book
\* events carry consecutive sequence numbers.
EventsReplay ==
  [][Replay(Seen(notes, book, bookSeq), emitted') = Seen(notes', book', bookSeq')
    ]_<<notes, book, bookSeq>>

\* submit_order and prune_expired always finish: no path through their loops
\* fails to move on.
TransactionEnds == (tx # Idle) ~> (tx = Idle)

\* README.md: "Assuming the contracts are bug-free and users do not lose their
\* notes, no loss of funds can occur."  Every unspent note can still be spent.
NoStrandedNote ==
  \A i \in (DOMAIN notes) \ consumed : notes[i].owner_tag \notin nullifiers
=============================================================================

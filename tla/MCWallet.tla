------------------------------ MODULE MCWallet ------------------------------
(***************************************************************************)
(* A wallet with two notes or one on the chain, one or two tabs.           *)
(***************************************************************************)
EXTENDS Wallet

OneBrowser == [t1 |-> "b1"]
TwoBrowsers == [t1 |-> "b1", t2 |-> "b2"]

Ask(kind) == [kind |-> kind, asset |-> "base", amount |-> 1, note |-> 2]
EveryRequest == {Ask(k) : k \in {"shield", "unshield", "place_order", "cancel_order"}}
SpendingRequests == {Ask(k) : k \in {"unshield", "place_order"}}
Withdrawal == {Ask("unshield")}

OnChain(amount) == [NewNote("base", amount, 0, 0, "none") EXCEPT !.indexed = TRUE]
RestingOrder == NewNote("quote", 1, 1, 0, "none")

\* A note of the exact amount and an order to cancel; a note to be split; two
\* notes of the same amount.
NoteAndOrder == <<OnChain(1), RestingOrder>>
LargeNote == <<OnChain(2)>>
EqualNotes == <<OnChain(1), OnChain(1)>>

Mishap1(crash, lapse, cancel, fault) ==
  [crash |-> crash, lapse |-> lapse, cancel |-> cancel, fault |-> fault]
OneMishap == {Mishap1(1, 0, 0, 0), Mishap1(0, 0, 1, 0), Mishap1(0, 0, 0, 1)}
OneReload == {Mishap1(1, 0, 0, 0)}
=============================================================================

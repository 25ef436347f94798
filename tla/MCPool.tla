------------------------------- MODULE MCPool -------------------------------
(***************************************************************************)
(* The whole contract from its constructor: one asset of each kind, users  *)
(* who reuse owner tags as they like, two generations of the Base bridge.  *)
(***************************************************************************)
EXTENDS Settlement

CONSTANT MaxDeposits  \* bound on the leaves at which a deposit is still made

MCKind == [XLM |-> "Stellar", USDC |-> "Dual", ETH |-> "BaseRepresented"]
MCPair == <<[base_asset |-> "XLM", quote_asset |-> "USDC"]>>
MCBaseBlock == {<<7, 1>>, <<7, 2>>}

Receipt(origin, hash, id, asset, amount, tag) ==
  [block |-> 7, hash |-> hash, origin |-> origin, deposit_id |-> id,
   asset |-> asset, amount |-> amount, owner_tag |-> tag]

\* Deposit 0 of the first bridge in its canonical and in an abandoned block,
\* deposit 0 of the bridge that replaces it, a deposit of a Stellar-only asset
\* and one of nothing.
MCJournal ==
  {Receipt("v1", 1, 0, "USDC", 1, 1), Receipt("v1", 2, 0, "USDC", 2, 1),
   Receipt("v2", 1, 0, "ETH", 1, 2), Receipt("v2", 1, 1, "XLM", 1, 1),
   Receipt("v1", 1, 1, "USDC", 0, 2)}

\* Deposits stop at two leaves, which leaves room for what they are spent into.
PoolNext ==
  (Len(notes) < MaxDeposits /\ Deposit) \/ Spend \/ Trade \/ TxStep \/ Tick
PoolSpec == Init /\ [][PoolNext]_vars
=============================================================================

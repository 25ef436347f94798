------------------------------- MODULE MCBook -------------------------------
(***************************************************************************)
(* The order book on a pool that is already funded: note k carries owner   *)
(* tag k, so the tags beyond the funding bound how many requests follow.   *)
(***************************************************************************)
EXTENDS Settlement

CONSTANT Start  \* alternatives: amounts of the XLM and of the USDC notes, ledger time

MCKind == [a \in Asset |-> "Stellar"]
MCPair == <<[base_asset |-> "XLM", quote_asset |-> "USDC"]>>

BookInit ==
  \E s \in Start :
    LET f == s.base
        g == s.quote
        funded == [k \in 1..(Len(f) + Len(g)) |->
                     IF k <= Len(f) THEN MakeNote("XLM", f[k], k)
                                    ELSE MakeNote("USDC", g[k - Len(f)], k)]
    IN  /\ notes = funded
        /\ custody = [a \in Asset |->
                        Total([i \in DOMAIN funded |-> funded[i].amount],
                              {i \in DOMAIN funded : funded[i].asset = a})]
        /\ nullifiers = {} /\ consumed = {}
        /\ bridged = [a \in Asset |-> 0]
        /\ book = [b \in BookId |-> <<>>] /\ bookSeq = 0
        /\ baseConfig = NoConfig /\ attested = {} /\ deposits = {}
        /\ clock = s.clock /\ tx = Idle /\ emitted = <<>>

BookNext == Trade \/ TxStep \/ Tick

BookSpec == BookInit /\ [][BookNext]_vars
FairBookSpec == BookSpec /\ WF_vars(TxStep)

Funds(base, quote, time) == [base |-> base, quote |-> quote, clock |-> time]

\* One order per note: the sellers have XLM, the buyers USDC.  Where time is at
\* its bound already no order can expire; the amounts are more varied there.
Timeless ==
  {Funds(<<3, 2>>, <<4>>, MaxClock), Funds(<<1, 1, 1>>, <<4>>, MaxClock),
   Funds(<<2>>, <<4, 3>>, MaxClock), Funds(<<2, 2>>, <<4, 3>>, MaxClock)}
Timed == {Funds(<<2, 1>>, <<4, 2>>, 0)}
MCStart == Timeless \cup Timed
=============================================================================

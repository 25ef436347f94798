------------------------------- MODULE Vault --------------------------------
(***************************************************************************)
(* What the shielded pool promises, seen from outside: a vault that owes   *)
(* its users exactly what they brought in.  The holder of the real tokens  *)
(* (held), the value that entered from Base (bridged) and the debt to the  *)
(* users (owed) change together, one asset at a time, and only in three    *)
(* ways.  Trading, joining, cancelling and pruning are invisible here.     *)
(***************************************************************************)
EXTENDS Integers

CONSTANTS
  Asset,
  OnStellar(_),   \* the asset has a token on Stellar
  OnBase(_),      \* the asset has a token on Base
  DepositId       \* ids of deposits on Base

VARIABLES held, bridged, owed, claimed

vaultVars == <<held, bridged, owed, claimed>>

\* The balance f moved by d in asset a and in no other.
Moves(f, g, a, d) == g = [f EXCEPT ![a] = @ + d]

VaultInit ==
  /\ held = [a \in Asset |-> 0] /\ bridged = [a \in Asset |-> 0]
  /\ owed = [a \in Asset |-> 0] /\ claimed = {}

\* A user brings in n units of the token on Stellar.
Deposit(a, n) ==
  /\ OnStellar(a) /\ n > 0
  /\ Moves(held, held', a, n) /\ Moves(owed, owed', a, n)
  /\ UNCHANGED <<bridged, claimed>>

\* A deposit on Base is claimed, once.
Claim(d, a, n) ==
  /\ OnBase(a) /\ n > 0 /\ d \notin claimed
  /\ claimed' = claimed \cup {d}
  /\ Moves(bridged, bridged', a, n) /\ Moves(owed, owed', a, n)
  /\ UNCHANGED held

\* A user takes out n units that the vault holds and owes.
Withdraw(a, n) ==
  /\ OnStellar(a) /\ n > 0 /\ held[a] >= n /\ owed[a] >= n
  /\ Moves(held, held', a, -n) /\ Moves(owed, owed', a, -n)
  /\ UNCHANGED <<bridged, claimed>>

VaultNext ==
  \E a \in Asset :
    \/ Deposit(a, held'[a] - held[a])
    \/ \E d \in DepositId : Claim(d, a, bridged'[a] - bridged[a])
    \/ Withdraw(a, held[a] - held'[a])

VaultSpec == VaultInit /\ [][VaultNext]_vaultVars
=============================================================================

------------------------------- MODULE Account -------------------------------
(***************************************************************************)
(* One tab and the account in it: the wallet (frontend/src/                *)
(* WalletContext.tsx), the storage mode (StorageModeContext.tsx), the      *)
(* login at the MCP server (auth.ts, packages/mcp/src/auth.ts) and the     *)
(* recovery session with its backup (recovery.ts).                         *)
(*                                                                         *)
(* Every part is asynchronous: accounts and modes are switched while a     *)
(* login waits for a signature, a recovery session is derived or a backup  *)
(* is on its way.  recovery.ts keeps its account and mode in module        *)
(* variables, which its functions read when they come to use them.  A      *)
(* note is its name, the account it was staged for and the mode it was     *)
(* staged in; a backup is the set of notes in its snapshot.                *)
(***************************************************************************)
EXTENDS Integers, SequencesExt, FiniteSetsExt

CONSTANTS
  Wallet,     \* the accounts in Freighter
  None,
  NoteName,   \* the notes that the user stages
  MaxMoves,   \* bound on accounts and modes selected
  MaxFaults   \* bound on failures and sessions that expire

ASSUME AccountAssumption ==
  None \notin Wallet /\ MaxMoves \in Nat /\ MaxFaults \in Nat

Mode == {"trusted", "trustless"}

VARIABLES
  wallet,      \* WalletContext: address
  mode,        \* StorageModeContext: mode
  switching,   \* setMode("trusted") under way: where it is
  seen,        \* the wallet and mode of the last effects
  login,       \* auth.ts: inFlight
  waiting,     \* whether the effect waits for the login
  token,       \* the MCP session: its account, and whether the server has it
  activeMode, backend, active, selection, status,  \* recovery.ts: module variables
  selecting,   \* selectRecoveryAccount calls under way
  store,       \* the notes in the browser, by mode
  backup,      \* wallet_backups, by account
  queue,       \* syncTail: who made the calls that wait
  sync,        \* the call that runs
  moves, faults

walletVars == <<wallet, mode, switching, seen>>
loginVars  == <<login, waiting, token>>
selectVars == <<selection, status, selecting, active>>
modeVars   == <<activeMode, backend>>
syncVars   == <<queue, sync>>
noteVars   == <<store, backup>>
bounds     == <<moves, faults>>
accountVars == <<walletVars, loginVars, selectVars, modeVars, syncVars, noteVars, bounds>>
-----------------------------------------------------------------------------
NoSession == [account |-> None, live |-> FALSE]
NoLogin   == [account |-> None, at |-> "none"]
NoSync    == [by |-> "none", account |-> None, at |-> "none", notes |-> {}]

Move  == moves < MaxMoves /\ moves' = moves + 1 /\ UNCHANGED faults
Fault == faults < MaxFaults /\ faults' = faults + 1 /\ UNCHANGED moves

SetRecovery(m) == activeMode' = m /\ backend' = (m = "trusted")
-----------------------------------------------------------------------------
(***************************************************************************)
(* The user: connect, disconnect, another account in Freighter; the mode.  *)
(***************************************************************************)

\* connect, disconnect and the refresh that finds another account.
SelectWallet(a) ==
  /\ Move /\ a # wallet /\ wallet' = a
  /\ UNCHANGED <<mode, switching, seen, loginVars, selectVars, modeVars, syncVars, noteVars>>

\* ensureBackendSession: a login under way is joined, whoever it is for.
EnsureSession(a) ==
  login' = IF login = NoLogin THEN [account |-> a, at |-> "check"] ELSE login

\* setMode("trusted").
Trust ==
  /\ Move /\ mode = "trustless" /\ switching = "no" /\ wallet # None
  /\ switching' = "login" /\ EnsureSession(wallet)
  /\ UNCHANGED <<wallet, mode, seen, waiting, token, selectVars, modeVars, syncVars, noteVars>>

\* MosaicServer's disconnect and setMode("trustless").
Distrust ==
  /\ Move /\ mode = "trusted" /\ switching = "no"
  /\ token' = NoSession /\ mode' = "trustless" /\ SetRecovery("trustless")
  /\ UNCHANGED <<wallet, switching, seen, login, waiting, selectVars, syncVars, noteVars>>
-----------------------------------------------------------------------------
(***************************************************************************)
(* The effects of a commit.                                                *)
(***************************************************************************)

\* Variant: the mode that recovery.ts has is left alone.
ModeEffect_None == UNCHANGED modeVars

\* recovery.ts gets a new mode; a trusted one without a wallet is given up.
ModeEffect ==
  IF wallet = None /\ mode = "trusted" THEN SetRecovery("trustless")
  ELSE IF seen.mode # mode THEN SetRecovery(mode) ELSE UNCHANGED modeVars

\* A trusted mode without a wallet ends, with its session.
LogoutEffect ==
  IF wallet = None /\ mode = "trusted"
  THEN mode' = "trustless" /\ token' = NoSession
  ELSE UNCHANGED <<mode, token>>

\* A trusted mode with a wallet logs in; an earlier effect's wait is over.
LoginEffect ==
  IF wallet # None /\ mode = "trusted"
  THEN EnsureSession(wallet) /\ waiting' = TRUE
  ELSE waiting' = FALSE /\ UNCHANGED login

\* Variant: an account is selected once.
AccountChanged_Once == seen.wallet # wallet /\ status.account = None

\* RecoveryContext's effect depends on the account.
AccountChanged == seen.wallet # wallet

\* selectRecoveryAccount, up to its first wait.
SelectEffect ==
  IF AccountChanged
  THEN /\ selection' = selection + 1 /\ active' = None
       /\ status' = [account |-> wallet, unlocked |-> FALSE]
       /\ selecting' = selecting \cup (IF wallet = None THEN {}
                          ELSE {[n |-> selection + 1, account |-> wallet, at |-> "get"]})
  ELSE UNCHANGED selectVars

Commit ==
  /\ seen # [wallet |-> wallet, mode |-> mode]
  /\ seen' = [wallet |-> wallet, mode |-> mode]
  /\ ModeEffect /\ LogoutEffect /\ LoginEffect /\ SelectEffect
  /\ UNCHANGED <<wallet, switching, syncVars, noteVars, bounds>>
-----------------------------------------------------------------------------
(***************************************************************************)
(* The login.                                                              *)
(***************************************************************************)

\* The continuations of setMode and of the effect, with or without a session; a
\* failed effect falls back to the trustless mode.
LoggedIn ==
  /\ login' = NoLogin /\ waiting' = FALSE
  /\ IF switching = "login" \/ waiting
     THEN SetRecovery("trusted") ELSE UNCHANGED modeVars
  /\ queue' = queue \o (IF switching = "login" THEN <<"setMode">> ELSE <<>>)
                    \o (IF waiting THEN <<"effect">> ELSE <<>>)
  /\ switching' = IF switching = "login" THEN "sync" ELSE switching
  /\ UNCHANGED <<wallet, mode, seen, selectVars, sync, noteVars>>

LoginFailed ==
  /\ login' = NoLogin /\ waiting' = FALSE
  /\ switching' = IF switching = "login" THEN "no" ELSE switching
  /\ mode' = IF waiting THEN "trustless" ELSE mode
  /\ IF waiting THEN SetRecovery("trustless")
     ELSE IF switching = "login" THEN backend' = FALSE /\ UNCHANGED activeMode
     ELSE UNCHANGED modeVars
  /\ UNCHANGED <<wallet, seen, selectVars, syncVars, noteVars>>

\* auth_session answers for a session of the account; any other is ended.
CheckSession ==
  /\ login.at = "check" /\ UNCHANGED bounds
  /\ IF token = [account |-> login.account, live |-> TRUE]
     THEN LoggedIn /\ UNCHANGED token
     ELSE /\ token' = NoSession /\ login' = [login EXCEPT !.at = "sign"]
          /\ UNCHANGED <<waiting, walletVars, selectVars, modeVars, syncVars, noteVars>>

\* auth_challenge, the wallet's signature, auth_verify.
Authenticate ==
  /\ login.at = "sign" /\ UNCHANGED bounds
  /\ token' = [account |-> login.account, live |-> TRUE] /\ LoggedIn

\* A call fails, the signature is refused, or the challenge has expired.
AuthenticateFails == Fault /\ login.at = "sign" /\ LoginFailed /\ UNCHANGED token

SessionExpires ==
  /\ Fault /\ token.live /\ token' = [token EXCEPT !.live = FALSE]
  /\ UNCHANGED <<walletVars, login, waiting, selectVars, modeVars, syncVars, noteVars>>
-----------------------------------------------------------------------------
(***************************************************************************)
(* selectRecoveryAccount.                                                  *)
(***************************************************************************)

Current(c) == c.n = selection
To(c, step) == selecting' = (selecting \ {c}) \cup {[c EXCEPT !.at = step]}
Drop(c) == selecting' = selecting \ {c}

\* A session from the cache is active at once; without one it is to be derived.
GetCached(c) ==
  /\ c.at = "get"
  /\ IF ~Current(c) THEN Drop(c) /\ UNCHANGED <<active, status>>
     ELSE \/ To(c, "derive") /\ UNCHANGED <<active, status>>
          \/ /\ active' = c.account /\ status' = [status EXCEPT !.unlocked = TRUE]
             /\ To(c, "restore")
  /\ UNCHANGED <<walletVars, loginVars, selection, modeVars, syncVars, noteVars, bounds>>

\* The derived session is assigned before it is asked whether it is still wanted.
DeriveLocalSession(c) ==
  /\ c.at = "derive" /\ active' = c.account
  /\ IF Current(c) THEN To(c, "put") ELSE Drop(c)
  /\ UNCHANGED <<walletVars, loginVars, selection, status, modeVars, syncVars, noteVars, bounds>>

\* It is in the cache: what is shown is unlocked.
PutCached(c) ==
  /\ c.at = "put" /\ status' = [status EXCEPT !.unlocked = TRUE] /\ To(c, "restore")
  /\ UNCHANGED <<walletVars, loginVars, selection, active, modeVars, syncVars, noteVars, bounds>>

\* mergeRecoveryNotes: the account's notes of a snapshot (mergeNote is in Wallet).
MergeRecoveryNotes(notes, a, incoming) == notes \cup {n \in incoming : n.account = a}

\* restoreFromBackend, if the mode has a backend; the notes go to the mode's store.
RestoreFromBackend(c) ==
  /\ c.at = "restore" /\ Drop(c)
  /\ store' = IF backend /\ active # None
              THEN [store EXCEPT ![activeMode] =
                      MergeRecoveryNotes(@, active, backup[active])]
              ELSE store
  /\ UNCHANGED <<walletVars, loginVars, selection, active, status, modeVars, syncVars, backup,
                 bounds>>
-----------------------------------------------------------------------------
(***************************************************************************)
(* Notes and their backup.                                                 *)
(***************************************************************************)

Named(n) == \E m \in Mode : \E x \in store[m] : x.name = n

\* stageRecoverableNotes: a note of the active session, in the mode's store, and
\* a sync.
StageRecoverableNotes(n) ==
  /\ status.unlocked /\ active # None /\ ~Named(n)
  /\ store' = [store EXCEPT ![activeMode] =
                 @ \cup {[name |-> n, account |-> active, mode |-> activeMode]}]
  /\ queue' = Append(queue, "note")
  /\ UNCHANGED <<walletVars, loginVars, selectVars, modeVars, sync, backup, bounds>>

\* Variant: the snapshot has every note of the store.
RecoveryNotes_All(notes, a) == notes

\* recoveryNotes: the account's.
RecoveryNotes(notes, a) == {n \in notes : n.account = a}

SyncGoes(step) == sync' = [sync EXCEPT !.at = step]

\* The end of a call, and of the setMode that waited for it.
SyncEnds(by) ==
  switching' = IF by = "setMode" THEN "done" ELSE switching

\* The next call: it fails without a session, and has no more to do without a
\* backend.
SyncRecoveryNow ==
  /\ sync = NoSync /\ queue # <<>> /\ queue' = Tail(queue)
  /\ IF active # None /\ backend
     THEN /\ sync' = [by |-> Head(queue), account |-> active, at |-> "get", notes |-> {}]
          /\ UNCHANGED switching
     ELSE UNCHANGED sync /\ SyncEnds(Head(queue))
  /\ UNCHANGED <<wallet, mode, seen, loginVars, selectVars, modeVars, noteVars, bounds>>

\* getRemote answers: its notes are merged, those of the store read and encrypted.
SyncMerge ==
  LET merged == MergeRecoveryNotes(store[activeMode], sync.account, backup[sync.account])
  IN  /\ sync.at = "get" /\ store' = [store EXCEPT ![activeMode] = merged]
      /\ SyncGoes("read")
      /\ UNCHANGED <<walletVars, loginVars, selectVars, modeVars, queue, backup, bounds>>

SyncRead ==
  /\ sync.at = "read"
  /\ sync' = [sync EXCEPT !.at = "put", !.notes = RecoveryNotes(store[activeMode], sync.account)]
  /\ UNCHANGED <<walletVars, loginVars, selectVars, modeVars, queue, noteVars, bounds>>

\* put_wallet_backup.
SyncPut ==
  /\ sync.at = "put" /\ backup' = [backup EXCEPT ![sync.account] = sync.notes]
  /\ sync' = NoSync /\ SyncEnds(sync.by)
  /\ UNCHANGED <<wallet, mode, seen, loginVars, selectVars, modeVars, queue, store, bounds>>

\* A call fails; the next in the queue runs all the same.
SyncFails ==
  /\ Fault /\ sync.at \in {"get", "put"} /\ sync' = NoSync /\ SyncEnds(sync.by)
  /\ UNCHANGED <<wallet, mode, seen, loginVars, selectVars, modeVars, queue, noteVars>>

\* setMode goes on when its sync has ended, well or not.
ModeSet ==
  /\ switching = "done" /\ switching' = "no" /\ mode' = "trusted"
  /\ UNCHANGED <<wallet, seen, loginVars, selectVars, modeVars, syncVars, noteVars, bounds>>
-----------------------------------------------------------------------------
Init ==
  /\ wallet = None /\ mode = "trustless" /\ switching = "no"
  /\ seen = [wallet |-> None, mode |-> "trustless"]
  /\ login = NoLogin /\ waiting = FALSE /\ token = NoSession
  /\ activeMode = "trustless" /\ backend = FALSE
  /\ active = None /\ selection = 0 /\ selecting = {}
  /\ status = [account |-> None, unlocked |-> FALSE]
  /\ store = [m \in Mode |-> {}] /\ backup = [a \in Wallet |-> {}]
  /\ queue = <<>> /\ sync = NoSync
  /\ moves = 0 /\ faults = 0

Selection ==
  \E c \in selecting :
    GetCached(c) \/ DeriveLocalSession(c) \/ PutCached(c) \/ RestoreFromBackend(c)

Login == CheckSession \/ Authenticate
Sync == SyncRecoveryNow \/ SyncMerge \/ SyncRead \/ SyncPut

Next ==
  \/ \E a \in Wallet \cup {None} : SelectWallet(a)
  \/ Trust \/ Distrust \/ Commit \/ ModeSet
  \/ Login \/ AuthenticateFails \/ SessionExpires
  \/ Selection
  \/ \E n \in NoteName : StageRecoverableNotes(n)
  \/ Sync \/ SyncFails

\* React renders; promises settle, IndexedDB and the derivation answer.
Fairness ==
  /\ WF_accountVars(Commit) /\ WF_accountVars(ModeSet) /\ WF_accountVars(Selection)
  /\ WF_accountVars(Sync)

Spec == Init /\ [][Next]_accountVars /\ Fairness
-----------------------------------------------------------------------------
AtRest == seen = [wallet |-> wallet, mode |-> mode] /\ switching = "no"

(***************************************************************************)
(* When no switch of the mode is under way, recovery.ts has the mode that  *)
(* is shown, and a backend in the trusted mode only, however logins that   *)
(* fail or come late and switches of the account were interleaved.         *)
(***************************************************************************)
ModesAgree == AtRest => activeMode = mode /\ backend = (mode = "trusted")

(***************************************************************************)
(* The backup of an account has notes of that account only, when accounts  *)
(* are switched while a session is derived or a backup is on its way.      *)
(***************************************************************************)
BackupsAreOwn == \A a \in Wallet : \A n \in backup[a] : n.account = a

(***************************************************************************)
(* A wallet that stays connected gets a recovery session: those of         *)
(* accounts selected before it, which come late, do not leave it without.  *)
(***************************************************************************)
Unlocks ==
  \A a \in Wallet :
    wallet = a ~> wallet # a \/ (status = [account |-> a, unlocked |-> TRUE] /\ active # None)

(***************************************************************************)
(* A note staged in the trustless mode is not in a backup (App.tsx:174,    *)
(* "your private notes live only in this browser and are never backed      *)
(* up").  A sync reads the mode again after each of its waits.             *)
(***************************************************************************)
NeverBackedUp == \A a \in Wallet : \A n \in backup[a] : n.mode = "trusted"

(***************************************************************************)
(* The active session is of the account that is shown.                     *)
(***************************************************************************)
ActiveIsShown == status.unlocked /\ active # None => active = status.account

(***************************************************************************)
(* In a trusted mode at rest, a live session is of the connected wallet.   *)
(***************************************************************************)
SessionIsOwn ==
  AtRest /\ login = NoLogin /\ mode = "trusted" /\ token.live => token.account = wallet
=============================================================================

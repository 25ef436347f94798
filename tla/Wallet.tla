------------------------------- MODULE Wallet -------------------------------
(***************************************************************************)
(* One wallet in trusted mode: browser tabs that claim operations from the *)
(* server's queue and execute their private part, the notes and action     *)
(* results each browser keeps in IndexedDB, the encrypted backup on the    *)
(* server and the transactions the tabs submit.  A note stands for its     *)
(* secrets: who has lost the record can never spend the leaf.              *)
(***************************************************************************)
EXTENDS OperationQueue, OrderPlan, Sequences, FiniteSets

CONSTANTS
  Tab, Browser, BrowserOf,  \* BrowserOf[t]: the browser, and IndexedDB, of a tab
  StartNotes,   \* notes every browser, the backup and the chain begin with
  MaxNotes,     \* bound on note identifiers
  MaxRev,       \* bound on note revisions
  SyncAttempts, \* attempts of one backup sync (4 in the code)
  Mishaps       \* bounds on reloads, lapsed leases, cancellations and faults

NoteId == 1..MaxNotes

VARIABLES
  db,        \* the notes in each browser's IndexedDB
  cached,    \* operations whose result is in each browser's action cache
  backup,    \* the notes of the last snapshot the server accepted
  exec,      \* what each tab's executor is doing
  poll,      \* what each tab's refresh and chain pollers are doing
  sync,      \* backup syncs: one the executor awaits, one the pollers await
  syncError, \* recovery.error of each tab
  txs,       \* transactions submitted, in order
  filled,    \* order outputs the book has filled
  used,      \* note identifiers handed out
  left       \* mishaps still to come

wallet == <<db, cached, backup, exec, poll, sync, syncError, txs, filled, used, left>>
chain == <<txs, filled>>
vars == <<queueVars, wallet>>

-----------------------------------------------------------------------------
(* Notes *)

NoteRecord ==
  [asset : {"base", "quote"}, amount : Nat, cancel : Nat,
   status : {"active", "spent", "cancelled"}, indexed : BOOLEAN,
   op : Op \cup {0}, rev : Nat,
   state : {"none", "released", "reserved", "pending-output", "committed"}]

\* A wallet begins at rest: no operation has its notes, none is written off.
ASSUME WalletAssumption ==
  /\ BrowserOf \in [Tab -> Browser]
  /\ StartNotes \in Seq({x \in NoteRecord : x.op = 0 /\ x.state = "none"
                                              /\ x.status = "active"})
  /\ Mishaps \subseteq [crash : Nat, lapse : Nat, cancel : Nat, fault : Nat]

\* cancel is amount_in of an order's output note, 0 for a plain asset note.
NewNote(asset, amount, cancel, o, state) ==
  [asset |-> asset, amount |-> amount, cancel |-> cancel, status |-> "active",
   indexed |-> FALSE, op |-> o, state |-> state, rev |-> 1]

Put(notes, new) ==
  [n \in DOMAIN notes \cup DOMAIN new |->
     IF n \in DOMAIN new THEN new[n] ELSE notes[n]]

\* NoteManager.update: every write of a note that exists takes the next revision;
\* nothing happens to a note that is no longer there.
Revised(note, patched) == [patched EXCEPT !.rev = note.rev + 1]
Update(notes, ids, Patch(_)) ==
  [n \in DOMAIN notes |->
     IF n \in ids THEN Revised(notes[n], Patch(notes[n])) ELSE notes[n]]

Reserve(note, o) == [note EXCEPT !.op = o, !.state = "reserved"]
Release(note) == [note EXCEPT !.op = 0, !.state = "released"]
Commit(note) == [note EXCEPT !.state = "committed"]

\* A reservation is released by writing undefined, which JSON drops: the key is
\* missing from the snapshot, as if there had never been one.
Snapshot(notes) ==
  [n \in DOMAIN notes |->
     IF notes[n].state = "released" THEN [notes[n] EXCEPT !.state = "none"]
                                    ELSE notes[n]]

\* Variant: the newer copy's status, whatever the other one knows.
MergedStatus_Newer(a, b, newer) == newer.status

\* A spent or cancelled copy decides, whichever is newer.
MergedStatus(a, b, newer) ==
  IF a.status # "active" THEN a.status
  ELSE IF b.status # "active" THEN b.status ELSE newer.status

\* Last write wins, key by key: a key that only one copy has comes from it.
\* Equal revisions are told apart by the clocks of the two browsers.
MergeNote(a, b, bIsLater) ==
  LET newer == IF b.rev > a.rev \/ (b.rev = a.rev /\ bIsLater) THEN b ELSE a
      other == IF b.rev > a.rev \/ (b.rev = a.rev /\ bIsLater) THEN a ELSE b
      journal == IF newer.state = "none" THEN other ELSE newer
  IN  [newer EXCEPT
         !.status = MergedStatus(a, b, newer), !.indexed = a.indexed \/ b.indexed,
         !.op = journal.op, !.state = journal.state]

MergeRecoveryNotes(local, remote, remoteIsLater) ==
  [n \in DOMAIN local \cup DOMAIN remote |->
     IF n \notin DOMAIN remote THEN local[n]
     ELSE IF n \notin DOMAIN local THEN remote[n]
     ELSE MergeNote(local[n], remote[n], remoteIsLater)]

-----------------------------------------------------------------------------
(* The chain, as far as a wallet can tell *)

Landed == {i \in DOMAIN txs : txs[i].status = "landed"}
Resting ==
  ({n \in DOMAIN StartNotes : StartNotes[n].cancel > 0}
     \cup UNION {txs[i].outs : i \in {j \in Landed : txs[j].method = "submit_order"}})
  \ (filled \cup UNION {txs[i].order : i \in Landed})
Minted ==
  {n \in DOMAIN StartNotes : StartNotes[n].cancel = 0} \cup filled
    \cup UNION {txs[i].outs : i \in {j \in Landed : txs[j].method # "submit_order"}}
Spent == UNION {txs[i].ins : i \in Landed}

\* What simulation checks before, and the contract when the transaction runs.
Applies(ins, order) == ins \subseteq Minted \ Spent /\ order \subseteq Resting

\* Ledger inclusion, or the end of the transaction's time bounds.
TxLands(i) ==
  /\ txs[i].status = "pending" /\ Applies(txs[i].ins, txs[i].order)
  /\ txs' = [txs EXCEPT ![i].status = "landed"]
  /\ UNCHANGED <<queueVars, db, cached, backup, exec, poll, sync, syncError,
                 filled, used, left>>

TxFails(i) ==
  /\ txs[i].status = "pending"
  /\ ~Applies(txs[i].ins, txs[i].order) \/ left.fault > 0
  /\ left' = IF Applies(txs[i].ins, txs[i].order)
             THEN [left EXCEPT !.fault = @ - 1] ELSE left
  /\ txs' = [txs EXCEPT ![i].status = "failed"]
  /\ UNCHANGED <<queueVars, db, cached, backup, exec, poll, sync, syncError,
                 filled, used>>

OrderFills(n) ==
  /\ n \in Resting
  /\ filled' = filled \cup {n}
  /\ UNCHANGED <<queueVars, db, cached, backup, exec, poll, sync, syncError,
                 txs, used, left>>

\* NoteManager.reconcile: cancelled orders are left alone.
Unseen(notes) ==
  {n \in DOMAIN notes : n \in Minted /\ ~notes[n].indexed
                          /\ notes[n].status # "cancelled"}
Reconcile(notes) ==
  Update(notes, Unseen(notes), LAMBDA note : [note EXCEPT !.indexed = TRUE])

-----------------------------------------------------------------------------
(* Encrypted backup.  The generation the server compares is the question    *)
(* whether another snapshot was accepted since this one's base was read.   *)

NoSync == [pc |-> "none", current |-> FALSE, tries |-> 0, notes |-> <<>>]
Wanted == [NoSync EXCEPT !.pc = "wanted"]
Caller == {"exec", "poll"}

\* syncTail: the syncs of one tab run one after the other.
SyncMerge(t, c) ==
  /\ sync[t][c].pc = "wanted"
  /\ \A d \in Caller : sync[t][d].pc \notin {"merged", "encrypted"}
  /\ \E later \in BOOLEAN :
       db' = [db EXCEPT ![BrowserOf[t]] = MergeRecoveryNotes(@, backup, later)]
  /\ sync' = [sync EXCEPT ![t][c] = [@ EXCEPT !.pc = "merged", !.current = TRUE]]
  /\ syncError' = [syncError EXCEPT ![t] = FALSE]
  /\ UNCHANGED <<queueVars, cached, backup, exec, poll, txs, filled, used, left>>

SyncEncrypt(t, c) ==
  /\ sync[t][c].pc = "merged"
  /\ sync' = [sync EXCEPT ![t][c] = [@ EXCEPT !.pc = "encrypted",
                                              !.notes = Snapshot(db[BrowserOf[t]])]]
  /\ UNCHANGED <<queueVars, db, cached, backup, exec, poll, syncError, txs,
                 filled, used, left>>

\* Variant: the server takes every snapshot.
Accepts_Any(t, c) == TRUE

\* The expected generation is the stored one.
Accepts(t, c) == sync[t][c].current

\* putWalletBackup accepts the snapshot: every other one in the making is stale.
SyncPut(t, c) ==
  /\ sync[t][c].pc = "encrypted" /\ Accepts(t, c)
  /\ backup' = sync[t][c].notes
  /\ sync' = [u \in Tab |-> [d \in Caller |->
                IF u = t /\ d = c THEN [NoSync EXCEPT !.pc = "ok"]
                ELSE [sync[u][d] EXCEPT !.current = FALSE]]]
  /\ UNCHANGED <<queueVars, db, cached, exec, poll, syncError, txs, filled,
                 used, left>>

SyncConflict(t, c) ==
  /\ sync[t][c].pc = "encrypted" /\ ~Accepts(t, c)
  /\ LET spent == sync[t][c].tries + 1 = SyncAttempts
     IN  /\ sync' = [sync EXCEPT ![t][c] =
                       IF spent THEN [NoSync EXCEPT !.pc = "error"]
                       ELSE [Wanted EXCEPT !.tries = sync[t][c].tries + 1]]
         /\ syncError' = [syncError EXCEPT ![t] = spent]
  /\ UNCHANGED <<queueVars, db, cached, backup, exec, poll, txs, filled, used, left>>

\* A call fails, perhaps only on the way back.
SyncFault(t, c) ==
  /\ sync[t][c].pc \in {"wanted", "merged", "encrypted"} /\ left.fault > 0
  /\ \/ UNCHANGED backup
     \/ /\ sync[t][c].pc = "encrypted" /\ Accepts(t, c)
        /\ backup' = sync[t][c].notes
  /\ left' = [left EXCEPT !.fault = @ - 1]
  /\ sync' = [u \in Tab |-> [d \in Caller |->
                IF u = t /\ d = c THEN [NoSync EXCEPT !.pc = "error"]
                ELSE [sync[u][d] EXCEPT !.current = @ /\ backup' = backup]]]
  /\ syncError' = [syncError EXCEPT ![t] = TRUE]
  /\ UNCHANGED <<queueVars, db, cached, exec, poll, txs, filled, used>>

Synced(t, c) == sync[t][c].pc = "ok"
SyncEnded(t, c) == sync[t][c].pc \in {"ok", "error"}
SyncReturns(t, c) == sync' = [sync EXCEPT ![t][c] = NoSync]
WantSync(t, c) == sync' = [sync EXCEPT ![t][c] = Wanted]

-----------------------------------------------------------------------------
(* The executor: one claimed action at a time in each tab.  new are the     *)
(* notes the next transaction mints, note the input selected so far.        *)

NoJob == [pc |-> "idle", op |-> 0, lease |-> 0, call |-> "none", note |-> 0,
          ins |-> {}, order |-> {}, new |-> <<>>, steps |-> <<>>, tx |-> 0]

Notes(t) == db[BrowserOf[t]]
SetNotes(t, notes) ==
  /\ \A n \in DOMAIN notes : notes[n].rev <= MaxRev
  /\ db' = [db EXCEPT ![BrowserOf[t]] = notes]
At(t, pc) == exec[t].pc = pc
Goto(t, pc) == exec' = [exec EXCEPT ![t].pc = pc]
Keep(job, pc) == [NoJob EXCEPT !.pc = pc, !.op = job.op, !.lease = job.lease]
Throw(t) == exec' = [exec EXCEPT ![t] = Keep(@, "fail")]
RequestOf(t) == request[exec[t].op]
OtherAsset(asset) == CHOOSE a \in {"base", "quote"} : a # asset
Fresh(k) == used + k <= MaxNotes /\ used' = used + k
Outs(t) == DOMAIN exec[t].new

Claim(t) ==
  /\ At(t, "idle") /\ ~syncError[t]
  /\ \E o \in Op :
       /\ ClaimAction(o)
       /\ exec' = [exec EXCEPT ![t] =
            [NoJob EXCEPT !.op = o, !.lease = action[o].lease + 1,
               !.pc = IF o \in cached[BrowserOf[t]] THEN "finish" ELSE "begin"]]
  /\ UNCHANGED <<db, cached, backup, poll, sync, syncError, chain, used, left>>

\* A transaction to come: its method, what it consumes and what it mints.
Prepare(t, pc, call, ins, order, new) ==
  exec' = [exec EXCEPT ![t] = [@ EXCEPT !.pc = pc, !.call = call, !.ins = ins,
                                        !.order = order, !.new = new]]

\* stageRecoverableNotes: the new notes are stored, then a sync uploads them.
Stage(t, new) == SetNotes(t, Put(Notes(t), new)) /\ WantSync(t, "exec")

ExecuteShield(t) ==
  LET new == [n \in {used + 1} |->
                NewNote(RequestOf(t).asset, RequestOf(t).amount, 0,
                        exec[t].op, "pending-output")]
  IN
  /\ At(t, "begin") /\ RequestOf(t).kind = "shield"
  /\ Fresh(1) /\ Stage(t, new)
  /\ Prepare(t, "staging", "shield", {}, {}, new)
  /\ UNCHANGED <<queueVars, cached, backup, poll, syncError, chain, left>>

ExecuteCancel(t) ==
  LET n == RequestOf(t).note IN
  /\ At(t, "begin") /\ RequestOf(t).kind = "cancel_order"
  /\ IF n \in DOMAIN Notes(t) /\ Notes(t)[n].cancel > 0
           /\ Notes(t)[n].status = "active"
     THEN /\ Fresh(1)
          /\ SetNotes(t, Update(Notes(t), {n}, LAMBDA x : Reserve(x, exec[t].op)))
          /\ Prepare(t, "add", "cancel_order", {}, {n},
               [m \in {used + 1} |->
                  NewNote(OtherAsset(Notes(t)[n].asset), Notes(t)[n].cancel, 0,
                          exec[t].op, "pending-output")])
     ELSE Throw(t) /\ UNCHANGED <<db, used>>
  /\ UNCHANGED <<queueVars, cached, backup, poll, sync, syncError, chain, left>>

ExactInput(t) ==
  LET plans == PlanAssembly(Notes(t), RequestOf(t).asset, RequestOf(t).amount) IN
  /\ At(t, "begin") /\ RequestOf(t).kind \in {"place_order", "unshield"}
  /\ \/ plans = {} /\ Throw(t)
     \/ \E plan \in plans :
          exec' = [exec EXCEPT ![t] =
            [@ EXCEPT !.pc = IF plan.steps = <<>> THEN "reserve" ELSE "join",
                      !.note = plan.note, !.steps = plan.steps]]
  /\ UNCHANGED <<queueVars, db, cached, backup, poll, sync, syncError, chain,
                 used, left>>

\* One split or join.  Its inputs are not reserved, its outputs not journaled.
ExecuteJoin(t) ==
  LET step == Head(exec[t].steps)
      a == IF step.a = 0 THEN exec[t].note ELSE step.a
      k == IF step.change > 0 THEN 2 ELSE 1
      new == [n \in (used + 1)..(used + k) |->
                NewNote(RequestOf(t).asset,
                        IF n = used + 1 THEN step.target ELSE step.change,
                        0, 0, "none")]
  IN
  /\ At(t, "join")
  /\ Fresh(k) /\ Stage(t, new)
  /\ exec' = [exec EXCEPT ![t] =
       [@ EXCEPT !.pc = "staging", !.call = "join", !.note = used + 1,
                 !.ins = {a, step.b} \ {0}, !.new = new]]
  /\ UNCHANGED <<queueVars, cached, backup, poll, syncError, chain, left>>

\* The offer is reserved once its path is there, long after it was chosen.
ExecuteOrder(t) ==
  /\ At(t, "reserve") /\ RequestOf(t).kind = "place_order"
  /\ Fresh(1)
  /\ SetNotes(t, Update(Notes(t), {exec[t].note}, LAMBDA x : Reserve(x, exec[t].op)))
  /\ Prepare(t, "add", "submit_order", {exec[t].note}, {},
       [n \in {used + 1} |->
          NewNote(OtherAsset(RequestOf(t).asset), RequestOf(t).amount,
                  RequestOf(t).amount, exec[t].op, "pending-output")])
  /\ UNCHANGED <<queueVars, cached, backup, poll, sync, syncError, chain, left>>

ExecuteUnshield(t) ==
  /\ At(t, "reserve") /\ RequestOf(t).kind = "unshield"
  /\ SetNotes(t, Update(Notes(t), {exec[t].note}, LAMBDA x : Reserve(x, exec[t].op)))
  /\ Prepare(t, "submit", "unshield", {exec[t].note}, {}, <<>>)
  /\ UNCHANGED <<queueVars, cached, backup, poll, sync, syncError, chain, used, left>>

StageOutput(t) ==
  /\ At(t, "add")
  /\ Stage(t, exec[t].new) /\ Goto(t, "staging")
  /\ UNCHANGED <<queueVars, cached, backup, poll, syncError, chain, used, left>>

\* A transaction that its simulation accepts goes to the network.
Send(t) ==
  /\ Applies(exec[t].ins, exec[t].order)
  /\ txs' = Append(txs, [op |-> exec[t].op, method |-> exec[t].call,
                         ins |-> exec[t].ins, outs |-> Outs(t),
                         order |-> exec[t].order, status |-> "pending"])
  /\ exec' = [exec EXCEPT ![t] = [@ EXCEPT !.pc = "wait", !.tx = Len(txs) + 1]]

\* Direct mode: the tab signs and sends, whatever became of the lease.
SubmitContractCall(t) == Send(t)

\* What the server relays for an operation of a kind.
RelayAllowed(kind, method) ==
  \/ kind = "shield"       /\ method = "shield"
  \/ kind = "place_order"  /\ method \in {"shield", "submit_order", "join"}
  \/ kind = "unshield"     /\ method \in {"join", "unshield"}
  \/ kind = "cancel_order" /\ method = "cancel_order"

RelayGuard(t) ==
  ValidLease(exec[t].op, exec[t].lease) /\ RelayAllowed(RequestOf(t).kind, exec[t].call)

\* Sponsored mode: the server signs with the desk's key and sends.
Relay(t) == RelayGuard(t) /\ Send(t)

\* The user may change the mode at any time.
Submit(t) ==
  /\ At(t, "submit")
  /\ SubmitContractCall(t) \/ Relay(t)
  /\ UNCHANGED <<queueVars, db, cached, backup, poll, sync, syncError, filled,
                 used, left>>

\* The simulation fails, or the server does not relay.  Where it has a validator
\* it also compares the statement with the request, which an executor keeps to.
SubmitRefused(t) ==
  /\ At(t, "submit")
  /\ ~Applies(exec[t].ins, exec[t].order) \/ ~RelayGuard(t)
  /\ Throw(t)
  /\ UNCHANGED <<queueVars, db, cached, backup, poll, sync, syncError, chain,
                 used, left>>

\* Variant: any final status will do.
AwaitTransaction_AnyStatus(t) ==
  /\ At(t, "wait") /\ txs[exec[t].tx].status # "pending" /\ Goto(t, "settle")
  /\ UNCHANGED <<queueVars, db, cached, backup, poll, sync, syncError, chain,
                 used, left>>

AwaitTransaction(t) ==
  /\ At(t, "wait")
  /\ \/ txs[exec[t].tx].status = "landed" /\ Goto(t, "settle")
     \/ txs[exec[t].tx].status = "failed" /\ Throw(t)
  /\ UNCHANGED <<queueVars, db, cached, backup, poll, sync, syncError, chain,
                 used, left>>

\* What the wallet writes once the transaction is known to have succeeded.
SettledNotes(notes, job) ==
  LET spend(x) == [x EXCEPT !.status = "spent"]
      outs == DOMAIN job.new
  IN  CASE job.call = "shield" -> Update(notes, outs, Commit)
        [] job.call = "join" ->
             Update(Update(notes, outs, LAMBDA x : x), job.ins, spend)
        [] job.call = "submit_order" ->
             Update(Update(notes, job.ins, LAMBDA x : Commit(spend(x))), outs, Commit)
        [] job.call = "cancel_order" ->
             Update(Update(notes, job.order,
                           LAMBDA x : Commit([x EXCEPT !.status = "cancelled"])),
                    outs, Commit)
        [] job.call = "unshield" -> Update(notes, job.ins, spend)
        [] job.call = "unshielded" -> Update(notes, job.ins, Commit)

Settle(t) ==
  /\ At(t, "settle")
  /\ SetNotes(t, SettledNotes(Notes(t), exec[t]))
  /\ WantSync(t, "exec") /\ Goto(t, "settling")
  /\ UNCHANGED <<queueVars, cached, backup, poll, syncError, chain, used, left>>

\* Variant: the executor goes on when the upload has failed.
AfterUpload_Ignored(job, ok) == [job EXCEPT !.pc = "submit"]

\* New secrets have to be on the server before the transaction is.
AfterUpload(job, ok) == IF ok THEN [job EXCEPT !.pc = "submit"] ELSE Keep(job, "fail")

\* Variant: a rollback leaves the operation with the executor.
AfterRollback_Kept(job) == [job EXCEPT !.pc = "idle"]

AfterRollback(job) == NoJob

\* What follows a sync the executor awaited, returned or thrown.  Only a
\* rollback's and a confirmation's own sync may fail without consequence.
AfterSync(job, ok) ==
  CASE job.pc = "rolling" -> AfterRollback(job)
    [] job.pc = "staging" -> AfterUpload(job, ok)
    [] job.pc = "confirming" -> Keep(job, "finish")
    [] job.pc = "settling" /\ ~ok -> Keep(job, "fail")
    [] job.pc = "settling" /\ ok ->
         CASE job.call \in {"join", "shield"} -> [job EXCEPT !.pc = "confirm"]
           [] job.call = "unshield" ->
                [job EXCEPT !.pc = "settle", !.call = "unshielded"]
           [] OTHER -> Keep(job, "finish")

ResumeAfterSync(t) ==
  /\ exec[t].pc \in {"staging", "settling", "confirming", "rolling"}
  /\ SyncEnded(t, "exec") /\ SyncReturns(t, "exec")
  /\ exec' = [exec EXCEPT ![t] = AfterSync(@, Synced(t, "exec"))]
  /\ IF At(t, "staging") /\ ~Synced(t, "exec")
     THEN SetNotes(t, Update(Notes(t), Outs(t), LAMBDA x : x))  \* sync-error
     ELSE UNCHANGED db
  /\ UNCHANGED <<queueVars, cached, backup, poll, syncError, chain, used, left>>

\* waitForConfirm, until the output's leaf is indexed.
ConfirmJoin(t) ==
  LET steps == Tail(exec[t].steps) IN
  /\ At(t, "confirm") /\ exec[t].call = "join" /\ exec[t].note \in DOMAIN Notes(t)
  /\ SetNotes(t, Reconcile(Notes(t)))
  /\ exec' = [exec EXCEPT ![t] =
       [@ EXCEPT !.pc = IF steps = <<>> THEN "reserve" ELSE "join",
                 !.steps = steps]]
  /\ UNCHANGED <<queueVars, cached, backup, poll, sync, syncError, chain, used, left>>

ConfirmShield(t) ==
  /\ At(t, "confirm") /\ exec[t].call = "shield"
  /\ \/ /\ Outs(t) \subseteq DOMAIN Notes(t)
        /\ SetNotes(t, Reconcile(Notes(t)))
        /\ WantSync(t, "exec") /\ Goto(t, "confirming")
     \/ exec' = [exec EXCEPT ![t] = Keep(@, "finish")] /\ UNCHANGED <<db, sync>>
  /\ UNCHANGED <<queueVars, cached, backup, poll, syncError, chain, used, left>>

CacheActionResult(t) ==
  /\ At(t, "finish")
  /\ cached' = [cached EXCEPT ![BrowserOf[t]] = @ \cup {exec[t].op}]
  /\ Goto(t, "complete")
  /\ UNCHANGED <<queueVars, db, backup, poll, sync, syncError, chain, used, left>>

Complete(t) ==
  /\ At(t, "complete")
  /\ IF ValidLease(exec[t].op, exec[t].lease)
     THEN /\ CompleteAction(exec[t].op, exec[t].lease)
          /\ cached' = [cached EXCEPT ![BrowserOf[t]] = @ \ {exec[t].op}]
          /\ exec' = [exec EXCEPT ![t] = NoJob]
     ELSE Throw(t) /\ UNCHANGED <<queueVars, cached>>
  /\ UNCHANGED <<db, backup, poll, sync, syncError, chain, used, left>>

\* Never retryable: the API client reports every failed call with status 500.
Fail(t) ==
  /\ At(t, "fail")
  /\ IF ValidLease(exec[t].op, exec[t].lease)
     THEN FailAction(exec[t].op, exec[t].lease, FALSE)
     ELSE UNCHANGED queueVars
  /\ Goto(t, "rollback")
  /\ UNCHANGED <<db, cached, backup, poll, sync, syncError, chain, used, left>>

Abandoned(notes, o) ==
  {n \in DOMAIN notes : /\ notes[n].op = o /\ notes[n].state = "pending-output"
                        /\ ~notes[n].indexed}
Without(notes, ids) == [n \in DOMAIN notes \ ids |-> notes[n]]

RollbackClientAction(t) ==
  LET o == exec[t].op
      kept == Without(Notes(t), Abandoned(Notes(t), o))
  IN
  /\ At(t, "rollback")
  /\ SetNotes(t, Update(kept, {n \in DOMAIN kept : kept[n].op = o
                                 /\ kept[n].state = "reserved"}, Release))
  /\ WantSync(t, "exec") /\ Goto(t, "rolling")
  /\ UNCHANGED <<queueVars, cached, backup, poll, syncError, chain, used, left>>

\* A call to the server, the network or the wallet extension fails: a refused
\* signature, a path not served, an answer lost, a transaction still pending
\* after 120 polls.
ExecFault(t) ==
  /\ left.fault > 0 /\ left' = [left EXCEPT !.fault = @ - 1]
  /\ \/ /\ exec[t].pc \in {"begin", "join", "reserve", "submit", "wait",
                           "confirm", "complete"}
        /\ Throw(t) /\ UNCHANGED queueVars
     \/ /\ At(t, "complete") /\ CompleteAction(exec[t].op, exec[t].lease)
        /\ Throw(t)
     \/ At(t, "fail") /\ Goto(t, "rollback") /\ UNCHANGED queueVars
     \/ /\ At(t, "rollback") /\ UNCHANGED queueVars
        /\ exec' = [exec EXCEPT ![t] = NoJob]
  /\ UNCHANGED <<db, cached, backup, poll, sync, syncError, chain, used>>

-----------------------------------------------------------------------------
(* The pollers of a tab.  The journals are reconciled with a list of         *)
(* operations that may be out of date by the time it is used.                *)

NoPoll == [pc |-> "idle", seen |-> <<>>]

RefreshList(t) ==
  /\ poll[t].pc = "idle" /\ \E o \in Op : Settled(o)
  /\ poll' = [poll EXCEPT ![t] = [pc |-> "listed", seen |-> operation]]
  /\ UNCHANGED <<queueVars, db, cached, backup, exec, sync, syncError, chain,
                 used, left>>

\* Variant: a failed operation is left to its executor's rollback.
GivenUp_CancelledOnly == {"cancelled"}

GivenUp == {"failed", "cancelled"}

\* The notes after reconcileOperationJournals with the statuses in seen.
JournalsReconciled(notes, seen) ==
  LET open == {n \in DOMAIN notes : /\ notes[n].op \in Op
                                    /\ notes[n].state \in {"reserved", "pending-output"}}
      done == {n \in open : seen[notes[n].op] = "succeeded"}
      dead == {n \in open : seen[notes[n].op] \in GivenUp}
      gone == {n \in dead : notes[n].state = "pending-output" /\ ~notes[n].indexed}
      finish(x) ==
        IF x.state # "reserved" THEN Commit(x)
        ELSE Commit([x EXCEPT !.status = IF request[x.op].kind = "cancel_order"
                                         THEN "cancelled" ELSE "spent"])
  IN  Update(Update(Without(notes, gone), done, finish), dead \ gone, Release)

ReconcileOperationJournals(t) ==
  LET notes == JournalsReconciled(Notes(t), poll[t].seen) IN
  /\ poll[t].pc = "listed"
  /\ SetNotes(t, notes)
  /\ IF notes = Notes(t)
     THEN poll' = [poll EXCEPT ![t] = NoPoll] /\ UNCHANGED sync
     ELSE /\ poll' = [poll EXCEPT ![t] = [NoPoll EXCEPT !.pc = "syncing"]]
          /\ WantSync(t, "poll")
  /\ UNCHANGED <<queueVars, cached, backup, exec, syncError, chain, used, left>>

\* The desk page's poll of the note set.
PollNotes(t) ==
  /\ poll[t].pc = "idle" /\ Unseen(Notes(t)) # {}
  /\ SetNotes(t, Reconcile(Notes(t)))
  /\ poll' = [poll EXCEPT ![t] = [NoPoll EXCEPT !.pc = "syncing"]]
  /\ WantSync(t, "poll")
  /\ UNCHANGED <<queueVars, cached, backup, exec, syncError, chain, used, left>>

PollDone(t) ==
  /\ poll[t].pc = "syncing" /\ SyncEnded(t, "poll") /\ SyncReturns(t, "poll")
  /\ poll' = [poll EXCEPT ![t] = NoPoll]
  /\ UNCHANGED <<queueVars, db, cached, backup, exec, syncError, chain, used, left>>

-----------------------------------------------------------------------------
(* Mishaps *)

\* A tab is closed or reloaded; the reload restores from the backup, or fails to.
Reload(t) ==
  /\ left.crash > 0
  /\ exec' = [exec EXCEPT ![t] = NoJob]
  /\ poll' = [poll EXCEPT ![t] = NoPoll]
  /\ sync' = [sync EXCEPT ![t] = [c \in Caller |-> NoSync]]
  /\ \/ /\ \E later \in BOOLEAN :
             SetNotes(t, MergeRecoveryNotes(Notes(t), backup, later))
        /\ syncError' = [syncError EXCEPT ![t] = FALSE]
        /\ left' = [left EXCEPT !.crash = @ - 1]
     \/ /\ left.fault > 0 /\ UNCHANGED db
        /\ syncError' = [syncError EXCEPT ![t] = TRUE]
        /\ left' = [left EXCEPT !.crash = @ - 1, !.fault = @ - 1]
  /\ UNCHANGED <<queueVars, cached, backup, chain, used>>

\* Heartbeats outlive 90 s leases as long as the executor is there; a lapse
\* under a living executor (a sleeping machine, an unreachable server) counts.
Held(o) == \E t \in Tab : exec[t].op = o /\ exec[t].lease = action[o].lease
LeaseLapses(o) ==
  /\ LeaseExpires(o)
  /\ Held(o) => left.lapse > 0
  /\ left' = [left EXCEPT !.lapse = IF Held(o) THEN @ - 1 ELSE @]
  /\ UNCHANGED <<db, cached, backup, exec, poll, sync, syncError, chain, used>>

UserCancels(o) ==
  /\ CancelOperation(o)
  /\ left.cancel > 0 /\ left' = [left EXCEPT !.cancel = @ - 1]
  /\ UNCHANGED <<db, cached, backup, exec, poll, sync, syncError, chain, used>>

\* The forms of a desk's page ask for what its notes can give at the moment; the
\* page reads them again whenever they change.
Assembles(t, r) == PlanAssembly(Notes(t), r.asset, r.amount) # {}

OrderForm(t, r) == r.kind = "place_order" /\ Assembles(t, r)
UnshieldForm(t, r) == r.kind = "unshield" /\ Assembles(t, r)
ShieldForm(r) == r.kind = "shield" /\ r.amount > 0
CancelOrderButton(t, r) ==
  /\ r.kind = "cancel_order" /\ r.note \in DOMAIN Notes(t)
  /\ Notes(t)[r.note].cancel > 0 /\ Notes(t)[r.note].status = "active"

UserEnqueues(t, o) ==
  \E r \in Request :
    /\ OrderForm(t, r) \/ UnshieldForm(t, r) \/ ShieldForm(r) \/ CancelOrderButton(t, r)
    /\ CreateOperation(o, r) /\ UNCHANGED wallet

LateHeartbeat(o) ==
  action[o].status \in {"complete", "failed"} /\ HeartbeatAction(o, action[o].lease)
    /\ UNCHANGED wallet

-----------------------------------------------------------------------------
Init ==
  /\ QueueInit
  /\ db = [b \in Browser |-> StartNotes] /\ backup = StartNotes
  /\ cached = [b \in Browser |-> {}]
  /\ exec = [t \in Tab |-> NoJob] /\ poll = [t \in Tab |-> NoPoll]
  /\ sync = [t \in Tab |-> [c \in Caller |-> NoSync]]
  /\ syncError = [t \in Tab |-> FALSE]
  /\ txs = <<>> /\ filled = {} /\ used = Cardinality(DOMAIN StartNotes)
  /\ left \in Mishaps

SyncStep(t) ==
  \E c \in Caller : SyncMerge(t, c) \/ SyncEncrypt(t, c) \/ SyncPut(t, c)
                      \/ SyncConflict(t, c)
ExecStep(t) ==
  \/ ExecuteShield(t) \/ ExecuteCancel(t) \/ ExactInput(t) \/ ExecuteJoin(t)
  \/ ExecuteOrder(t) \/ ExecuteUnshield(t) \/ StageOutput(t)
  \/ Submit(t) \/ SubmitRefused(t) \/ AwaitTransaction(t) \/ Settle(t)
  \/ ResumeAfterSync(t) \/ ConfirmJoin(t) \/ ConfirmShield(t)
  \/ CacheActionResult(t) \/ Complete(t) \/ Fail(t) \/ RollbackClientAction(t)
PollStep(t) ==
  RefreshList(t) \/ ReconcileOperationJournals(t) \/ PollNotes(t) \/ PollDone(t)
ChainStep == \E i \in DOMAIN txs : TxLands(i) \/ TxFails(i)
Mishap ==
  \/ \E t \in Tab : ExecFault(t) \/ Reload(t) \/ \E c \in Caller : SyncFault(t, c)
  \/ \E o \in Op : LeaseLapses(o) \/ UserCancels(o) \/ LateHeartbeat(o)

Next ==
  \/ \E t \in Tab : Claim(t) \/ SyncStep(t) \/ ExecStep(t) \/ PollStep(t)
  \/ \E t \in Tab, o \in Op : UserEnqueues(t, o)
  \/ \E n \in NoteId : OrderFills(n)
  \/ ChainStep \/ Mishap

Spec == Init /\ [][Next]_vars
Fairness ==
  /\ \A t \in Tab : /\ WF_vars(Claim(t)) /\ WF_vars(SyncStep(t))
                    /\ WF_vars(ExecStep(t)) /\ WF_vars(PollStep(t))
  /\ \A o \in Op : WF_vars(~Held(o) /\ LeaseLapses(o))
  /\ WF_vars(ChainStep)
FairSpec == Spec /\ Fairness

-----------------------------------------------------------------------------
(* Correctness properties *)

\* The type invariant.  A tab's executor has an operation exactly while it runs,
\* and knows its transaction from the moment it waits for one.
TypeInv ==
  /\ QueueTypeOK
  /\ \A b \in Browser : /\ DOMAIN db[b] \subseteq NoteId /\ cached[b] \subseteq Op
                        /\ \A n \in DOMAIN db[b] : db[b][n] \in NoteRecord
  /\ DOMAIN backup \subseteq NoteId
  /\ \A t \in Tab : /\ At(t, "idle") <=> exec[t].op = 0
                    /\ exec[t].op \in Op \cup {0}
                    /\ At(t, "wait") => exec[t].tx \in DOMAIN txs
  /\ used \in 0..MaxNotes

Executions(o) == {i \in Landed : txs[i].op = o /\ txs[i].method # "join"}
Submitted == DOMAIN txs' \ DOMAIN txs

\* The server holds the secrets of every note a transaction mints when the
\* transaction is submitted, unless the operation had been settled by then:
\* a failed upload stops the executor, whatever the pollers do meanwhile.
UploadedFirst ==
  [][\A i \in Submitted :
       txs'[i].outs \subseteq DOMAIN backup \/ Settled(txs'[i].op)]_vars

\* An operation is reported as succeeded only if a transaction that executes
\* it is on the chain, also when its result came from the action cache.
SucceededLanded ==
  \A o \in Op : operation[o] = "succeeded" => Executions(o) # {}

\* The notes no rollback takes back: those the wallet began with, and what its
\* joins made, which no journal ties to an operation.
Owned ==
  DOMAIN StartNotes \cup UNION {txs[i].outs : i \in {j \in DOMAIN txs : txs[j].method = "join"}}
Forgettable(notes, n) == ~notes[n].indexed /\ n \notin Owned
KeptWrittenOff(old, new) ==
  \A n \in DOMAIN old : old[n].status # "active" =>
    IF n \in DOMAIN new THEN new[n].status # "active"
    ELSE old[n].status = "cancelled" /\ Forgettable(old, n)

\* A note that a wallet knows to be spent or cancelled never becomes spendable
\* again, in no browser and not in the backup: not by a rollback, a reload or
\* a merge with an older copy.  The record of a spent note is never removed, that
\* of a cancelled order only while the order's own placing can be rolled back.
SpentStaysSpent ==
  [][/\ \A b \in Browser : KeptWrittenOff(db[b], db'[b])
     /\ KeptWrittenOff(backup, backup')]_vars

\* No device overwrites what another one uploaded: the secrets of a note that is
\* known to be on the chain never leave the backup, nor those of a note the
\* wallet began with or of one that a submitted join makes.
NothingForgotten ==
  [][\A n \in DOMAIN backup \ DOMAIN backup' : Forgettable(backup, n)]_vars

\* A reservation does not outlive its operation: once the operation has ended,
\* however it ended, the note is released or written off in every browser.
Freed ==
  \A b \in Browser, n \in NoteId :
    (n \in DOMAIN db[b] /\ db[b][n].state = "reserved" /\ Settled(db[b][n].op))
      ~> (n \notin DOMAIN db[b] \/ db[b][n].state # "reserved")

\* Every operation ends, whatever becomes of the tab that claimed it, unless
\* failing backups have stopped all the executors.
Settles ==
  (\A t \in Tab : []<>~syncError[t]) =>
    \A o \in Op : (operation[o] = "waiting_for_client") ~> Settled(o)

\* frontend/src/operationExecutor.ts: "Finish or roll back journals after a
\* reload. The backend's confirmed chain result is authoritative".  A note is
\* only written off as spent if it was spent on the chain.
SpentOnChain ==
  \A b \in Browser : \A n \in DOMAIN db[b] :
    db[b][n].status = "spent" => n \in Spent
=============================================================================

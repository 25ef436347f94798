# Stellar Mosaic: TLA+ verification project

This directory holds TLA+ models of Mosaic, a shielded trading desk on Stellar
with a one-way bridge from Base, the TLC configurations that check them, and
TLAPS proofs about them. Paths are relative to the repository.

## The system and its parts

| part | state it keeps | operations | what is hard about it |
|---|---|---|---|
| Settlement contract, pool (`contracts/settlement/src/lib.rs`) | Merkle tree of notes, nullifiers, token custody | `shield`, `unshield`, `join`, `settle`, `settle_exact` | long sequences of spends, notes that share a tag, a full tree |
| Settlement contract, book | two sorted sides per pair, book sequence, events | `submit_order`, `cancel_order`, `prune_expired` | lots and dust, partial fills, expiry between transactions, a full book, all-or-nothing revert |
| Settlement contract, Base end | bridge configuration, attested blocks, used deposit ids | `configure_base_bridge`, `attest_base_block`, `shield_from_base` | replayed deposits, a replaced bridge, abandoned blocks |
| Circuits (`circuits/`) | none | statements about notes and orders | they carry the rules that the contract does not check itself |
| Note tree (`lib.rs`, `packages/sdk/src/noteTree.ts`, `eventReplay.ts`) | one node per level on chain, all layers at the client, accepted roots | `tree_insert`; `ingest`, `root`, `pathAt` | two algorithms for one root, proofs that are older than the tree |
| Browser book index (`frontend/src/bookIndexer.ts`, `useBookIndex.ts`) | IndexedDB: meta record, orders, processed events | one sync pass per timer tick, recovery, recheck | reloads and failures between steps, several pages on one database, a node that lags and forgets |
| Base shield pipeline (`evm/src/MosaicBridge.sol`, `packages/mcp/src/baseShield*.ts`, `store.ts`, `backend/src/prove*.rs`, `bridge-prover/`) | Base chain, job table, worker, prove service (memory, permit, files), contract end | deposit, enqueue, submit, poll, finality gate, attest, mint | two servers that restart, calls that fail, reorganisations |
| MCP operation queue (`packages/mcp/src/store.ts`) | operations, client actions, leases | create, claim, heartbeat, complete, fail, cancel | lease expiry against late answers, cancellation under a running executor |
| Executor (`frontend/src/operationExecutor.ts`, `orchestrate.ts`, `ActivityContext.tsx`, `actionCache.ts`) | the action in hand, results cached in IndexedDB | shield, place order, cancel order, unshield, joins, rollback, journal reconciliation | a reload or a failed call at any await, pollers that work on the same notes |
| Notes and plans (`packages/sdk/src/notes.ts`, `orderPlan.ts`) | note records with a status, a journal and a revision | add, update, remove, merge, reconcile; choice of inputs | copies of one note on several devices |
| Encrypted backup (`frontend/src/recovery.ts`, `store.ts`) | one snapshot per wallet with a generation | sync (read, merge, encrypt, conditional put), restore | two devices that write at once, a failed upload before a submission |
| Event source (`packages/sdk/src/chainEvents.ts`, `eventReplay.ts`) | cursor and events in memory and in IndexedDB, a replay cache | `events`, resume, recovery, validation, `replay` | replicas that lag and forget, two callers at once, reloads between save and validation |
| SDK client (`packages/sdk/src/client.ts`) | a note store, nothing else | `shield`, `placeOrder`, `unshield`, `cancelOrder`, joins, note loop | no locks and no reservations, a read and a write per update, lost answers |
| Submission and relayer (`directTransaction.ts`, `submit.ts`, `sponsoredSubmit.ts`, `relayer.ts`) | a journal of direct submissions | build, simulate, sign, relay under a lease, send, poll | answers that are lost, a lease that ends first |
| Desks and Base deployment (`packages/mcp/src/deploy.ts`, `store.ts`, `ShieldFromBaseForm.tsx`, `client.ts`) | desk table with status and bridge, contract configuration, the form | create, retry, complete, deposit, enqueue | retries that overlap, a deposit made before its note is stored, a desk record that no call can write |
| Activity history (`frontend/src/sdk/activitySync.ts`, `indexedDbStore.ts`, `ActivityContext.tsx`, `activityModel.ts`) | events in two stores, two cursors, the list shown | push, pull, poll, refresh, ingest, reconcile | tabs that exchange side by side, cursors that run ahead, answers that overtake each other |
| Accounts, modes and sessions (`WalletContext.tsx`, `StorageModeContext.tsx`, `auth.ts`, `recovery.ts`) | the selected wallet and mode, a login, a recovery session | select, set mode, log in, derive, sync | everything is asynchronous and reads module variables late |

How they interact: wallets prove statements about notes whose paths they take
from a tree rebuilt from the contract's events, and send transactions directly
or through the MCP server's relayer. The contract publishes note events and book
events; the book index and the note tree are functions of those events alone.
A deposit on Base becomes a job in the MCP server; a worker drives the prove
service over HTTP and then calls the contract with the sponsor's key. A browser
tab claims an operation from the MCP server's queue, executes its private part
with the notes of its IndexedDB, uploads an encrypted backup of them before it
submits a transaction, and reports the result under its lease.

`PROJECT.json` lists every part (`components`), the hazards at the lines where
they bite, the source lines behind every definition (`map`), the runs, a mutant
for every property, and the theorems.

## Modules

### Contract: `Settlement`, `Matching`, `Value`, `Vault`, `Euclid`

`Settlement` has one action per entry point, with the entry point's checks as
guards. `submit_order` and `prune_expired` loop, so they run one iteration per
step on the variable `tx`: `SubmitOrder` starts, `SkipMaker`/`FillMaker` iterate,
`SubmitFilled`/`SubmitRests`/`SubmitReturns` commit, `SubmitReverts` undoes;
likewise `PruneExpired`, `PruneSkips`, `PruneRemoves`, `PruneReturns`,
`PruneReverts`. No other action is enabled while `tx` runs, as on the host.
`Matching` has the arithmetic of crossing, lots and sorted insertion as
operators; `Gcd` is the mathematical greatest common divisor there and `Euclid`
is the loop of `gcd_i128` that computes it.

A proof that the verifier accepts is represented by what it proves: the index of
an existing leaf and the public inputs. In the circuits a nullifier is a function
of the secrets behind the owner tag, and of nothing else, so it is represented by
the tag. `consumed` and `bridged` are history variables that properties use.
`Vault` is the abstract specification: debts, custody and bridged value change
together, in three ways; `PoolIsVault` maps the pool to it. `EventsReplay` folds the
book's events one at a time, as `bookIndexer.ts` does, and takes an event that is stale
or leaves a gap for a failure. Amounts are unbounded; the contract checks its products
for overflow, and an order that overflows is rejected.

### Tree: `NoteTree`

`TreeInsert` is the contract's incremental insertion; `BuildLayers`, `PathAt` and
`ReplayedRoot` are the client's; `CircuitFold` is the check of the circuits.
Hashes are an injective constructor (a pair). `TakeWitness` and `SubmitProof` are
a wallet that takes a path and uses it later.

### Event source: `EventSource`

`CloseLedger`, `IndexLedger`, `Lag` and `Forget` are the network and its node, whose
replicas may be behind and have lost their oldest ledgers. The rest follows one call of
`events()`, which a reader serves one at a time: `Begin`, `LoadState`, `Resume` (the
resume point, with the range error and the recovery it leads to in `RangeError`),
`FetchPage`, `IngestEvent`, `EndPage`, `ValidateReplay`, `MarkFatal`. `RebuildNoteTree` and
`CacheReplay` are the caller's own replay, which nothing serialises. `Fault` and
`Reload` come at any await. A ledger has at most one tree event and an event is its
ledger; a root is the sequence of events that it was built from.

### Book index: `BookIndex`

One action per stretch of `syncBookIndex` between two awaits: `Begin`, `Fetch`,
`Apply` (or `ApplyFails`), `ReadTarget`, `Verify`, `PutMeta`; and for
`recoverLiveBookIndex` `ReadSequence`, `VerifyLive`, `ReadSide`, `WriteLive`.
`BeginTrusted`, `ReadSide`, `ShowTrusted` are a page in trusted mode, which reads the
live book and stores nothing.
`Emit`, `Index` and `Expire` are the chain and its node, `Fail` and `Reload` happen at any
await, `Recheck` is the user. `genuine` says whether the contract is of the release that
the page knows, and `books[n]` is the contract's book after its n-th event, whose new
order goes where `book_insert_sorted` puts it (`Behind`). `Applied` is the loop over the
events of a page, one `ApplyEvent` each. The list that a page displays is not computed but
recognised: `IsListing` says that a side names each of the rows once, in the order of
`compareOrders`.

### Base pipeline: `BaseShield`

`Mine`, `Finalize` and `Reorg` are Base; a block hash is the history up to that
block. `Enqueue`, `Tick`, `SubmitProve`, `PollProve`, `CheckFinality`, `Attest`,
`Mint`, `Save` are the job table and the worker; `Submit`, `StartRun`,
`WriteJournal`, `WriteSeal`, `RunFails` are the prove service and its host
process. `CallFails`, `WorkerRestart` and `ServiceRestart` may come between any
two of them. A restart of the service is taken to end the host process too.

### Desks and deposits: `Desks`

`CreateDesk`, `RetryBaseDeployment` and `CompleteBaseDeployment` begin a call of the
server; `DeployBridgeOnBase`, `DeployFails`, `ConfigureBaseBridge`, `ConfigureFailed`
and `ConfigureFails` are its stretches between waits, and calls overlap there, but the
configuration of the contract and the write of the desk are one step, since the code
blocks the thread in between (`unsaved` has the bridges of the calls that could not
write). `OpenForm`, `Deposit`, `AddNote`, `EnqueueBaseShield`, `PollBaseShield` are the
browser's form, whose deposit is on Base before its note is stored; `AgentDeposits` and
the same later steps are the SDK's `shieldFromBase`, with a note of its own. `DeploySettlement`,
`DeployOwnBridge`, `ConfigureOwnBridge` are a desk that a browser deploys for itself.
`AdvanceMinting` is the pipeline above in one step, with the deposit ids that every
bridge counts from zero.

### Wallet operations: `OperationQueue`, `OrderPlan`, `Wallet`

`OperationQueue` has one action per method of the store that changes an operation
(`CreateOperation`, `CancelOperation`, `ClaimAction`, `HeartbeatAction`,
`CompleteAction`, `FailAction`); `LeaseExpires` is the passing of
`lease_expires_at`, the only thing time does there. `OrderPlan` is the choice of
notes for an exact amount. `Wallet` extends both with the tabs: `exec` is the stack
of the running executor (`pc` names the await it is at), `poll` the refresh and note
pollers of a tab, `sync` the backup syncs that the two await, `db` and `cached` the
browser's IndexedDB, `backup` the server's snapshot, `txs` and `filled` what the
chain knows. A user's operation comes from the form that asks for it (`OrderForm`,
`UnshieldForm`, `ShieldForm`, `CancelOrderButton`), which checks that the wallet can
assemble the amount. The actions from `Claim` to `RollbackClientAction` follow `tick` and
`operationExecutor.ts` from one await to the next; `Submit` is either
`SubmitContractCall`, by the wallet itself, or `Relay`, by the server's sponsor under
`RelayGuard`, which looks at the lease and at the method the operation allows.
`SyncMerge`, `SyncEncrypt`, `SyncPut`, `SyncConflict` are one attempt of
`syncRecoverySnapshot`; `RefreshList`, `ReconcileOperationJournals`, `PollNotes` are the
pollers; `ExecFault`, `SyncFault`, `Reload`, `LeaseLapses`, `UserCancels` are what goes
wrong. A note identifier stands for the note's secrets: a leaf whose record is in no
store is lost.

What is coarser than the code: `NoteManager.update` reads and writes a note in two
IndexedDB transactions, one step here and two in `Client`; the restore after a reload is
one step; the refresh and the note poller of a tab do not overlap with each other, and
the list never fails to come (`ActivityFeed` has that fault); an order fills whole. The
generation of the backup is the flag `current`, which every accepted put clears for all
other syncs.

### Headless client: `Client`

Each call (`Shield`, `PlaceOrder`, `Unshield`, `CancelOrder`) and the note loop are a
process; `proc` is what it has read and still has to write. `Assemble`, `JoinPath`,
`ExecuteJoin`, `ConfirmTick` and `ConfirmTimesOut` make one note of two; `Submit`, `Poll`,
`GiveUp` are the submitter, `TxLands`/`TxFails` the network, which may decide after the
submitter gave up. A store update is `GetNote` and then `PutNote`, and anything may
happen in between. `Crash` ends the calls; the loop starts again with the store. The model
takes the inputs of a transaction from the plan made before, as the code does, so two
calls may plan with the same note. The amounts of a plan are those that its call read, and
notes of equal amounts are merged in any order.

### Activity: `Activity`, `ActivityFeed`

`Activity` is the exchange: `SyncTick`, `ReadCandidates`, `Push`, `EndPush`, `Pull`,
`Look`, `Add`, `EndPull` are `syncTrustedActivity` from one await to the next, run by all
tabs over one store and two cursors (`Listings` has every way to list a set, of which
`Candidates` and `Inserted` take those in the code's order); `Record` and `RecordOnServer` add events and `Break`
loses a call or closes a tab. `ActivityFeed` is what one tab shows: the list and its
refreshes (`Answer`, `ShowList`, `RefreshFails`), the poll of the operation events
(`PollEvents`, `Ingest`, `PollFails`), the executor's refresh (`ClaimOp`, `Executed`), the
records of a shield (`DepositRecorded`, `ReconcileShield`), and `EntryStatus` and
`LineStatus`, which compute an entry from all of it as `activityModel.ts` does.

### Accounts and modes: `Account`

`SelectWallet`, `Trust`, `Distrust` are the user; `Commit` is a render of React with the
effects of `StorageModeContext` and `WalletContext` in their order; `Authenticate`,
`LoggedIn`, `LoginFailed` are the login in flight, which whoever asks next joins;
`GetCached`, `DeriveLocalSession`, `PutCached`, `RestoreFromBackend` a selection of
`recovery.ts`; `SyncMerge`, `SyncRead`, `SyncPut` a backup sync, where each step reads
the module variables `activeMode` and `active` when it gets there.

The `MC` modules give the constants small values. `MCAlgorithms`, `MCAccount` and
`MCDesks` put two systems that share no state beside each other in one run: a behaviour
is a behaviour of one of them.

## Runs

| run | asks | bounds |
|---|---|---|
| `Pool` | the whole contract from its constructor: `TypeInv`, `SingleSpend`, `EventsReplay`, and that the pool implements `Vault` (`PoolIsVault`) | 3 assets, one of each kind; 2 tags, reused at will; 2 deposits made, tree of 4; 2 bridges, 5 receipts |
| `Book` | the order book on a funded pool: `BookSorted`, `Backing`, `TimePriority`, `PricePriority`, `LimitHonoured`, `ExpiredOnlyRefunded`, and `TransactionEnds` | 2 or 3 sellers and 1 buyer, 1 or 2 sellers and 2 buyers; amounts 1..4, 2 limits; sides of 2, 2 fills a transaction; tree of 7; one clock step where expiry is asked about |
| `Algorithms` | `GcdResult`: `gcd_i128` returns the greatest common divisor; `RootsAgree`, `StaleProofsAccepted`: the two trees agree and old paths stay valid | amounts 1..24; depth 3 (carries through two levels), 2 leaf values, 2 proofs in flight |
| `Events` | `MissesOnlyForgotten`, `CatchesUp`: no event the node still had is missed or doubled, in memory or in the cache, and every caller is answered all of it in the end | 2 callers on one page; answers of 1 event, 2 ledgers past the start; 2 of: a forgotten ledger, a lagging replica, a failed call or reload |
| `BookSync` | `StoredAsOne`, `NeverWedged`, `ShownIsReal`, `CatchesUp` for one page, in either mode, of a genuine contract or another | 3 orders (two at one price), 4 events, answers of 2, 1 dropped, 1 failure or reload |
| `Bridge` | `ActiveIsMinted`, `JobsEnd` | 2 depositors, 3 blocks, 1 reorganisation, 1 restart or failed call |
| `Desks` | `ActiveIsConfigured`, `MintedIsSpendable`, `RetriesConverge` for a desk; `EntriesSettle` for an activity page | 2 calls on the server, 1 form, 1 agent or a browser's own desk, 5 bridges, 2 faults; 1 operation, 1 shield, one failed call or one reload |
| `Wallet` | `UploadedFirst`, `SucceededLanded`, `Freed`, `Settles` for one tab | one operation of any kind, a note and a resting order; one reload, cancellation or failed call, at any step |
| `Devices` | `NothingForgotten`, `SpentStaysSpent` for two devices of one wallet | one operation that first splits a note of 2; one mishap |
| `Client` | `StoreCoversChain`, `Delivered`, `FundsShown` | every call alone with a crash, a lost answer or a failed transaction, with and without a join; pairs of calls that want the same note or order, with a lost answer |
| `Account` | `ModesAgree`, `BackupsAreOwn`, `Unlocks` for one tab; `CursorsHonest`, `Mirrored` for the history | 2 wallets, 2 notes, 3 switches, 1 failure; 2 tabs, 2 events on either side with one key in common, batches of 1, 1 lost call or closed tab |
| `Uploads` | see *Findings* | as `Account` |

Why the bounds are enough for what is asked: two orders at one price and one on
the other side are what an ordering error or a mixed-up recovery needs; a side of
two orders fills with a third seller; a partial fill needs an order of two units;
a lost run, a lost tick, a lost answer and a half-written proof each need one
fault at the right step, and every step is tried. A range error and its recovery need a
ledger forgotten while a cursor points at it, and a duplicate needs a page that is read
twice, for which `Events` has two callers and two mishaps. Overlapping calls of the deploy
handlers need two, and the second fault is the one that hits the retry. In the wallet runs
`MaxNotes` (5 or 6) covers the split, the output and one repeated execution, `MaxRev` (6)
the updates of a note in them, and `SyncAttempts` is 2 instead of the code's 4, which is
what one conflict and a success or a second conflict need; `MaxNotes` of `Client` (8)
covers two calls with their joins. Three switches take an account away and bring it back
with one change of the mode between. A lease that lapses under a living executor is in
the model, and `Mishaps` leaves it out of the listed runs: two executors of one action
have millions of states. The theorems below have no bounds.

Deadlock is not checked where the bounded system runs out of steps: the chain has said all
it may say, the calls have ended, and nobody asks for anything.

Fairness. Nowhere is a user, a failure, a trade or a new block assumed to happen; what is
assumed is that code which has been called goes on.

* `Book`: the host executes the next instruction of a call.
* `Events`: the node indexes what is closed, the pollers poll, their calls return.
* `BookSync`: the timer keeps starting passes, a call returns (it may fail, finitely
  often), the node's index catches up.
* `Bridge`: the worker's timer ticks, a prover run ends one way or the other, Base
  finalizes its blocks.
* `Desks`: the server works on its calls, the creator of a desk retries while it is not
  active (`RetriesConverge` is about what retries come to), the worker ticks. For the
  activity page: calls of a connected tab end and its timers tick; an older answer may
  arrive after a newer one only where `FeedTrouble` says so, and `EntriesSettle` is about
  tabs that are connected again and again.
* `Wallet`, `Devices`: a tab's timers tick and its calls return, a lease nobody renews
  expires, a transaction is included or runs out of its time bounds. `Settles` exempts
  tabs whose backup keeps failing, for `tick` refuses to claim then.
* `Client`: the loop's timer ticks, updates that were begun are written, a call goes on, a
  transaction is decided, the event source shows what is in the tree.
* `Account`: React renders, promises settle, calls of a sync return. For the history:
  every tab's exchange goes on.

## Findings

* `Uploads`, `NeverBackedUp`. `syncRecoverySnapshot` awaits the server and then takes the
  notes of whatever store is current; `setMode("trustless")` changes that without waiting
  for a sync. A sync that began in the trusted mode uploads, encrypted, notes that were
  staged in the trustless mode meanwhile. App.tsx:174 tells the user that notes of this
  mode "live only in this browser and are never backed up".

These definitions are in the modules too, TLC refutes them, and no run lists them:

* `Settlement!NoStrandedNote`. All notes that one order produces carry one owner tag,
  hence one nullifier; when the first is spent the others can never be. README.md promises
  that no funds are lost, docs/privacy-model.md that the tag is fresh per note.
* `BookIndex!StoredAsOneByAll`, two pages. `syncBookIndex` reads the meta record, awaits
  the network and puts the record back (bookIndexer.ts:736). This undoes the other page's
  progress while its events stay marked as processed; the next event is a gap, an error
  for good.
* `BaseShield!AttestsCanonical`, one reorganisation. The finality gate compares block
  numbers (baseShield.ts:107). When the proven block is abandoned, its number becomes final
  and the worker attests the abandoned hash.
* `Wallet!SpentOnChain`. An executor reserves a note and its tab is reloaded. The
  operation is claimed again and, since reserved notes are skipped, executed with another
  note of the same amount; on success the journal marks every note still reserved for the
  operation as spent (operationExecutor.ts:82), the unspent one too, and merges make that
  final everywhere. The comment there calls the confirmed chain result authoritative.
* `EventSource!FullHistory`. A history that is read again is saved page by page and
  validated when it is complete (chainEvents.ts:306); a reload in between leaves an
  unvalidated cache, from which the next call resumes. What holds is
  `MissesOnlyForgotten`.
* `EventSource!RebuiltOnEveryRead`. Two callers replay the reader's own array; it grows
  while the first builds its tree, and the tree is kept under the new length
  (eventReplay.ts:78) until another event comes.
* `Client!SpentNoticed`. The answer to a withdrawal is lost: the note is spent on the
  chain and active in the store for good, since the loop looks for leaves and never for
  nullifiers (submit.ts:138 says that the hash lets the outcome be queried later).
* `Desks!EnqueuedIsConfigured`. A record keeps the address of a bridge whose configuration
  failed, and the check of store.ts:91 compares with the record: a deposit to that bridge
  is accepted and can never be minted.
* `Desks!ReturnedNoteIsMinted`. `shieldFromBase` takes a finished deposit and derives the
  note after it, although client.ts:1142 says that the deposit must have the returned
  note's tag: an agent ends with a note nobody minted.
* `Activity!Replicated`. The browser stores a remote event with the server's cursor as its
  key; when an event of its own has that key, IndexedDB refuses, the pull ends and every
  later pull ends at the same event. The store of activitySync.test.ts:42 numbers for
  itself and does not show it.
* `ActivityFeed!Reconnects`. A refresh that fails marks the page as disconnected
  (ActivityContext.tsx:135), which stops the poll and the executor. After its own failure
  the poll has one refresh scheduled; when that fails too, nothing asks again until the user
  does, though line 209 speaks of a periodic poll.
* `EntriesSettle` with `overtaken |-> 1` in `FeedTrouble`. Two refreshes are under way, the
  answer read first comes last and stays (ActivityContext.tsx:131): an operation that ended
  is shown as running until something else happens.
* `Account!ActiveIsShown`. A session derived for an account that was selected before is
  assigned when it comes (recovery.ts:141), before the code asks whether it is still wanted.
* `Account!SessionIsOwn`. Whoever asks for a session joins the login in flight whatever its
  address (auth.ts:12): after a switch in the middle the session is the other wallet's.

Seen while modelling, without a definition of their own:

* Wallet. docs/implementation.md:121 says that new secrets are uploaded before their
  transaction is submitted, but when the user cancels while the executor is between staging
  and uploading, the poller removes the staged note and the transaction goes out without it
  (`UploadedFirst` exempts settled operations); when a lease lapses while its executor goes
  on, and another tab of the browser claims the operation, the rollback of the first removes
  what the second has staged, and its transaction goes out without it too (14 states, with
  one operation and `lapse |-> 1`); a reload after a transaction landed and
  before its result was cached executes the operation twice; `complete` and `fail` look at
  the lease and at no status, so an executor whose answer to `complete` was lost overwrites
  the success, and one that runs on after a cancellation overwrites that; the API client
  reports every failure as status 500 (api.ts:108), so no failure is ever retryable; a
  relay request without an action falls back to the session alone (server.ts:112).
* Contract and index. The comment at lib.rs:1326 ("partially filled => taker is now
  exhausted; loop will end") is inaccurate when the maker keeps less than a lot, and the
  loop rightly goes on; a stored cursor that falls out of the node's retention is retried
  for ever (bookIndexer.ts:702) and the recheck button needs an error (DeskPage.tsx:628),
  which `CatchesUp` exempts; a live recovery followed by retained events may report an
  unknown order, which is why `NeverWedged` speaks of replayed databases.
* Base. The worker submits before it polls and a submit restarts a failed run
  (prove_manager.rs:60), so a job for a deposit that is not on the chain holds up all later
  jobs, which `JobsEnd` exempts; deposit ids are counted per bridge and used as keys without
  it; a retry that fails after a concurrent one succeeded overwrites the active record; a
  desk is written only at the end of its creation; the bridge of a failed trustless desk
  cannot be completed.
* Events and activity. A validator error, which a lagging replica suffices for, marks the
  cache as fatal; the cursor of the operation events moves before they are stored
  (`EntriesSettle` holds because a reload starts it from zero; a write to IndexedDB that
  fails, which is not in the model, would lose them); the activity page is computed from
  the last 100 events; submit.ts:140 records `failed` for a transaction that may still
  land; a logout during a login leaves a session; fills from before the page was opened are
  announced (DeskPage.tsx:332) against the comment at line 319.

## Proofs

TLAPS checks these for every value of the constants, from the named assumptions of
the modules (`ASSUME` in `Settlement`, `Matching`, `Euclid`, `NoteTree`, `EventSource`,
`BookIndex`, `Desks`, `Account`, `Activity`, `BaseShield`, `OperationQueue`, `Wallet`,
`Client`): sizes
are numbers, kinds of actors do not overlap, a tab is of one browser. Fairness is not used.

The contract (`SettlementProofs`, on lemmas of `MatchingProofs`):

* `TypeCorrect`: `Spec => []TypeInv`. `TypeInv` is not inductive: a commit writes what a
  running transaction computed from storage, so the invariant is `TypeInv /\ TxInv`,
  where `TxInv` says that the spent note is still spendable and that the copied side has
  not shrunk the room in the stored one.
* `NoDoubleSpend`: `SingleSpend`. Each consumed leaf's nullifier is recorded, and a leaf
  is consumed only while its nullifier is not.
* `BookStaysSorted`: `BookSorted`, together with the same of the running transaction's
  copy of the side. Price comparison by cross-multiplication is transitive, and insertion,
  removal and a change of the remaining funds keep a side sorted.
* `PoolStaysVault`: `PoolIsVault`, the refinement of `Vault` step by step. Sums over the
  leaves and the resting orders are sizes of finite sets of units (`Value`), which add up
  by the theorems on finite sets. While a transaction runs, what it has minted and what its
  copies still hold is what the side and the spent note held before it (`SubmitConserves`,
  `PruneConserves` in `ValueInv`), so its commit owes what was owed (`OwedStays`).
* `ValueConserved`: `Backing`, that what is owed is what is held. Every step of `Vault`
  moves debts as it moves what backs them (`VaultBacks`).
* `OrdersStayBacked`: `Spec => []BookInv`. Every resting order is backed by a spent note of
  its own, and an order id rests once.
* `TimeStaysPrior`, `PriceStaysPrior`, `LimitStaysHonoured`, `ExpiredStaysRefundable`: the
  four promises of the matching engine. `TradeInv` says that the copy a transaction works
  on has orders of the stored side, in its order, each with something left (`Thins`). For
  prices, the loop has passed only makers that cannot trade and has exhausted all that are
  ahead of one it traded with (`PriceKept`); for limits, every resting order, the copied
  ones and the taker have been paid for what they gave, with what is minted so far
  (`AllPaid`); an expired order keeps what it has or leaves with a note for all of it
  (`ExpiredKept`). `LimitHonoured` counts the proceeds of an owner tag; where several
  orders share a tag it counts them together, so it says what it means for orders with
  tags of their own.
* `EventsStayComplete`: `EventsReplay`. While a transaction runs, a client that replays
  what it has published so far, over what was stored before, has the notes minted and the
  side as copied (`LogKept`).

The loops under the contract and the history (`AlgorithmProofs`):

* `EuclidCorrect`: `EuclidSpec => []GcdResult`. The invariant is that the pair has the
  common divisors of the arguments.
* `RootsStayAgreed` and `StaleProofsStayAccepted`: `RootsAgree` and `StaleProofsAccepted`.
  A layer of the client's tree is as good as one padded with empty subtrees; `filled[l]` is
  the complete left subtree wherever bit `l` of the next index is set (`FilledInv`), which
  carries through an insertion (`InsertFilled`); so the contract's root is the top of the
  client's layers. Every root that ever was is known, and the path of a witness leads to
  the root it was taken at (`TreeInv`). The recursive functions are defined by `CHOOSE`;
  that what is chosen exists is proved by induction over the levels.
* `MissesStayForgotten`: `MissesOnlyForgotten`. Between the answer of the node and the
  cursor that follows it, the history is ahead of its cursor; `EventInv` says that the rest
  of the page continues it (`Continues`), that only the caller at the head of the queue is
  in between (`Alone`), and that a read without a cursor begins at or before the start
  ledger, or among what the node forgot (`Early`).

Base and desks (`BaseShieldProofs`, `DesksProofs`):

* `ActiveStaysMinted`: `ActiveIsMinted`. A job becomes active one save after its mint, so
  the invariant says which status the worker's job has at each of its steps (`WorkerInv`).
  That what is minted is what is on disk needs that the disk does not change any more: a
  job has at most one task and none once its proof is there (`TaskInv`), and a proved job's
  proof is the one on disk (`ProofInv`).
* `DesksTypeCorrect`: `Spec => []TypeInv`.
* `ActiveStaysConfigured`: `ActiveIsConfigured`. The invariant adds `OwnEnded`: a browser's
  own deployment is registered after its last step.
* `MintedStaysSpendable`: `MintedIsSpendable`. The note's way is followed backwards
  (`HandedOver`): what is minted was a job, a job names a deposit whose note is stored
  (`JobsStored`), because a form hands its deposit over only after it stored the note, and
  a stored note stays (`FormsStore`).

The wallet, the SDK and the browser's stores (`WalletProofs`, `SdkProofs`, `BrowserProofs`):

* `SucceededStaysLanded`: `SucceededLanded`. The claim on an operation's status becomes one
  on every place its result passes through (`Honest`): an executor waits for a transaction
  of its own operation and reports success only of one that landed, whatever its lease; the
  action caches hold only operations that landed.
* `SpentStaysSpentHolds` and `NothingForgottenHolds`: `SpentStaysSpent` and
  `NothingForgotten`. They share one invariant, `NInv`, which has three parts besides that
  of `SucceededLanded`. `NoteOk` says what a copy of a note may be, wherever it lies: it is
  journaled as an output only if it can be rolled back, and it is spent, or reserved to be
  spent, only if it is known to be on the chain; `JobOk` says what each executor has in hand
  at each of its steps: outputs that are new or staged and that no other executor has,
  inputs that are known to be on the chain in the browser, the rest of a plan that is still
  good. `SyncOk` says that a snapshot which the server would accept loses nothing
  (`Covers`): it was merged from the backup as it still is, and whatever the executors and
  pollers of the browser did since removed only pending notes that were not seen on the
  chain. Every step comes to `Proceeds`: it keeps the three parts, and what it does to the
  copies is safe. The revision numbers and the clocks play no part: a merge is safe
  whichever copy is newer.
* `UploadedFirstHolds`: `UploadedFirst`, under the hypothesis that no lease lapses under a
  living executor (`lapse = 0` in every member of `Mishaps`, as in the run); leases of tabs
  that were closed or reloaded expire as they will. Without it the property is false (see
  *Findings*). On top of `NInv`, the invariant `UInv` says that every executor has the lease
  in force, so that an operation has one executor (`LInv`), that what a poller has read of
  operations that were given up is still so (`Listed`), and that an output which was staged
  for an operation that is not settled is in the browser, in the snapshot its executor waits
  for, in the backup once that is accepted, and in every other snapshot that the server
  would accept from then on (`Pledges`). Only two kinds of steps remove pending notes: a
  rollback, which removes those of its own operation, and a poller, which removes those of
  operations that are settled.
* `StoreStaysCovering` and `CallsStayDelivered`: `StoreCoversChain` and `Delivered`. A note
  has a life that goes one way: fresh, of a transaction that may land, on the chain or
  resting, spent or cancelled; the last two are final (`Dead`, `Grew`). An update reads the
  note and later writes the whole record, and anything may happen in between; the copy that
  it holds is still right when it is written, because every update records what stays true
  (`Right`, `Patch`). A call goes on from its plan only with a coin that is on the chain
  with the amount asked for.
* `ModesStayAgreed`: `ModesAgree`. The module variables agree with the shown mode only
  between switches, so the invariant says what they are during one: one `setMode` runs at a
  time, its backup waits or runs only while it switches by a sync (`QueueInv`), and recovery
  has what the last commit saw, or what `setMode` will need when its login and backup are
  through (`ModeInv`).
* `BackupsStayOwn`: `BackupsAreOwn`. The invariant adds that what a sync is about to put is
  of the account it began with (`BackupInv`).
* `CursorsStayHonest`: `CursorsHonest`. Both cursors, and what every tab under way is about
  to set them to, claim only what was exchanged (`SendInv`, `StoreInv`); rows and keys only
  grow in the meantime (`Growth`), so a cursor that several tabs move stays right.

* `StoredAsOneHolds`, `NeverWedgedHolds`, `ShownIsRealHolds`: `StoredAsOne`, `NeverWedged`
  and `ShownIsReal`, for one open page (`\A p, q \in Page : p = q`). The hypothesis is
  needed: two pages undo each other's progress (`StoredAsOneByAll` under *Findings*). The
  three share one invariant, `IndexInv`, which has four parts.
  `ChainInv` is about the contract alone: each event changes one entry of one side
  (`IsChange`), and an order is in the book with what its last upsert left, until it is
  removed for good (`History`).
  `DbInv` relates the rows to the book. `Matches` says that the rows of a side are the side
  after a given event, with priorities that grow along equal prices. After a recovery that
  is false, because each side was copied some events later than the stored sequence and the
  events between are applied again to the newer rows; `Mixed` says what is true then: every
  order of the copied side has its row with the priority of its place, what is left of it
  is right unless one of the events still to come is about it, and a row that the side does
  not have is removed by one of them. Applying an event keeps either (`MatchesOn`, `MixedOn`), and
  when the sequence reaches the copied event, `Mixed` is `Matches` (`MixedMatches`).
  `PassInv` says what a pass may believe between two awaits: the page it holds starts at
  the stored cursor (`ApplyInv`), the record it will put back differs from the stored one
  by what it found out (`Holds`), the target it read is not behind what the rows were copied from
  (`TargetRead`). The loop over a page is a recursive function; that what `CHOOSE` picks
  exists is proved by induction over the events (`FoldExists`).

Only model-checked: `Freed`, `Settles`, `RetriesConverge`, `FundsShown` and the other
properties under fairness, which is out of the prover's reach. What the operators of `Gcd`
and the tree compute is proved for every input; of `OrderPlan` only that a plan covers what
was asked for.

## Not modelled

* Field arithmetic, hashes and proof systems: a proof is the statement that it proves.
  Proving in the wallet and the Groth16 spike are nothing else.
* Storage rent (`keep_alive`), the registration of assets one by one, and the pausing and
  token transfers of the Solidity bridge.
* The derivation of keys from a signature, encryption, the recovery file, message encoding
  and authorization of HTTP requests.
* The journal of direct submissions (directTransaction.ts:14-60), which only its own
  reconciliation at the next load reads.
* Snapshots and restores of a note tree; the order of events of different kinds inside one
  transaction.
* In the activity page: labels and summaries, the merging of loose transactions, ticks of
  one poll that overlap. In other pages: rendering, notices of fills, custody totals, the
  asset catalog with its trust marks, the import of shared desks, the panel that remembers
  a pending deployment in localStorage, a switch of the mode while a book page is open.
* The command line, the agents and scripts, and tools/indexer: drivers of the SDK whose
  calls are modelled where they land.

## Plan

Left:

1. An abstract queue (an operation is created, executed, ended) that `Wallet` implements,
   with the exceptions listed under *Findings*.
2. `EventSource` composed with `NoteTree`: what a wallet proves from a history that misses
   forgotten events.

----------------------------- MODULE BookIndex ------------------------------
(***************************************************************************)
(* The browser's copy of the order book (frontend/src/bookIndexer.ts and   *)
(* useBookIndex.ts): an IndexedDB database that a timer in every open page *)
(* brings up to date from the contract's events.                           *)
(*                                                                         *)
(* One pass (syncBookIndex) is a sequence of steps between which the chain *)
(* and the other pages go on: it reads the stored cursor, fetches one page *)
(* of events, applies page and cursor in one database transaction, asks    *)
(* the contract for its book sequence and re-reads the stored meta record, *)
(* verifies the release over the network, and writes that meta record back.*)
(* When the node has dropped the start of the log, the pass copies the     *)
(* contract's book instead (recoverLiveBookIndex).  A page in trusted mode *)
(* displays the sides as the contract lists them (syncTrustedBookIndex).   *)
(*                                                                         *)
(* Only the book's events are modelled: event number n of the log carries  *)
(* book sequence n - 1, and event 1 is bookinit.  The node that answers    *)
(* getEvents has the events dropped+1..head, while a contract read sees    *)
(* the whole log.                                                          *)
(***************************************************************************)
EXTENDS Integers, SequencesExt

CONSTANTS
  Order,        \* order ids
  SideOf,       \* [Order -> {0, 1}]: the book side of an order
  Rank,         \* [Order -> Nat]: the rank of its price on that side, 0 the best
  Funds,        \* [Order -> Nat]: what it has left when it comes to rest
  Page,         \* the open pages of one browser that show the desk
  PageSize,     \* events in a full answer (1000)
  MaxLog,       \* bound on the log
  MaxDropped,   \* bound on the events that the node drops
  MaxFailures   \* bound on failed calls and reloads

ASSUME IndexAssumption ==
  /\ SideOf \in [Order -> {0, 1}] /\ Rank \in [Order -> Nat]
  /\ PageSize \in Nat \ {0} /\ MaxLog \in Nat \ {0} /\ MaxDropped \in Nat
  /\ Funds \in [Order -> Nat \ {0}] /\ MaxFailures \in Nat

VARIABLES
  log,        \* the contract's book events
  books,      \* the contract's book after each of them
  head,       \* how many of them the node's event index has
  dropped,    \* how many of the oldest it no longer has
  meta,       \* the meta store: one record
  orders,     \* the orders store: a set of rows
  processed,  \* the processed store: numbers of the events applied
  pass,       \* the local state of each page's pass
  shown,      \* the snapshot that each page displays
  failures,   \* failed calls and reloads so far
  storage,    \* the storage mode of each page
  genuine     \* whether the contract is of the release that the app knows

setting   == <<storage, genuine>>
contract  == <<log, books>>
chainVars == <<contract, head, dropped, setting>>
dbVars    == <<meta, orders, processed>>
indexVars == <<chainVars, dbVars, pass, shown, failures>>
-----------------------------------------------------------------------------
Bookside == {0, 1}
NoCursor == -1

InitialMeta ==
  [initialized |-> FALSE, cursor |-> NoCursor, last |-> 0, ledger |-> 0,
   target |-> 0, verified |-> FALSE, fatal |-> FALSE]

Idle  == [at |-> "idle"]
Empty == [status |-> "syncing", last |-> 0, orders |-> {}]

BookInit          == [type |-> "bookinit"]
Upserted(o, left) == [type |-> "ordupsert", order |-> o, left |-> left]
Removed(o)        == [type |-> "ordremove", order |-> o]

Entry(o, left) == [order |-> o, left |-> left]

\* A new order goes behind the orders of its price and better.
Behind(side, o, k) ==
  /\ \A j \in 1..(k - 1) : Rank[side[j].order] <= Rank[o]
  /\ \A j \in k..Len(side) : Rank[side[j].order] > Rank[o]

\* The contract's book after the first n events.
BookAfter(n) == books[n]
-----------------------------------------------------------------------------
(***************************************************************************)
(* The chain.                                                              *)
(***************************************************************************)

\* An event says what became of an order, and the side of the order is changed.
Publish(event, side) ==
  /\ log' = Append(log, event)
  /\ books' = Append(books, [BookAfter(Len(log)) EXCEPT ![SideOf[event.order]] = side])

\* The contract changes one order: a new one rests, one is filled in part, one
\* leaves for good.
Emit(o) ==
  LET side == BookAfter(Len(log))[SideOf[o]]
      Rests(k) == /\ Behind(side, o, k)
                  /\ Publish(Upserted(o, Funds[o]), InsertAt(side, k, Entry(o, Funds[o])))
      Fills(k, left) == Publish(Upserted(o, left), [side EXCEPT ![k] = Entry(o, left)])
      Leaves(k) == Publish(Removed(o), RemoveAt(side, k))
  IN  /\ Len(log) < MaxLog
      /\ \/ /\ \A k \in DOMAIN side : side[k].order # o
            /\ \A n \in DOMAIN log : log[n] # Removed(o)
            /\ \E k \in 1..(Len(side) + 1) : Rests(k)
         \/ \E k \in DOMAIN side :
              /\ side[k].order = o
              /\ Leaves(k) \/ \E left \in 1..(side[k].left - 1) : Fills(k, left)
      /\ UNCHANGED <<head, dropped, setting, dbVars, pass, shown, failures>>

\* The node's event index catches up.
Index ==
  /\ head < Len(log)
  /\ head' = head + 1
  /\ UNCHANGED <<contract, dropped, setting, dbVars, pass, shown, failures>>

\* The oldest event falls out of the node's retention window.
Expire ==
  /\ dropped < head /\ dropped < MaxDropped
  /\ dropped' = dropped + 1
  /\ UNCHANGED <<contract, head, setting, dbVars, pass, shown, failures>>
-----------------------------------------------------------------------------
(***************************************************************************)
(* The database.                                                           *)
(***************************************************************************)

RowsOf(rows, o) == {r \in rows : r.order = o}

\* Variant: an update gives the order the priority of its own event.
PutOrder_NewPriority(rows, ev, sequence) ==
  (rows \ RowsOf(rows, ev.order))
    \cup {[order |-> ev.order, left |-> ev.left, priority |-> sequence]}

\* ordupsert: an order that is there keeps the priority of its first upsert.
PutOrder(rows, ev, sequence) ==
  LET old == RowsOf(rows, ev.order)
  IN  (rows \ old)
        \cup {[order |-> ev.order, left |-> ev.left,
               priority |-> IF old = {} THEN sequence
                            ELSE (CHOOSE r \in old : TRUE).priority]}

\* One event of a page: skipped when it was processed or is not newer than the
\* last sequence; an error before bookinit, when a sequence is missing, or when
\* the order to remove is not there.
ApplyEvent(db, n) ==
  LET ev   == log[n]
      next == n - 1
      done == [db EXCEPT !.processed = @ \cup {n}]
  IN  IF ~db.ok \/ n \in db.processed THEN db
      ELSE IF ev.type = "bookinit" THEN [done EXCEPT !.initialized = TRUE]
      ELSE IF ~db.initialized THEN [db EXCEPT !.ok = FALSE]
      ELSE IF next <= db.last THEN done
      ELSE IF next # db.last + 1 THEN [db EXCEPT !.ok = FALSE]
      ELSE IF ev.type = "ordupsert"
      THEN [done EXCEPT !.orders = PutOrder(@, ev, next), !.last = next]
      ELSE IF RowsOf(db.orders, ev.order) = {} THEN [db EXCEPT !.ok = FALSE]
      ELSE [done EXCEPT !.orders = @ \ RowsOf(@, ev.order), !.last = next]

Stored ==
  [ok |-> TRUE, initialized |-> meta.initialized, last |-> meta.last, orders |-> orders,
   processed |-> processed]

\* The loop over the events of a page.
Applied(page) ==
  LET db[k \in 0..Len(page.events)] ==
        IF k = 0 THEN Stored ELSE ApplyEvent(db[k - 1], page.events[k])
  IN  db[Len(page.events)]

\* Variant: the sequence is not stored with the orders.
CommitPage_SequenceNotStored(page) ==
  LET db == Applied(page)
  IN  /\ meta' = [meta EXCEPT !.initialized = db.initialized, !.cursor = page.cursor,
                              !.ledger = page.ledger, !.fatal = FALSE]
      /\ orders' = db.orders
      /\ processed' = db.processed

\* Variant: the cursor is not stored with the page.
CommitPage_CursorKept(page) ==
  LET db == Applied(page)
  IN  /\ meta' = [meta EXCEPT !.initialized = db.initialized,
                              !.last = db.last, !.ledger = page.ledger, !.fatal = FALSE]
      /\ orders' = db.orders
      /\ processed' = db.processed

\* applyBookEventPage commits: the cursor, the sequence and the orders change
\* in one transaction.
CommitPage(page) ==
  LET db == Applied(page)
  IN  /\ meta' = [meta EXCEPT !.initialized = db.initialized, !.cursor = page.cursor,
                              !.last = db.last, !.ledger = page.ledger, !.fatal = FALSE]
      /\ orders' = db.orders
      /\ processed' = db.processed

\* snapshot: what a page is given to display.
Snapshot(m, rows) ==
  [status |-> IF m.fatal THEN "error"
              ELSE IF m.initialized /\ m.verified /\ m.last = m.target THEN "synced"
              ELSE "syncing",
   last |-> m.last, orders |-> rows]

Transient(m, rows) == [Snapshot(m, rows) EXCEPT !.status = "syncing"]

\* What a page shows that could not even read the book.
FailedSnapshot == [Empty EXCEPT !.status = "error"]

At(p, step) == pass[p].at = step
Goto(p, local) == pass' = [pass EXCEPT ![p] = local] /\ UNCHANGED shown

\* The pass returns and its page displays the answer.
Return(p, answer) ==
  /\ pass' = [pass EXCEPT ![p] = Idle]
  /\ shown' = [shown EXCEPT ![p] = answer]
-----------------------------------------------------------------------------
(***************************************************************************)
(* A pass: syncBookIndex.                                                  *)
(***************************************************************************)

\* The timer starts a pass, which reads the meta record.
Begin(p) ==
  /\ At(p, "idle") /\ storage[p] = "trustless"
  /\ IF meta.fatal THEN Return(p, Snapshot(meta, orders))
     ELSE Goto(p, [at |-> "fetch", cursor |-> meta.cursor, start |-> 0, live |-> FALSE])
  /\ UNCHANGED <<chainVars, dbVars, failures>>

\* The answer to getEvents, from the cursor or else the start ledger: a page, or
\* a range error, which only a first pass without a cursor recovers from.
Fetch(p) ==
  LET local == pass[p]
      from  == IF local.cursor = NoCursor THEN local.start ELSE local.cursor
      to    == IF from + PageSize < head THEN from + PageSize ELSE head
      page  == [events |-> [k \in 1..(to - from) |-> from + k],
                cursor |-> to, ledger |-> head]
  IN  /\ At(p, "fetch")
      /\ IF from >= dropped
         THEN Goto(p, [at |-> "apply", page |-> page, live |-> local.live])
         ELSE IF local.cursor = NoCursor /\ ~local.live
         THEN Goto(p, [at |-> "release", start |-> dropped])
         ELSE Return(p, Transient(meta, orders))
      /\ UNCHANGED <<chainVars, dbVars, failures>>

\* The page is applied.  In a recovery a full page asks for the next one.
Apply(p) ==
  LET page == pass[p].page
  IN  /\ At(p, "apply") /\ Applied(page).ok
      /\ CommitPage(page)
      /\ IF ~pass[p].live THEN Goto(p, [at |-> "target", ledger |-> page.ledger])
         ELSE IF Len(page.events) = PageSize
         THEN Goto(p, [at |-> "fetch", cursor |-> page.cursor, start |-> 0, live |-> TRUE])
         ELSE Return(p, Snapshot(meta', orders'))
      /\ UNCHANGED <<chainVars, failures>>

\* setFatal reads the meta record that it will put back with the error set.
ReadForFatal(p) == Goto(p, [at |-> "put", meta |-> [meta EXCEPT !.fatal = TRUE]])

\* The transaction aborts: an error for good in a pass, passing in a recovery.
ApplyFails(p) ==
  /\ At(p, "apply") /\ ~Applied(pass[p].page).ok
  /\ IF pass[p].live THEN Return(p, Transient(meta, orders)) ELSE ReadForFatal(p)
  /\ UNCHANGED <<chainVars, dbVars, failures>>

\* The contract's book sequence arrives and the meta record is read again; a
\* pass that has seen no bookinit by now gives up.
ReadTarget(p) ==
  LET updated == [meta EXCEPT !.target = Len(log) - 1]
  IN  /\ At(p, "target")
      /\ IF ~updated.initialized /\ pass[p].ledger <= updated.ledger
         THEN ReadForFatal(p)
         ELSE Goto(p, [at |-> "verify", meta |-> updated])
      /\ UNCHANGED <<chainVars, dbVars, failures>>

\* verifyRelease: a record without bookinit has no hashes to verify.
Verify(p) ==
  /\ At(p, "verify")
  /\ IF pass[p].meta.initialized /\ genuine
     THEN Goto(p, [at |-> "put", meta |-> [pass[p].meta EXCEPT !.verified = TRUE]])
     ELSE ReadForFatal(p)
  /\ UNCHANGED <<chainVars, dbVars, failures>>

\* The record that the pass holds replaces the stored one.
PutMeta(p) ==
  /\ At(p, "put")
  /\ meta' = pass[p].meta
  /\ Return(p, Snapshot(meta', orders))
  /\ UNCHANGED <<chainVars, orders, processed, failures>>
-----------------------------------------------------------------------------
(***************************************************************************)
(* recoverLiveBookIndex.                                                   *)
(***************************************************************************)

\* verifyLiveRelease: another contract is an error for good.
VerifyLive(p) ==
  /\ At(p, "release")
  /\ IF genuine THEN Goto(p, [at |-> "sequence", start |-> pass[p].start])
     ELSE ReadForFatal(p)
  /\ UNCHANGED <<chainVars, dbVars, failures>>

NoSides == [s \in {} |-> <<>>]

\* The contract's book sequence, then its sides, each by a call of its own.
ReadSequence(p) ==
  /\ At(p, "sequence")
  /\ Goto(p, [at |-> "sides", start |-> pass[p].start, last |-> Len(log) - 1,
              sides |-> NoSides])
  /\ UNCHANGED <<chainVars, dbVars, failures>>

ReadSide(p, s) ==
  LET local == pass[p]
  IN  /\ At(p, "sides") /\ s \notin DOMAIN local.sides
      /\ Goto(p, [at |-> "sides", start |-> local.start, last |-> local.last,
                  sides |-> [r \in DOMAIN local.sides \cup {s} |->
                    IF r = s THEN BookAfter(Len(log))[s] ELSE local.sides[r]]])
      /\ UNCHANGED <<chainVars, dbVars, failures>>

\* Variant: the rows keep no order of their own.
LiveRows_NoPriority(side) ==
  {[order |-> side[k].order, left |-> side[k].left, priority |-> 0] : k \in DOMAIN side}

\* The rows of a side as the contract lists it.
LiveRows(side) ==
  {[order |-> side[k].order, left |-> side[k].left, priority |-> k] : k \in DOMAIN side}

\* writeLiveSnapshot replaces the database; the retained events come next.
WriteLive(p) ==
  LET local == pass[p]
  IN  /\ At(p, "sides") /\ DOMAIN local.sides = Bookside /\ storage[p] = "trustless"
      /\ meta' = [InitialMeta EXCEPT !.initialized = TRUE, !.verified = TRUE,
                                     !.last = local.last, !.target = local.last]
      /\ orders' = UNION {LiveRows(local.sides[s]) : s \in Bookside}
      /\ processed' = {}
      /\ Goto(p, [at |-> "fetch", cursor |-> NoCursor, start |-> local.start,
                  live |-> TRUE])
      /\ UNCHANGED <<chainVars, failures>>
-----------------------------------------------------------------------------
(***************************************************************************)
(* syncTrustedBookIndex: two reads, no database and nothing verified.      *)
(***************************************************************************)

BeginTrusted(p) ==
  /\ At(p, "idle") /\ storage[p] = "trusted"
  /\ Goto(p, [at |-> "sides", start |-> 0, last |-> 0, sides |-> NoSides])
  /\ UNCHANGED <<chainVars, dbVars, failures>>

ShowTrusted(p) ==
  LET sides == pass[p].sides
  IN  /\ At(p, "sides") /\ DOMAIN sides = Bookside /\ storage[p] = "trusted"
      /\ Return(p, [status |-> "synced", last |-> 0,
                    orders |-> UNION {LiveRows(sides[s]) : s \in Bookside}])
      /\ UNCHANGED <<chainVars, dbVars, failures>>
-----------------------------------------------------------------------------
(***************************************************************************)
(* Failures and users.                                                     *)
(***************************************************************************)

\* A call over the network fails.
Fail(p) ==
  /\ pass[p].at \in {"fetch", "target", "verify", "release", "sequence", "sides"}
  /\ failures < MaxFailures
  /\ failures' = failures + 1
  /\ Return(p, IF storage[p] = "trusted" THEN FailedSnapshot ELSE Transient(meta, orders))
  /\ UNCHANGED <<chainVars, dbVars>>

\* The page is closed and opened again; its pass is gone.
Reload(p) ==
  /\ failures < MaxFailures
  /\ failures' = failures + 1
  /\ Return(p, Empty)
  /\ UNCHANGED <<chainVars, dbVars>>

\* The user asks for a recheck, offered with an error: clearBookIndex.
Recheck(p) ==
  /\ At(p, "idle") /\ shown[p].status = "error" /\ storage[p] = "trustless"
  /\ meta' = InitialMeta /\ orders' = {} /\ processed' = {}
  /\ Return(p, Empty)
  /\ UNCHANGED <<chainVars, failures>>
-----------------------------------------------------------------------------
IndexInit ==
  /\ log = <<BookInit>> /\ books = <<[s \in Bookside |-> <<>>]>>
  /\ head \in {0, 1} /\ dropped = 0
  /\ meta = InitialMeta /\ orders = {} /\ processed = {}
  /\ pass = [p \in Page |-> Idle]
  /\ shown = [p \in Page |-> Empty]
  /\ failures = 0
  /\ storage \in [Page -> {"trusted", "trustless"}] /\ genuine \in BOOLEAN

Local(p) == \/ Begin(p) \/ Apply(p) \/ ApplyFails(p) \/ PutMeta(p) \/ WriteLive(p)
            \/ BeginTrusted(p) \/ ShowTrusted(p)
Remote(p) == \/ Fetch(p) \/ ReadTarget(p) \/ Verify(p) \/ VerifyLive(p)
             \/ ReadSequence(p) \/ \E s \in Bookside : ReadSide(p, s)
Chain == (\E o \in Order : Emit(o)) \/ Index \/ Expire

IndexNext ==
  Chain \/ \E p \in Page : \/ Local(p) \/ Remote(p)
                           \/ Fail(p) \/ Reload(p) \/ Recheck(p)

\* The timer keeps starting passes and the calls of a pass return.
IndexFairness ==
  /\ WF_indexVars(Index)
  /\ \A p \in Page : WF_indexVars(Local(p) \/ Remote(p))

IndexSpec == IndexInit /\ [][IndexNext]_indexVars /\ IndexFairness
-----------------------------------------------------------------------------
\* compareOrders: the best price first, then the first upsert.
Precedes(a, b) ==
  \/ Rank[a.order] < Rank[b.order]
  \/ Rank[a.order] = Rank[b.order] /\ a.priority < b.priority

\* ordersFor: the rows of a side, sorted.
IsListing(side, rows, s) ==
  LET mine == {r \in rows : SideOf[r.order] = s}
  IN  \E row \in [DOMAIN side -> mine] :
        /\ \A r \in mine : \E k \in DOMAIN side : row[k] = r
        /\ \A k \in DOMAIN side : side[k] = Entry(row[k].order, row[k].left)
        /\ \A k, l \in DOMAIN side : k < l => Precedes(row[k], row[l])

StoredIsBook ==
  \A s \in Bookside : IsListing(BookAfter(meta.last + 1)[s], orders, s)

\* The database was built from the first event on, not copied by a recovery.
Replayed == meta.initialized => 1 \in processed

(***************************************************************************)
(* What the stored sequence says is what is stored: the rows, listed by    *)
(* price and first upsert, are the contract's book at exactly the stored   *)
(* sequence.  Events take effect once and in order through every reload,   *)
(* failure and repeated answer.                                            *)
(***************************************************************************)
StoredAsOne == Replayed => StoredIsBook

(***************************************************************************)
(* The same of a database without an error, in use by several pages        *)
(* (docs/simple-order-book.md:94, "The frontend persists this state and    *)
(* the RPC cursor atomically in IndexedDB.").  The code does not keep it:  *)
(* syncBookIndex reads the meta record, verifies the release over the      *)
(* network, and then puts back what it read over the progress of another   *)
(* page, whose events stay in the processed store.                         *)
(***************************************************************************)
StoredAsOneByAll == Replayed /\ ~meta.fatal => StoredIsBook

(***************************************************************************)
(* Once bookinit is in, a pass over a replayed database of a genuine       *)
(* contract never ends in the error that only a user can clear: no         *)
(* sequence of reloads, failures and dropped events makes                  *)
(* applyBookEventPage see a gap or an unknown order.                       *)
(***************************************************************************)
NeverWedged == genuine /\ meta.initialized /\ Replayed => ~meta.fatal

(***************************************************************************)
(* A side that is displayed as synced is the contract's side, in its       *)
(* order, at the displayed sequence or later, even after a recovery that   *)
(* read the sequence and the two sides at different times; and but for     *)
(* trusted mode, which does not ask, the contract is a genuine one.        *)
(***************************************************************************)
ShownIsReal ==
  \A p \in Page : shown[p].status = "synced" =>
    /\ storage[p] = "trustless" => genuine
    /\ \A s \in Bookside : \E n \in (shown[p].last + 1)..Len(log) :
         IsListing(BookAfter(n)[s], shown[p].orders, s)

(***************************************************************************)
(* When trading stops, every page ends up displaying the contract's whole  *)
(* book as synced, unless it displays an error or its stored cursor has    *)
(* fallen out of the retention window, which no pass recovers from.  A     *)
(* page in trusted mode gets over its errors; one in trustless mode never  *)
(* shows a contract of another release, however often it is rechecked.     *)
(***************************************************************************)
CatchesUp ==
  <>[](\A p \in Page :
         \/ storage[p] = "trustless" /\ (shown[p].status = "error" \/ ~genuine)
         \/ meta.cursor # NoCursor /\ meta.cursor < dropped
         \/ /\ shown[p].status = "synced"
            /\ \A s \in Bookside :
                 IsListing(BookAfter(Len(log))[s], shown[p].orders, s))
=============================================================================

------------------------------- MODULE Activity -------------------------------
(***************************************************************************)
(* The activity history of one wallet: a browser keeps its events in       *)
(* IndexedDB (frontend/src/sdk/indexedDbStore.ts) and exchanges them with  *)
(* the wallet's account on the MCP server (frontend/src/sdk/               *)
(* activitySync.ts, packages/mcp/src/store.ts).                            *)
(*                                                                         *)
(* The tabs of the browser share its store and its two cursors and run the *)
(* exchange side by side; other browsers and the server itself add to the  *)
(* server's events; calls and answers may be lost and tabs closed between  *)
(* any two steps.  An event is its id; cursors are the keys of IndexedDB   *)
(* in the browser and the rows' numbers on the server.                     *)
(***************************************************************************)
EXTENDS Integers, SequencesExt, FiniteSetsExt

CONSTANTS
  Tab,         \* the tabs of the browser
  Event,       \* events that the browser records
  OtherEvent,  \* events that others record; one in both sets has an idempotency key
  BatchSize,   \* syncTrustedActivity's batchSize
  MaxLost      \* bound on lost calls and closed tabs

ASSUME ActivityAssumption == BatchSize \in Nat \ {0} /\ MaxLost \in Nat

VARIABLES
  local,     \* activityEvents in the browser
  keys,      \* IndexedDB's key generator: the next key
  cursor,    \* localStorage: mosaic.activityPush and mosaic.activityPull
  server,    \* activity_events: ids in the order of their cursors
  exchange,  \* what each tab's exchange is at
  lost       \* calls lost and tabs closed so far

activityVars == <<local, keys, cursor, server, exchange, lost>>
-----------------------------------------------------------------------------
NoBatch == [sent |-> <<>>, upto |-> 0]
Resting == [at |-> "idle", batch |-> NoBatch, remote |-> <<>>, upto |-> 0]

Ids == {e.id : e \in local}
Keys == {e.cursor : e \in local}
OnServer == ToSet(server)

\* The ways to list a set.
Listings(S) == {s \in [1..Cardinality(S) -> S] : ToSet(s) = S}

Lose == lost < MaxLost /\ lost' = lost + 1

ExchangeAt(t, step) == exchange[t].at = step
Rest(t) == exchange' = [exchange EXCEPT ![t] = Resting]
-----------------------------------------------------------------------------
(***************************************************************************)
(* Recording.                                                              *)
(***************************************************************************)

\* IndexedDbStore.record of a new event: the store gives it the next key.  An
\* event whose id or key is there is answered with what is there.
Record(e) ==
  /\ e \notin Ids
  /\ local' = local \cup {[cursor |-> keys, id |-> e, remote |-> FALSE]}
  /\ keys' = keys + 1
  /\ UNCHANGED <<cursor, server, exchange, lost>>

\* recordOneActivity for each, in their order: INSERT OR IGNORE by id and key.
Inserted(log, ids) ==
  LET new == ToSet(ids) \ ToSet(log)
  IN  {log \o s : s \in {r \in Listings(new) : \A i, j \in DOMAIN r : i < j =>
                          \E k, l \in DOMAIN ids : k < l /\ ids[k] = r[i] /\ ids[l] = r[j]}}

\* recordDeployActivity, or another browser's push.
RecordOnServer(e) ==
  /\ e \notin OnServer
  /\ server' \in Inserted(server, <<e>>)
  /\ UNCHANGED <<local, keys, cursor, exchange, lost>>
-----------------------------------------------------------------------------
(***************************************************************************)
(* syncTrustedActivity.                                                    *)
(***************************************************************************)

\* The browser's own events above the push cursor, in the order of their keys.
Candidates ==
  {s \in Listings({e \in local : ~e.remote /\ e.cursor > cursor.push}) :
     \A i, j \in DOMAIN s : i < j => s[i].cursor < s[j].cursor}

\* maxCursor.
MaxCursor(events) == Max({0} \cup {e.cursor : e \in ToSet(events)})

FirstOf(events) == SubSeq(events, 1, Min({BatchSize, Len(events)}))

\* Variant: the whole list counts as pushed.
Batch_Whole(events) == [sent |-> FirstOf(events), upto |-> MaxCursor(events)]

\* What is sent of a list, and the cursor that says so.
Batch(events) == [sent |-> FirstOf(events), upto |-> MaxCursor(FirstOf(events))]

\* Variant: the pull is first.
Halves_Swapped == <<"pull", "push">>

\* The two halves of an exchange.
Halves == <<"push", "pull">>

\* The half after another one, or the end of the exchange.
After(step) == IF step = Halves[1] THEN Halves[2] ELSE "idle"

\* The exchange of a tab moves on to a step.
Onto(t, step) == exchange' = [exchange EXCEPT ![t] = [Resting EXCEPT !.at = step]]

\* The timer, unless the tab's last exchange is under way.
SyncTick(t) ==
  /\ ExchangeAt(t, "idle") /\ Onto(t, Halves[1])
  /\ UNCHANGED <<local, keys, cursor, server, lost>>

ReadCandidates(t) ==
  /\ ExchangeAt(t, "push")
  /\ \E events \in Candidates :
       IF events = <<>> THEN Onto(t, After("push"))
       ELSE exchange' = [exchange EXCEPT ![t] = [Resting EXCEPT !.at = "send",
                                                             !.batch = Batch(events)]]
  /\ UNCHANGED <<local, keys, cursor, server, lost>>

\* record_activity reaches the server.
Push(t) ==
  /\ ExchangeAt(t, "send")
  /\ LET sent == exchange[t].batch.sent
     IN  server' \in Inserted(server, [i \in DOMAIN sent |-> sent[i].id])
  /\ exchange' = [exchange EXCEPT ![t].at = "sent"]
  /\ UNCHANGED <<local, keys, cursor, lost>>

EndPush(t) ==
  /\ ExchangeAt(t, "sent")
  /\ cursor' = [cursor EXCEPT !.push = exchange[t].batch.upto]
  /\ Onto(t, After("push"))
  /\ UNCHANGED <<local, keys, server, lost>>

\* activity_since: the server's events above the pull cursor.
Pull(t) ==
  LET from == cursor.pull
      remote == [i \in 1..Len(server) - from |-> [cursor |-> from + i, id |-> server[from + i]]]
  IN  /\ ExchangeAt(t, "pull")
      /\ IF remote = <<>> THEN Onto(t, After("pull"))
         ELSE exchange' = [exchange EXCEPT ![t] = [Resting EXCEPT !.at = "store", !.remote = remote,
                                                          !.upto = MaxCursor(remote)]]
      /\ UNCHANGED <<local, keys, cursor, server, lost>>

\* IndexedDbStore.record of the next of them: one that is there is passed over.
Look(t) ==
  LET next == Head(exchange[t].remote)
  IN  /\ ExchangeAt(t, "store") /\ exchange[t].remote # <<>>
      /\ exchange' = IF next.id \in Ids THEN [exchange EXCEPT ![t].remote = Tail(@)]
                 ELSE [exchange EXCEPT ![t].at = "add"]
      /\ UNCHANGED <<local, keys, cursor, server, lost>>

\* add: the event comes with the server's cursor, which is its key; when the key
\* or the id is taken the store refuses and the exchange ends there.
Add(t) ==
  LET next == Head(exchange[t].remote)
  IN  /\ ExchangeAt(t, "add")
      /\ IF next.cursor \in Keys \/ next.id \in Ids
         THEN Rest(t) /\ UNCHANGED <<local, keys>>
         ELSE /\ local' = local \cup {[cursor |-> next.cursor, id |-> next.id, remote |-> TRUE]}
              /\ keys' = Max({keys, next.cursor + 1})
              /\ exchange' = [exchange EXCEPT ![t].at = "store", ![t].remote = Tail(@)]
      /\ UNCHANGED <<cursor, server, lost>>

EndPull(t) ==
  /\ ExchangeAt(t, "store") /\ exchange[t].remote = <<>>
  /\ cursor' = [cursor EXCEPT !.pull = exchange[t].upto]
  /\ Onto(t, After("pull"))
  /\ UNCHANGED <<local, keys, server, lost>>

\* A call or its answer is lost, or the tab is closed: the exchange ends where it
\* is, and the next tick begins another.
Break(t) ==
  /\ Lose /\ ~ExchangeAt(t, "idle") /\ Rest(t)
  /\ UNCHANGED <<local, keys, cursor, server>>
-----------------------------------------------------------------------------
ActivityInit ==
  /\ local = {} /\ keys = 1 /\ cursor = [push |-> 0, pull |-> 0]
  /\ server = <<>>
  /\ exchange = [t \in Tab |-> Resting] /\ lost = 0

Exchange(t) ==
  SyncTick(t) \/ ReadCandidates(t) \/ Push(t) \/ EndPush(t) \/ Pull(t) \/ Look(t) \/ Add(t)
    \/ EndPull(t)

ActivityNext ==
  \/ \E e \in Event : Record(e)
  \/ \E e \in OtherEvent : RecordOnServer(e)
  \/ \E t \in Tab : Exchange(t) \/ Break(t)

\* Every tab's timer ticks and its calls end.
ActivityFairness == \A t \in Tab : WF_activityVars(Exchange(t))

ActivitySpec == ActivityInit /\ [][ActivityNext]_activityVars /\ ActivityFairness
-----------------------------------------------------------------------------
(***************************************************************************)
(* The browser's cursors claim no more than was exchanged: its own         *)
(* events up to the push cursor are on the server and the server's events  *)
(* up to the pull cursor are in the browser, whichever tabs ran the        *)
(* exchange and wherever it broke.                                         *)
(***************************************************************************)
CursorsHonest ==
  /\ \A e \in local : ~e.remote /\ e.cursor <= cursor.push => e.id \in OnServer
  /\ \A i \in 1..cursor.pull : server[i] \in Ids

(***************************************************************************)
(* Every event that a browser records comes to the server, even when the   *)
(* browser can store nothing of what the server sends.                     *)
(***************************************************************************)
Mirrored ==
  \A e \in Event : e \in Ids ~> e \in OnServer

(***************************************************************************)
(* Every event of the server comes to the browser (activitySync.test.ts:   *)
(* 42, "trusted activity sync pushes local client events and pulls remote  *)
(* events without rewriting identity").  The test's store numbers what it  *)
(* stores; IndexedDB takes the server's cursor for the key.                *)
(***************************************************************************)
Replicated ==
  \A e \in Event \cup OtherEvent : e \in OnServer ~> e \in Ids
=============================================================================

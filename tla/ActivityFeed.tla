----------------------------- MODULE ActivityFeed -----------------------------
(***************************************************************************)
(* What the activity page of one tab shows of the wallet's operations and  *)
(* of its shields from Base (frontend/src/ActivityContext.tsx, components/ *)
(* activityModel.ts, packages/sdk/src/activity.ts).                        *)
(*                                                                         *)
(* The server keeps the operations, a log of their events and the jobs of  *)
(* shields.  The tab learns of them by calls that fail or are slow: it     *)
(* polls the log, lists the operations again when something happened, and  *)
(* writes the last leg of a finished shield to the browser's store, where  *)
(* another browser's records arrive too.  An entry is computed from all of *)
(* it.  The queue itself is in OperationQueue, the worker that ends        *)
(* jobs in BaseShield and the exchange of records in Activity.             *)
(***************************************************************************)
EXTENDS Integers, SequencesExt, FiniteSetsExt

CONSTANTS
  Op,            \* operations of the wallet
  Job,           \* shields from Base
  FeedTrouble    \* bounds on failed calls, on reloads of the tab and on lists that
                 \* arrive after a list read later: one of these per behaviour

ASSUME FeedAssumption == FeedTrouble \subseteq [fault : Nat, reload : Nat, overtaken : Nat]

VARIABLES
  ops,        \* the operations' statuses on the server; "none" before creation
  log,        \* the events of the wallet's operations, by cursor
  shields,    \* base_shields: the statuses
  records,    \* activityEvents in the browser's store
  connected,  \* the tab has a session and polls
  list,       \* the operations that the tab shows
  feed,       \* the poll of the log: its cursor, and what is left to ingest
  asked,      \* refreshes that have not reached the server
  answers,    \* lists of operations on their way, in the order they were read
  running,    \* what the executor is at: an operation, "refresh" or "no"
  left        \* failed calls, reloads and overtaken lists to come

serverVars == <<ops, log, shields>>
tabVars == <<connected, list, feed, asked, answers, running>>
feedVars == <<serverVars, tabVars, records, left>>
-----------------------------------------------------------------------------
OpEnded == {"succeeded", "failed", "cancelled"}

NoPoll == [cursor |-> 0, at |-> "idle", events |-> <<>>]
Unlisted == [o \in Op |-> "none"]

\* What calls refresh: the poll of the log, the executor, the timer that a failed
\* poll sets, and the effect that selects the wallet.
Caller == {"poll", "exec", "timer", "select"}

Spend(kind) == left[kind] > 0 /\ left' = [left EXCEPT ![kind] = @ - 1]

\* addEvent: the operation's new status and its event.
SetOp(o, status) ==
  /\ ops' = [ops EXCEPT ![o] = status]
  /\ log' = Append(log, [op |-> o, state |-> status])

\* IndexedDbStore.record: an event whose idempotency key is there is passed over.
Recorded(event) ==
  IF \E e \in records : e.key = event.key THEN records ELSE records \cup {event}

-----------------------------------------------------------------------------
(***************************************************************************)
(* The records.                                                            *)
(***************************************************************************)

\* ingestOperationEvents: one event of the log; what succeeded has a transaction.
OperationRecord(c) ==
  [key |-> <<"backend-operation", c>>, group |-> log[c].op, status |-> log[c].state,
   at |-> c, txs |-> IF log[c].state = "succeeded" THEN {"stellar"} ELSE {}]

\* recordBaseShieldActivity of the form, when the job has been enqueued.
DepositRecord(j) ==
  [key |-> <<"base-shield-deposit", j>>, group |-> j, status |-> "running", at |-> 1,
   txs |-> {"base"}]

\* baseDepositTxHash, or the deposit that is kept with the job.
BaseTxs(j) == {"base"}

\* baseShieldTerminalEvent: minutes after the deposit.
TerminalRecord(j) ==
  [key |-> <<"base-shield", shields[j], j>>, group |-> j, at |-> 2,
   status |-> IF shields[j] = "active" THEN "succeeded" ELSE "failed",
   txs |-> BaseTxs(j) \cup IF shields[j] = "active" THEN {"stellar"} ELSE {}]
-----------------------------------------------------------------------------
(***************************************************************************)
(* activityGroups: the entry of an operation or of a shield.               *)
(***************************************************************************)
displayStatus(status) == IF status \in {"waiting", "running"} THEN "running" ELSE status

statusRank(status) ==
  CASE status = "running" -> 3
    [] status \in OpEnded -> 4
    [] OTHER -> 0

InGroup(g) == {e \in records : e.group = g}

\* Variant: of the leg that is under way.
latestStatus_First(g) ==
  IF \E e \in InGroup(g) : e.status = "running" THEN "running"
  ELSE (CHOOSE e \in InGroup(g) : TRUE).status

\* latestStatus: of the record with the latest time.
latestStatus(g) == (CHOOSE e \in InGroup(g) : \A x \in InGroup(g) : x.at <= e.at).status

\* upsertTxLine: a transaction's line has the highest of its statuses.
LineStatus(g, tx) ==
  displayStatus((CHOOSE e \in InGroup(g) :
                   /\ tx \in e.txs
                   /\ \A x \in InGroup(g) : tx \in x.txs => statusRank(x.status) <= statusRank(e.status)).status)

\* activityGroups: an operation's status is that of the list.  Records of an
\* operation that is not listed have no action and no entry.
EntryStatus(g) ==
  CASE g \in Op -> displayStatus(list[g])
    [] g \in Job /\ InGroup(g) # {} -> displayStatus(latestStatus(g))
    [] OTHER -> "none"

Lines(g) == UNION {e.txs : e \in InGroup(g)}
-----------------------------------------------------------------------------
(***************************************************************************)
(* refresh.                                                                *)
(***************************************************************************)
\* authenticate, and listOperations at the server.
Answer(who) ==
  /\ who \in asked /\ asked' = asked \ {who}
  /\ answers' = Append(answers, [who |-> who, list |-> ops])
  /\ connected' = TRUE
  /\ UNCHANGED <<serverVars, list, feed, running, records, left>>

\* The poll and the executor await their refresh.
Resume(who) ==
  /\ feed' = IF who = "poll" THEN [feed EXCEPT !.at = "idle"] ELSE feed
  /\ running' = IF who = "exec" THEN "no" ELSE running

\* setOperations.  An answer that overtakes an older one counts.
ShowList(i) ==
  /\ list' = answers[i].list
  /\ answers' = RemoveAt(answers, i)
  /\ Resume(answers[i].who)
  /\ IF i = 1 THEN UNCHANGED left ELSE Spend("overtaken")
  /\ UNCHANGED <<serverVars, connected, asked, records>>

\* refresh fails: nothing asks again.
RefreshFails(who) ==
  /\ who \in asked /\ asked' = asked \ {who}
  /\ Spend("fault")
  /\ connected' = FALSE
  /\ Resume(who)
  /\ UNCHANGED <<serverVars, list, answers, records>>
-----------------------------------------------------------------------------
(***************************************************************************)
(* The wallet's operations: created, cancelled and executed in this tab or *)
(* in another browser.                                                     *)
(***************************************************************************)

\* enqueue, which authenticates.
Enqueue(o) ==
  /\ ops[o] = "none" /\ SetOp(o, "waiting")
  /\ list' = [list EXCEPT ![o] = "waiting"]
  /\ connected' = TRUE
  /\ UNCHANGED <<shields, feed, asked, answers, running, records, left>>

\* cancel shows the answer at once.
Cancel(o) ==
  /\ ops[o] = "waiting" /\ SetOp(o, "cancelled")
  /\ list' = [list EXCEPT ![o] = "cancelled"]
  /\ UNCHANGED <<shields, connected, feed, asked, answers, running, records, left>>

Elsewhere(o) ==
  /\ \/ ops[o] = "none" /\ SetOp(o, "waiting")
     \/ ops[o] = "waiting" /\ running # o /\ \E s \in OpEnded : SetOp(o, s)
  /\ UNCHANGED <<shields, tabVars, records, left>>

\* The executor claims while the tab is connected.
ClaimOp(o) ==
  /\ connected /\ running = "no" /\ ops[o] = "waiting" /\ running' = o
  /\ UNCHANGED <<serverVars, connected, list, feed, asked, answers, records, left>>

\* It completes or fails the action, cancelled in the meantime or not, and
\* refreshes.
Executed ==
  /\ running \in Op
  /\ \E s \in {"succeeded", "failed"} : SetOp(running, s)
  /\ running' = "refresh" /\ asked' = asked \cup {"exec"}
  /\ UNCHANGED <<shields, connected, list, feed, answers, records, left>>
-----------------------------------------------------------------------------
(***************************************************************************)
(* The poll of the log.                                                    *)
(***************************************************************************)

\* operationEventsSince: the cursor moves before the events are stored.
PollEvents ==
  /\ connected /\ feed.at = "idle" /\ feed.cursor < Len(log)
  /\ feed' = [cursor |-> Len(log), at |-> "ingest",
              events |-> [i \in 1..Len(log) - feed.cursor |-> feed.cursor + i]]
  /\ UNCHANGED <<serverVars, connected, list, asked, answers, running, records, left>>

\* ingestOperationEvents stores one after the other; then the tab refreshes.
Ingest ==
  /\ feed.at = "ingest"
  /\ IF feed.events = <<>>
     THEN /\ feed' = [feed EXCEPT !.at = "refresh"] /\ asked' = asked \cup {"poll"}
          /\ UNCHANGED records
     ELSE /\ records' = Recorded(OperationRecord(Head(feed.events)))
          /\ feed' = [feed EXCEPT !.events = Tail(@)]
          /\ UNCHANGED asked
  /\ UNCHANGED <<serverVars, connected, list, answers, running, left>>

\* A failed poll disconnects the tab and sets the timer of one refresh.
PollFails ==
  /\ connected /\ feed.at = "idle" /\ Spend("fault")
  /\ connected' = FALSE /\ asked' = asked \cup {"timer"}
  /\ UNCHANGED <<serverVars, list, feed, answers, running, records>>
-----------------------------------------------------------------------------
(***************************************************************************)
(* Shields from Base.                                                      *)
(***************************************************************************)
ShieldEnqueued(j) ==
  /\ shields[j] = "none" /\ shields' = [shields EXCEPT ![j] = "proving"]
  /\ UNCHANGED <<ops, log, tabVars, records, left>>

JobEnds(j) ==
  /\ shields[j] = "proving" /\ \E s \in {"active", "failed"} : shields' = [shields EXCEPT ![j] = s]
  /\ UNCHANGED <<ops, log, tabVars, records, left>>

\* The form's record: at once in the browser of the form, unless the form was
\* closed; in others when the exchange brings it.
DepositRecorded(j) ==
  /\ shields[j] # "none" /\ records' = Recorded(DepositRecord(j)) /\ records' # records
  /\ UNCHANGED <<serverVars, tabVars, left>>

\* The reconciler records the last leg of every finished job, once.
ReconcileShield(j) ==
  /\ connected /\ shields[j] \in {"active", "failed"}
  /\ records' = Recorded(TerminalRecord(j)) /\ records' # records
  /\ UNCHANGED <<serverVars, tabVars, left>>
-----------------------------------------------------------------------------
\* A reload: the wallet is selected again and its operations listed.
ReloadTab ==
  /\ Spend("reload")
  /\ list' = Unlisted /\ feed' = NoPoll /\ connected' = FALSE
  /\ asked' = {"select"} /\ answers' = <<>> /\ running' = "no"
  /\ UNCHANGED <<serverVars, records>>

FeedInit ==
  /\ ops = Unlisted /\ log = <<>> /\ shields = [j \in Job |-> "none"]
  /\ records = {} /\ connected = FALSE /\ list = Unlisted /\ feed = NoPoll
  /\ asked = {"select"} /\ answers = <<>> /\ running = "no"
  /\ left \in FeedTrouble

TabStep ==
  \/ PollEvents \/ Ingest \/ Executed
  \/ \E who \in Caller : Answer(who)
  \/ \E i \in DOMAIN answers : ShowList(i)

FeedNext ==
  \/ TabStep \/ PollFails \/ ReloadTab
  \/ \E who \in Caller : RefreshFails(who)
  \/ \E o \in Op : Enqueue(o) \/ Cancel(o) \/ Elsewhere(o) \/ ClaimOp(o)
  \/ \E j \in Job : ShieldEnqueued(j) \/ JobEnds(j) \/ DepositRecorded(j) \/ ReconcileShield(j)

\* Calls end, timers tick while the tab is connected.  Nothing makes a user ask
\* for anything, nor an operation or a job end.
FeedFairness ==
  /\ WF_feedVars(PollEvents) /\ WF_feedVars(Ingest) /\ WF_feedVars(Executed)
  /\ \A who \in Caller : WF_feedVars(Answer(who))
  /\ WF_feedVars(answers # <<>> /\ ShowList(1))
  /\ \A j \in Job : WF_feedVars(ReconcileShield(j))

FeedSpec == FeedInit /\ [][FeedNext]_feedVars /\ FeedFairness
-----------------------------------------------------------------------------
\* The entry of what has ended says how, and so do its transactions' lines; what
\* succeeded has one.
Settled(g) ==
  /\ EntryStatus(g) = CASE g \in Op -> ops[g]
                        [] g \in Job -> IF shields[g] = "active" THEN "succeeded" ELSE "failed"
  /\ EntryStatus(g) = "succeeded" => "stellar" \in Lines(g)
  /\ \A tx \in Lines(g) : LineStatus(g, tx) # "running"

HasEnded(g) ==
  \/ g \in Op /\ ops[g] \in OpEnded
  \/ g \in Job /\ shields[g] \in {"active", "failed"}

(***************************************************************************)
(* In a tab that is connected again and again, every operation and shield  *)
(* that ended is shown as ended (ActivityContext.tsx:267, "turning the     *)
(* entry green"), wherever it was executed and in whatever order records   *)
(* came.                                                                   *)
(***************************************************************************)
EntriesSettle ==
  []<>connected => \A g \in Op \cup Job : HasEnded(g) ~> Settled(g)

(***************************************************************************)
(* A tab connects again when failures end (ActivityContext.tsx:209, "A     *)
(* periodic poll").  A failed refresh stops the poll, and only the user or *)
(* a reload starts it again.                                               *)
(***************************************************************************)
Reconnects == []<>connected
=============================================================================

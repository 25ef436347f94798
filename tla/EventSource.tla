---------------------------- MODULE EventSource -----------------------------
(***************************************************************************)
(* How a wallet learns the tree of notes: the event reader of the SDK      *)
(* (packages/sdk/src/chainEvents.ts) with the cache that it keeps in       *)
(* IndexedDB, and the replay of its events into a tree (eventReplay.ts),   *)
(* for the pages of the browser (frontend/src/api.ts).                     *)
(*                                                                         *)
(* A page of the browser has one reader and several callers of it at once  *)
(* (the pollers of notes and fills, the order flow).  The reader serves    *)
(* one at a time, but what a caller does with the events afterwards is not *)
(* serialised, and it works on the reader's own array.  The pages of the   *)
(* browser share the cache.                                                *)
(*                                                                         *)
(* A ledger holds at most one tree event, and an event is the number of    *)
(* its ledger.  The node answers getEvents for the ledgers oldest..head; a *)
(* cursor is the ledger it was read up to.  A root stands for the sequence *)
(* of events that it was built from: the hash has no collisions.           *)
(***************************************************************************)
EXTENDS Integers, SequencesExt, FiniteSetsExt

CONSTANTS
  Caller,       \* the concurrent users of the readers
  Page,         \* the open pages of the browser
  PageOf,       \* [Caller -> Page]
  Validated,    \* whether callers pass validateReplay, as the wallet does
  PageSize,     \* events in a full answer of the node (1000)
  Start,        \* event_start_ledger of the desk
  MaxLedger,    \* bound on the ledgers
  MaxMishaps    \* bound on ledgers forgotten, lagging replicas and faults

ASSUME EventAssumption ==
  /\ PageOf \in [Caller -> Page] /\ Validated \in BOOLEAN
  /\ PageSize \in Nat \ {0} /\ Start \in Nat \ {0, 1} /\ MaxLedger \in Nat
  /\ MaxMishaps \in Nat

VARIABLES
  closed,   \* the last ledger of the network
  emitted,  \* the ledgers with a tree event
  oldest,   \* the oldest ledger of the node's event index
  head,     \* the newest one
  cache,    \* the snapshot in IndexedDB
  reader,   \* [Page -> ContractState of its reader, with the arrays acc was]
  queue,    \* [Page -> callers inside events(), the first one at work]: locks
  call,     \* [Caller -> local state of its call]
  replay,   \* [Page -> NoteEventReplayer.cache]
  answer,   \* [Caller -> what events() answered its last replay()]
  mishaps   \* forgotten ledgers, lagging replicas and faults so far

nodeVars  == <<closed, emitted, oldest, head>>
eventVars == <<nodeVars, cache, reader, queue, call, replay, answer, mishaps>>
-----------------------------------------------------------------------------
NoCursor == 0
Idle     == [at |-> "idle", next |-> "", mode |-> "", start |-> 0, page |-> <<>>, full |-> FALSE,
             upTo |-> NoCursor, array |-> 0, tree |-> <<>>]
NoReader == [cursor |-> NoCursor, arrays |-> <<>>, seen |-> {}]
NoReplay == [count |-> -1, tree |-> <<>>]

\* The tree events of the contract, in order.
Log == SetToSortSeq(emitted, <)

\* The reader's acc is its newest array; a caller may still hold an older one.
Acc(p) == Last(reader[p].arrays)
Held(c) == reader[PageOf[c]].arrays[call[c].array]

At(c, step) == call[c].at = step

\* serialize: a caller waits for those who came before it.
Serving(c) == queue[PageOf[c]] # <<>> /\ Head(queue[PageOf[c]]) = c
Enter(c) == queue' = [queue EXCEPT ![PageOf[c]] = Append(@, c)]
Leave(c) == queue' = [queue EXCEPT ![PageOf[c]] = Tail(@)]
Reenter(c) == queue' = [queue EXCEPT ![PageOf[c]] = Append(Tail(@), c)]

Mishap == mishaps < MaxMishaps /\ mishaps' = mishaps + 1

EndCall(c) ==
  /\ call' = [call EXCEPT ![c] = Idle]
  /\ Leave(c)
-----------------------------------------------------------------------------
(***************************************************************************)
(* The network and the node.                                               *)
(***************************************************************************)

CloseLedger(events) ==
  /\ closed < MaxLedger
  /\ closed' = closed + 1
  /\ emitted' = emitted \cup events
  /\ UNCHANGED <<oldest, head, cache, reader, queue, call, replay, answer, mishaps>>

IndexLedger ==
  /\ head < closed
  /\ head' = head + 1
  /\ UNCHANGED <<closed, emitted, oldest, cache, reader, queue, call, replay, answer, mishaps>>

\* A replica that is a ledger behind answers from now on.
Lag ==
  /\ oldest < head
  /\ head' = head - 1
  /\ Mishap
  /\ UNCHANGED <<closed, emitted, oldest, cache, reader, queue, call, replay, answer>>

Forget ==
  /\ oldest < head
  /\ oldest' = oldest + 1
  /\ Mishap
  /\ UNCHANGED <<closed, emitted, head, cache, reader, queue, call, replay, answer>>
-----------------------------------------------------------------------------
(***************************************************************************)
(* What a caller does with the events: NoteEventReplayer.replay.  The      *)
(* wallet asks it for notes, fills, a path and a root alike.               *)
(***************************************************************************)

\* events() answers.  The number of events decides whether replay() uses the
\* tree of its cache; otherwise it fetches the fills, with another events().
Return(c) ==
  LET p == PageOf[c]
  IN  IF call[c].next = "fills"
      THEN /\ call' = [call EXCEPT ![c] = [Idle EXCEPT !.at = "build", !.array = call[c].array]]
           /\ Leave(c) /\ UNCHANGED answer
      ELSE /\ answer' = [answer EXCEPT ![c] = Acc(p)]
           /\ IF replay[p].count = Len(Acc(p)) THEN EndCall(c)
              ELSE /\ call' = [call EXCEPT ![c] = [Idle EXCEPT !.at = "load", !.next = "fills",
                                                             !.array = Len(reader[p].arrays)]]
                   /\ Reenter(c)

\* rebuildNoteTree: the loop over the array ends when it meets its end.
RebuildNoteTree(c) ==
  /\ At(c, "build")
  /\ call' = [call EXCEPT ![c].at = "root", ![c].tree = Held(c)]
  /\ UNCHANGED <<nodeVars, cache, reader, queue, replay, answer, mishaps>>

\* The root has been computed: the tree is cached under the number of events
\* that the array has by now.
CacheReplay(c) ==
  /\ At(c, "root")
  /\ replay' = [replay EXCEPT ![PageOf[c]] = [count |-> Len(Held(c)), tree |-> call[c].tree]]
  /\ call' = [call EXCEPT ![c] = Idle]
  /\ UNCHANGED <<nodeVars, cache, reader, queue, answer, mishaps>>
-----------------------------------------------------------------------------
(***************************************************************************)
(* events().                                                               *)
(***************************************************************************)

\* A poller asks for the notes, or the order flow for a path.
Begin(c) ==
  /\ At(c, "idle")
  /\ call' = [call EXCEPT ![c] = [Idle EXCEPT !.at = "load", !.next = "events"]]
  /\ Enter(c)
  /\ UNCHANGED <<nodeVars, cache, reader, replay, answer, mishaps>>

\* loadState: what the page has in memory, or else the cached snapshot, unless
\* that is marked fatal.
LoadState(c) ==
  LET p == PageOf[c]
  IN  /\ At(c, "load") /\ Serving(c)
      /\ IF reader[p] = NoReader /\ cache.fatal
         THEN EndCall(c) /\ UNCHANGED reader
         ELSE /\ reader' = IF reader[p] # NoReader THEN reader
                           ELSE [reader EXCEPT ![p] = [cursor |-> cache.cursor, seen |-> {},
                                                       arrays |-> <<cache.acc>>]]
              /\ call' = [call EXCEPT ![c].at = "fetch", ![c].mode = "read", ![c].start = Start]
              /\ UNCHANGED queue
      /\ UNCHANGED <<nodeVars, cache, replay, answer, mishaps>>

\* Where the node's answer begins: at the cursor, or at the start ledger.
Resuming(c) == reader[PageOf[c]].cursor # NoCursor
From(c) == IF Resuming(c) THEN reader[PageOf[c]].cursor ELSE call[c].start

\* The first events in order: a page that is not full has all of them.
FirstPages(events) ==
  {page \in UNION {[1..n -> events] : n \in 0..PageSize} :
     /\ \A i, j \in DOMAIN page : i < j => page[i] < page[j]
     /\ \A e \in events \ ToSet(page) :
          Len(page) = PageSize /\ \A i \in DOMAIN page : page[i] < e}

\* getEvents answers one page.  A full page ends at its last event, another
\* one at the head.
FetchPage(c) ==
  LET found == {e \in emitted : e \in From(c)..head /\ ~(Resuming(c) /\ e = From(c))}
  IN  /\ At(c, "fetch") /\ From(c) \in oldest..head
      /\ \E page \in FirstPages(found) :
           LET full == Len(page) = PageSize
           IN  call' = [call EXCEPT ![c].at = "page", ![c].page = page, ![c].full = full,
                                    ![c].upTo = IF full THEN Last(page) ELSE head]
      /\ UNCHANGED <<nodeVars, cache, reader, queue, replay, answer, mishaps>>

\* Variant: the history is kept when it is read again from the oldest ledger.
Forgetful_Kept(st) == [st EXCEPT !.cursor = NoCursor, !.seen = {}]

\* recoverFromRetainedRange drops the history.
Forgetful(st) == [cursor |-> NoCursor, seen |-> {}, arrays |-> Append(st.arrays, <<>>)]

HadHistory(st) == st.cursor # NoCursor \/ Last(st.arrays) # <<>>

\* Variant: a resume point outside the node's ledgers is an error.
Resume_Thrown(c) == EndCall(c) /\ UNCHANGED reader

\* The catch of fetchEvents.  A start ledger ahead of the head is clamped to
\* the head; otherwise everything is read again from the node's oldest ledger.
\* A first read that nobody can validate is given up instead.
Resume(c) ==
  LET p  == PageOf[c]
      st == reader[p]
  IN  /\ IF st.cursor = NoCursor /\ call[c].start > head
         THEN /\ call' = [call EXCEPT ![c].mode = "clamped", ![c].start = head]
              /\ UNCHANGED reader
         ELSE /\ reader' = [reader EXCEPT ![p] = Forgetful(st)]
              /\ call' = [call EXCEPT
                   ![c].at    = IF HadHistory(st) \/ Validated THEN @ ELSE "fatal",
                   ![c].mode  = "rebuilt",
                   ![c].start = oldest]
      /\ UNCHANGED queue

\* getEvents refuses a ledger outside its range.
RangeError(c) ==
  /\ At(c, "fetch") /\ From(c) \notin oldest..head
  /\ IF call[c].mode = "read" THEN Resume(c) ELSE EndCall(c) /\ UNCHANGED reader
  /\ UNCHANGED <<nodeVars, cache, replay, answer, mishaps>>

\* One event of the page; recordChainEvent is awaited after each.
IngestEvent(c) ==
  LET p  == PageOf[c]
      st == reader[p]
      e  == Head(call[c].page)
  IN  /\ At(c, "page") /\ call[c].page # <<>>
      /\ reader' = [reader EXCEPT ![p] =
                      IF e \in st.seen THEN st
                      ELSE [st EXCEPT !.seen = @ \cup {e},
                                      !.arrays[Len(st.arrays)] = Append(@, e)]]
      /\ call' = [call EXCEPT ![c].page = Tail(@)]
      /\ UNCHANGED <<nodeVars, cache, queue, replay, answer, mishaps>>

\* The cursor moves, and persist saves the state; fetchPages goes on after a
\* full page.  What was read again has to be validated.
EndPage(c) ==
  LET p == PageOf[c]
  IN  /\ At(c, "page") /\ call[c].page = <<>>
      /\ reader' = [reader EXCEPT ![p].cursor = call[c].upTo]
      /\ cache' = [cursor |-> call[c].upTo, acc |-> Acc(p), fatal |-> FALSE]
      /\ IF call[c].full \/ (call[c].mode = "rebuilt" /\ Validated)
         THEN /\ call' = [call EXCEPT ![c].at = IF call[c].full THEN "fetch" ELSE "validate"]
              /\ UNCHANGED <<queue, answer>>
         ELSE Return(c)
      /\ UNCHANGED <<nodeVars, replay, mishaps>>

\* validateReplayRoot: the root of the events against the contract's, now.
ValidateReplay(c) ==
  /\ At(c, "validate")
  /\ IF Acc(PageOf[c]) = Log THEN Return(c)
     ELSE /\ call' = [call EXCEPT ![c].at = "fatal"]
          /\ UNCHANGED <<queue, answer>>
  /\ UNCHANGED <<nodeVars, cache, reader, replay, mishaps>>

\* The fatal marker is saved with what was read, and the call fails.
MarkFatal(c) ==
  LET p == PageOf[c]
  IN  /\ At(c, "fatal")
      /\ cache' = [cursor |-> reader[p].cursor, acc |-> Acc(p), fatal |-> TRUE]
      /\ EndCall(c)
      /\ UNCHANGED <<nodeVars, reader, replay, answer, mishaps>>
-----------------------------------------------------------------------------
(***************************************************************************)
(* Faults.                                                                 *)
(***************************************************************************)

\* A call to the node or a save fails; a validator that fails is taken for one
\* that found a different root.
Fault(c) ==
  LET p == PageOf[c]
  IN  /\ Mishap
      /\ \/ /\ At(c, "fetch")
            /\ EndCall(c) /\ UNCHANGED reader
         \/ /\ At(c, "page") /\ call[c].page = <<>>
            /\ reader' = [reader EXCEPT ![p].cursor = call[c].upTo]
            /\ EndCall(c)
         \/ /\ At(c, "validate")
            /\ call' = [call EXCEPT ![c].at = "fatal"]
            /\ UNCHANGED <<queue, reader>>
      /\ UNCHANGED <<nodeVars, cache, replay, answer>>

\* The page is loaded again: only the cache is left.
Reload(p) ==
  /\ Mishap
  /\ reader' = [reader EXCEPT ![p] = NoReader]
  /\ replay' = [replay EXCEPT ![p] = NoReplay]
  /\ queue' = [queue EXCEPT ![p] = <<>>]
  /\ call' = [c \in Caller |-> IF PageOf[c] = p THEN Idle ELSE call[c]]
  /\ UNCHANGED <<nodeVars, cache, answer>>
-----------------------------------------------------------------------------
\* The desk is created in ledger Start; the network has one ledger before it.
Init ==
  /\ closed = 1 /\ emitted = {} /\ oldest = 1 /\ head = 1
  /\ cache = [cursor |-> NoCursor, acc |-> <<>>, fatal |-> FALSE]
  /\ reader = [p \in Page |-> NoReader] /\ replay = [p \in Page |-> NoReplay]
  /\ queue = [p \in Page |-> <<>>] /\ call = [c \in Caller |-> Idle]
  /\ answer = [c \in Caller |-> <<>>] /\ mishaps = 0

Step(c) ==
  \/ LoadState(c) \/ FetchPage(c) \/ RangeError(c) \/ IngestEvent(c) \/ EndPage(c)
  \/ ValidateReplay(c) \/ MarkFatal(c) \/ RebuildNoteTree(c) \/ CacheReplay(c)

Next ==
  \/ CloseLedger({})
  \/ closed + 1 >= Start /\ CloseLedger({closed + 1})
  \/ IndexLedger \/ Lag \/ Forget
  \/ \E c \in Caller : \/ Begin(c) \/ Step(c) \/ Fault(c)
  \/ \E p \in Page : Reload(p)

\* The node indexes what is closed, the pollers poll and their calls run.
Fairness ==
  /\ WF_eventVars(IndexLedger)
  /\ \A c \in Caller : WF_eventVars(Begin(c)) /\ WF_eventVars(Step(c))

Spec == Init /\ [][Next]_eventVars /\ Fairness
-----------------------------------------------------------------------------
\* A history that was read up to a cursor misses nothing but what the node no
\* longer had, and has nothing twice or out of order.
Coherent(cursor, acc) ==
  /\ \A i, j \in DOMAIN acc : i < j => acc[i] < acc[j]
  /\ ToSet(acc) \subseteq emitted
  /\ \A e \in emitted : e <= cursor => e \in ToSet(acc) \/ e < oldest

\* The history in memory and the one in the cache miss only forgotten events,
\* through concurrent callers, cursors outside the node's ledgers, failed calls
\* and reloads ("overlapping fetches can never double-append the same event").
MissesOnlyForgotten ==
  /\ Coherent(cache.cursor, cache.acc)
  /\ \A p \in Page : reader[p] # NoReader => Coherent(reader[p].cursor, Acc(p))

\* A caller's answer has in the end every event that the node has kept, unless
\* the cache is marked fatal.
CatchesUp ==
  \A c \in Caller :
    <>[](cache.fatal \/ \A e \in emitted : e \in ToSet(answer[c]) \/ e < oldest)

\* "Callers rebuild the tree from these events on every read": when no read is
\* in flight, a tree that the next read would take from the replay cache is the
\* tree of the reader's events.
RebuiltOnEveryRead ==
  \A p \in Page :
    queue[p] = <<>> /\ reader[p] # NoReader /\ replay[p].count = Len(Acc(p)) =>
      replay[p].tree = Acc(p)

\* "Return the full insertion-ordered tree-event list": the callers pass a
\* validator, so no answer lacks an event.
FullHistory ==
  \A c \in Caller : Validated => IsPrefix(answer[c], Log)
=============================================================================

--------------------------- MODULE BrowserProofs ---------------------------
(***************************************************************************)
(* Theorems about what a browser keeps: the account of a tab and the       *)
(* account's history, and the copy of the order book, for any number of    *)
(* accounts, notes, events, orders, tabs, switches and failures.           *)
(*                                                                         *)
(* That the modes agree when nothing is under way is not inductive: it     *)
(* rests on what the login and the backup have still to do, which ModeInv  *)
(* says, and on there being one setMode at a time, which QueueInv says.    *)
(*                                                                         *)
(* The copy of the book is proved of one open page.  A row says what is    *)
(* left of an order and when it came; Matches relates the rows to a side   *)
(* after a given event, Mixed those of a recovery, which copied a later    *)
(* side and applies the earlier events to it.  IndexInv says which of the  *)
(* two holds at every step of a pass.                                      *)
(***************************************************************************)
EXTENDS Account, Activity, BookIndex, MatchingProofs


By == {"none", "setMode", "effect", "note"}

HasSetMode(q) == \E i \in DOMAIN q : q[i] = "setMode"
OneSetMode(q) == \A i, j \in DOMAIN q : q[i] = "setMode" /\ q[j] = "setMode" => i = j

TabType ==
  /\ mode \in Mode /\ activeMode \in Mode /\ backend \in BOOLEAN /\ waiting \in BOOLEAN
  /\ switching \in {"no", "login", "sync", "done"}
  /\ seen \in [wallet : Wallet \cup {None}, mode : Mode]
  /\ wallet \in Wallet \cup {None}
  /\ queue \in Seq(By)
  /\ sync.by \in By
  /\ sync = [by |-> sync.by, account |-> sync.account, at |-> sync.at, notes |-> sync.notes]

\* The backup of a setMode waits or runs, and there is one at most.
QueueInv ==
  /\ OneSetMode(queue)
  /\ HasSetMode(queue) => switching = "sync"
  /\ sync.by = "setMode" => switching = "sync" /\ ~HasSetMode(queue)

Agree == activeMode = mode /\ backend = (mode = "trusted")

\* What recovery.ts has, when the last commit saw the mode of now; and while
\* setMode waits for its backup, what it is going to need.
ModeInv ==
  /\ switching # "no" => mode = "trustless"
  /\ waiting => seen.mode = "trusted"
  /\ switching \in {"no", "login"} /\ seen.mode = mode => Agree
  /\ switching \in {"sync", "done"} =>
       ~waiting /\ (seen.mode = "trusted" => activeMode = "trusted" /\ backend)

IInv == TabType /\ QueueInv /\ ModeInv
-----------------------------------------------------------------------------
(***************************************************************************)
(* Queues of backups.                                                      *)
(***************************************************************************)

\* A call of another kind changes nothing for setMode.
LEMMA OtherCall ==
  ASSUME NEW q \in Seq(By), NEW x \in By, x # "setMode"
  PROVE  /\ Append(q, x) \in Seq(By)
         /\ HasSetMode(Append(q, x)) => HasSetMode(q)
         /\ OneSetMode(q) => OneSetMode(Append(q, x))
<1>1. /\ Append(q, x) \in Seq(By) /\ Len(Append(q, x)) = Len(q) + 1
      /\ \A i \in 1..Len(q) : Append(q, x)[i] = q[i]
      /\ Append(q, x)[Len(q) + 1] = x
  BY AppendProperties
<1>2. /\ DOMAIN q = 1..Len(q) /\ Len(q) \in Nat
      /\ DOMAIN Append(q, x) = 1..(Len(q) + 1)
  BY <1>1, LenProperties
<1>3. \A i \in DOMAIN Append(q, x) :
        Append(q, x)[i] = "setMode" => i \in DOMAIN q /\ q[i] = "setMode"
  BY <1>1, <1>2
<1> QED BY <1>1, <1>3 DEF HasSetMode, OneSetMode

\* The first setMode is the only one.
LEMMA SetModeCall ==
  ASSUME NEW q \in Seq(By), ~HasSetMode(q)
  PROVE  Append(q, "setMode") \in Seq(By) /\ OneSetMode(Append(q, "setMode"))
<1> DEFINE r == Append(q, "setMode")
<1>1. /\ r \in Seq(By) /\ Len(r) = Len(q) + 1
      /\ \A i \in 1..Len(q) : r[i] = q[i]
  BY AppendProperties DEF By
<1>2. DOMAIN q = 1..Len(q) /\ Len(q) \in Nat /\ DOMAIN r = 1..(Len(q) + 1)
  BY <1>1, LenProperties
<1>3. \A i \in DOMAIN r : r[i] = "setMode" => i = Len(q) + 1
  BY <1>1, <1>2 DEF HasSetMode
<1> QED BY <1>1, <1>3 DEF OneSetMode

\* When the first call is taken, no setMode is left behind it.
LEMMA NextCall ==
  ASSUME NEW q \in Seq(By), q # <<>>, OneSetMode(q)
  PROVE  /\ Tail(q) \in Seq(By) /\ Head(q) \in By /\ OneSetMode(Tail(q))
         /\ HasSetMode(Tail(q)) => HasSetMode(q)
         /\ Head(q) = "setMode" => HasSetMode(q) /\ ~HasSetMode(Tail(q))
<1>1. /\ Head(q) \in By /\ Head(q) = q[1] /\ Tail(q) \in Seq(By) /\ Len(Tail(q)) = Len(q) - 1
      /\ \A i \in 1..Len(Tail(q)) : Tail(q)[i] = q[i + 1]
  BY HeadTailProperties
<1>2. /\ Len(q) \in Nat \ {0} /\ DOMAIN q = 1..Len(q) /\ DOMAIN Tail(q) = 1..(Len(q) - 1)
  BY <1>1, LenProperties, EmptySeq
<1>3. \A i \in DOMAIN Tail(q) : i + 1 \in DOMAIN q /\ i + 1 # 1 /\ Tail(q)[i] = q[i + 1]
  BY <1>1, <1>2
<1>4. 1 \in DOMAIN q /\ DOMAIN Tail(q) \subseteq Int
  BY <1>2
<1>5. OneSetMode(Tail(q))
  BY <1>3, <1>4 DEF OneSetMode
<1>6. HasSetMode(Tail(q)) => HasSetMode(q)
  BY <1>3 DEF HasSetMode
<1>7. Head(q) = "setMode" => HasSetMode(q) /\ ~HasSetMode(Tail(q))
  BY <1>1, <1>3, <1>4 DEF HasSetMode, OneSetMode
<1> QED BY <1>1, <1>5, <1>6, <1>7
-----------------------------------------------------------------------------
(***************************************************************************)
(* The modes agree.                                                        *)
(***************************************************************************)

\* What touches neither modes nor the queue of backups keeps them as they are.
LEMMA Elsewhere ==
  ASSUME ModeInv, QueueInv, UNCHANGED <<mode, switching, seen, waiting, modeVars>>,
         UNCHANGED queue, sync'.by = sync.by
  PROVE  ModeInv' /\ QueueInv'
BY DEF ModeInv, QueueInv, Agree, modeVars, HasSetMode, OneSetMode

\* The user switches the mode.
LEMMA UserStep ==
  ASSUME IInv, Trust \/ Distrust
  PROVE  ModeInv' /\ QueueInv'
<1>1. CASE Trust
  BY <1>1 DEF Trust, IInv, TabType, ModeInv, QueueInv, Agree, modeVars, syncVars, HasSetMode,
              OneSetMode
<1>2. CASE Distrust
  <2>1. activeMode' = "trustless" /\ backend' = FALSE /\ mode' = "trustless"
    BY <1>2 DEF Distrust, SetRecovery
  <2> QED BY <1>2, <2>1 DEF Distrust, IInv, TabType, ModeInv, QueueInv, Agree, syncVars,
             HasSetMode, OneSetMode
<1> QED BY <1>1, <1>2

\* A commit tells recovery.ts of a new mode.
LEMMA CommitStep == ASSUME IInv, Commit PROVE ModeInv' /\ QueueInv'
<1>1. QueueInv'
  BY DEF Commit, IInv, QueueInv, syncVars, HasSetMode, OneSetMode
<1>2. /\ mode \in Mode /\ activeMode \in Mode /\ backend \in BOOLEAN /\ switching' = switching
      /\ seen' = [wallet |-> wallet, mode |-> mode] /\ seen'.mode = mode
  BY DEF Commit, IInv, TabType
<1>3. CASE wallet = None /\ mode = "trusted"
  <2>1. mode' = "trustless" /\ switching = "no" /\ waiting' = FALSE
    BY <1>3 DEF Commit, LogoutEffect, LoginEffect, IInv, ModeInv, TabType
  <2> QED BY <1>1, <1>2, <1>3, <2>1 DEF ModeInv
<1>4. CASE wallet # None /\ mode = "trusted"
  <2>1. mode' = mode /\ switching = "no" /\ waiting' = TRUE
    BY <1>4 DEF Commit, LogoutEffect, LoginEffect, IInv, ModeInv, TabType
  <2>2. activeMode' = "trusted" /\ backend' = TRUE
    BY <1>4, <1>2, <2>1 DEF Commit, ModeEffect, SetRecovery, IInv, ModeInv, Agree, modeVars
  <2> QED BY <1>1, <1>2, <1>4, <2>1, <2>2 DEF ModeInv, Agree
<1>5. CASE mode = "trustless"
  <2>1. mode' = mode /\ waiting' = FALSE
    BY <1>5 DEF Commit, LogoutEffect, LoginEffect
  <2>2. switching \in {"no", "login"} => activeMode' = "trustless" /\ backend' = FALSE
    BY <1>5, <1>2, <2>1 DEF Commit, ModeEffect, SetRecovery, IInv, ModeInv, Agree, modeVars
  <2> QED BY <1>1, <1>2, <1>5, <2>1, <2>2 DEF ModeInv, Agree
<1> QED BY <1>2, <1>3, <1>4, <1>5 DEF Mode

\* The queue after a login has what waited for it.
LEMMA LoggedInQueue ==
  ASSUME queue \in Seq(By), LoggedIn
  PROVE  LET first == IF switching = "login" THEN Append(queue, "setMode") ELSE queue
         IN  queue' = IF waiting THEN Append(first, "effect") ELSE first
<1> DEFINE first == IF switching = "login" THEN Append(queue, "setMode") ELSE queue
           a == IF switching = "login" THEN <<"setMode">> ELSE <<>>
           b == IF waiting THEN <<"effect">> ELSE <<>>
<1>1. queue' = (queue \o a) \o b
  BY DEF LoggedIn
<1>2. queue \o a = first /\ first \in Seq(By)
  BY AppendIsConcat, ConcatEmptySeq, AppendProperties DEF By
<1>3. first \o b = IF waiting THEN Append(first, "effect") ELSE first
  BY <1>2, AppendIsConcat, ConcatEmptySeq DEF By
<1> QED BY <1>1, <1>2, <1>3

\* A login that ends well.
LEMMA LoggedInStep == ASSUME IInv, LoggedIn PROVE ModeInv' /\ QueueInv' /\ queue' \in Seq(By)
<1> DEFINE first == IF switching = "login" THEN Append(queue, "setMode") ELSE queue
<1>1. queue' = IF waiting THEN Append(first, "effect") ELSE first
  BY LoggedInQueue DEF IInv, TabType
<1>2. /\ waiting' = FALSE /\ UNCHANGED <<mode, seen, sync>>
      /\ switching' = IF switching = "login" THEN "sync" ELSE switching
      /\ waiting \in BOOLEAN /\ queue \in Seq(By)
  BY DEF LoggedIn, IInv, TabType
<1>3. first \in Seq(By) /\ OneSetMode(first) /\ (HasSetMode(first) => switching' = "sync")
  <2>1. CASE switching = "login"
    <3>1. ~HasSetMode(queue)
      BY <2>1 DEF IInv, QueueInv
    <3> QED BY <1>2, <2>1, <3>1, SetModeCall
  <2>2. CASE switching # "login"
    BY <1>2, <2>2 DEF IInv, QueueInv
  <2> QED BY <2>1, <2>2
<1> HIDE DEF first
<1>4. queue' \in Seq(By) /\ OneSetMode(queue') /\ (HasSetMode(queue') => HasSetMode(first))
  <2>1. CASE waiting
    BY <1>1, <1>3, <2>1, OtherCall DEF By
  <2>2. CASE ~waiting
    BY <1>1, <1>3, <2>2
  <2> QED BY <2>1, <2>2
<1>5. sync.by = "setMode" => switching' = "sync" /\ ~HasSetMode(queue')
  <2> SUFFICES ASSUME sync.by = "setMode" PROVE switching' = "sync" /\ ~HasSetMode(queue')
    OBVIOUS
  <2>1. switching = "sync" /\ ~HasSetMode(queue)
    BY DEF IInv, QueueInv
  <2> QED BY <1>2, <1>4, <2>1 DEF first
<1>6. QueueInv'
  <2>1. OneSetMode(queue)' /\ (HasSetMode(queue)' => switching' = "sync")
    BY <1>3, <1>4 DEF OneSetMode, HasSetMode
  <2>2. sync'.by = "setMode" => switching' = "sync" /\ ~HasSetMode(queue)'
    BY <1>2, <1>5 DEF HasSetMode
  <2> QED BY <2>1, <2>2 DEF QueueInv
<1>7. ModeInv'
  <2>1. CASE switching = "login" \/ waiting
    <3>1. activeMode' = "trusted" /\ backend' = TRUE
      BY <2>1 DEF LoggedIn, SetRecovery
    <3> QED BY <1>2, <2>1, <3>1 DEF IInv, TabType, ModeInv, Agree
  <2>2. CASE ~(switching = "login" \/ waiting)
    <3>1. UNCHANGED modeVars
      BY <2>2 DEF LoggedIn
    <3> QED BY <1>2, <2>2, <3>1 DEF IInv, TabType, ModeInv, Agree, modeVars
  <2> QED BY <2>1, <2>2
<1> QED BY <1>4, <1>6, <1>7

\* A login that fails.
LEMMA LoginFailedStep == ASSUME IInv, LoginFailed PROVE ModeInv' /\ QueueInv'
<1>1. QueueInv'
  BY DEF LoginFailed, IInv, QueueInv, syncVars, HasSetMode, OneSetMode
<1>2. CASE waiting
  <2>1. activeMode' = "trustless" /\ backend' = FALSE /\ mode' = "trustless" /\ waiting' = FALSE
    BY <1>2 DEF LoginFailed, SetRecovery
  <2> QED BY <1>1, <1>2, <2>1 DEF LoginFailed, IInv, TabType, ModeInv, Agree
<1>3. CASE ~waiting /\ switching = "login"
  <2>1. /\ backend' = FALSE /\ activeMode' = activeMode /\ mode' = mode /\ waiting' = FALSE
        /\ switching' = "no" /\ seen' = seen
    BY <1>3 DEF LoginFailed
  <2> QED BY <1>1, <1>3, <2>1 DEF IInv, TabType, ModeInv, Agree
<1>4. CASE ~waiting /\ switching # "login"
  BY <1>1, <1>4 DEF LoginFailed, IInv, ModeInv, Agree, modeVars
<1> QED BY <1>2, <1>3, <1>4

\* The next backup starts, or ends at once.
LEMMA NextSyncStep == ASSUME IInv, SyncRecoveryNow PROVE ModeInv' /\ QueueInv' /\ TabType'
<1> PICK q \in Seq(By) : q = queue
  BY DEF IInv, TabType
<1>1. /\ q # <<>> /\ OneSetMode(q) /\ queue' = Tail(q) /\ sync.by = "none"
      /\ UNCHANGED <<wallet, mode, seen, waiting, activeMode, backend>>
  BY DEF SyncRecoveryNow, NoSync, IInv, QueueInv, loginVars, modeVars
<1>2. /\ Tail(q) \in Seq(By) /\ Head(q) \in By /\ OneSetMode(Tail(q))
      /\ HasSetMode(Tail(q)) => HasSetMode(q)
      /\ Head(q) = "setMode" => HasSetMode(q) /\ ~HasSetMode(Tail(q))
  BY <1>1, NextCall
<1>3. HasSetMode(q) => switching = "sync"
  BY DEF IInv, QueueInv
<1>4. OneSetMode(queue)' /\ (HasSetMode(queue)' <=> HasSetMode(Tail(q)))
  BY <1>1, <1>2 DEF OneSetMode, HasSetMode
<1>5. CASE active # None /\ backend
  <2>1. /\ sync' = [by |-> Head(q), account |-> active, at |-> "get", notes |-> {}]
        /\ switching' = switching
    BY <1>5 DEF SyncRecoveryNow
  <2>2. QueueInv'
    BY <1>2, <1>3, <1>4, <2>1 DEF QueueInv
  <2>3. ModeInv'
    BY <1>1, <2>1 DEF IInv, ModeInv, Agree
  <2> QED BY <1>1, <1>2, <2>1, <2>2, <2>3 DEF IInv, TabType
<1>6. CASE ~(active # None /\ backend)
  <2>1. /\ sync' = sync
        /\ switching' = IF Head(q) = "setMode" THEN "done" ELSE switching
    BY <1>6 DEF SyncRecoveryNow, SyncEnds
  <2>2. QueueInv'
    BY <1>1, <1>2, <1>3, <1>4, <2>1 DEF QueueInv
  <2>3. ModeInv'
    BY <1>1, <1>2, <1>3, <2>1 DEF IInv, ModeInv, Agree
  <2> QED BY <1>1, <1>2, <2>1, <2>2, <2>3 DEF IInv, TabType
<1> QED BY <1>5, <1>6

\* A backup ends, and setMode goes on if it was its own.
LEMMA SyncEndStep ==
  ASSUME IInv, SyncPut \/ SyncFails
  PROVE  ModeInv' /\ QueueInv' /\ TabType'
<1>1. /\ sync' = NoSync /\ switching' = IF sync.by = "setMode" THEN "done" ELSE switching
      /\ UNCHANGED <<wallet, mode, seen, waiting, activeMode, backend, queue>>
  BY DEF SyncPut, SyncFails, SyncEnds, loginVars, modeVars
<1>2. QueueInv'
  BY <1>1 DEF IInv, QueueInv, NoSync, HasSetMode, OneSetMode
<1>3. ModeInv'
  BY <1>1 DEF IInv, QueueInv, ModeInv, Agree
<1> QED BY <1>1, <1>2, <1>3 DEF IInv, TabType, NoSync, By

\* A note is staged: its backup waits.
LEMMA NoteStep ==
  ASSUME IInv, NEW n \in NoteName, StageRecoverableNotes(n)
  PROVE  ModeInv' /\ QueueInv' /\ TabType'
<1> PICK q \in Seq(By) : q = queue
  BY DEF IInv, TabType
<1>1. /\ queue' = Append(q, "note") /\ sync' = sync /\ OneSetMode(q)
      /\ UNCHANGED <<wallet, mode, switching, seen, waiting, activeMode, backend>>
  BY DEF StageRecoverableNotes, walletVars, loginVars, modeVars, IInv, QueueInv
<1>2. /\ Append(q, "note") \in Seq(By) /\ OneSetMode(Append(q, "note"))
      /\ HasSetMode(Append(q, "note")) => HasSetMode(q)
  BY <1>1, OtherCall DEF By
<1>3. OneSetMode(queue)' /\ (HasSetMode(queue)' => HasSetMode(q))
  BY <1>1, <1>2 DEF OneSetMode, HasSetMode
<1>4. QueueInv'
  BY <1>1, <1>3 DEF IInv, QueueInv
<1>5. ModeInv'
  BY <1>1 DEF IInv, ModeInv, Agree
<1> QED BY <1>1, <1>2, <1>4, <1>5 DEF IInv, TabType

\* setMode ends: the mode is what recovery.ts was told before.
LEMMA ModeSetStep == ASSUME IInv, ModeSet PROVE ModeInv' /\ QueueInv' /\ TabType'
<1>1. /\ switching = "done" /\ switching' = "no" /\ mode' = "trusted"
      /\ UNCHANGED <<wallet, seen, waiting, activeMode, backend, queue, sync>>
  BY DEF ModeSet, loginVars, modeVars, syncVars
<1>2. QueueInv'
  BY <1>1 DEF IInv, QueueInv, HasSetMode, OneSetMode
<1>3. ModeInv'
  BY <1>1 DEF IInv, ModeInv, Agree
<1> QED BY <1>1, <1>2, <1>3 DEF IInv, TabType, Mode

\* The login asks the server, signs and ends.
LEMMA LoginStep ==
  ASSUME IInv, CheckSession \/ Authenticate \/ AuthenticateFails
  PROVE  ModeInv' /\ QueueInv' /\ TabType'
<1>1. CASE LoggedIn
  <2>1. ModeInv' /\ QueueInv' /\ queue' \in Seq(By)
    BY <1>1, LoggedInStep
  <2>2. /\ UNCHANGED <<wallet, mode, seen, sync>> /\ waiting' = FALSE
        /\ switching' = IF switching = "login" THEN "sync" ELSE switching
    BY <1>1 DEF LoggedIn
  <2>3. activeMode' \in Mode /\ backend' \in BOOLEAN
    BY <1>1 DEF LoggedIn, SetRecovery, Mode, modeVars, IInv, TabType
  <2> QED BY <2>1, <2>2, <2>3 DEF IInv, TabType
<1>2. CASE LoginFailed
  <2>1. ModeInv' /\ QueueInv'
    BY <1>2, LoginFailedStep
  <2>2. /\ UNCHANGED <<wallet, seen, queue, sync>> /\ waiting' = FALSE
        /\ mode' = IF waiting THEN "trustless" ELSE mode
        /\ switching' = IF switching = "login" THEN "no" ELSE switching
    BY <1>2 DEF LoginFailed, syncVars
  <2>3. activeMode' \in Mode /\ backend' \in BOOLEAN
    BY <1>2 DEF LoginFailed, SetRecovery, Mode, modeVars, IInv, TabType
  <2> QED BY <2>1, <2>2, <2>3 DEF IInv, TabType, Mode
<1>3. CASE UNCHANGED <<waiting, walletVars, modeVars, syncVars>>
  BY <1>3, Elsewhere DEF walletVars, modeVars, syncVars, IInv, TabType
<1> QED BY <1>1, <1>2, <1>3 DEF CheckSession, Authenticate, AuthenticateFails

\* The user and the effects: the types.
LEMMA RenderStep == ASSUME IInv, Trust \/ Distrust \/ Commit PROVE TabType'
<1>1. CASE Trust
  BY <1>1 DEF Trust, IInv, TabType, modeVars, syncVars
<1>2. CASE Distrust
  <2>1. activeMode' = "trustless" /\ backend' = FALSE
    BY <1>2 DEF Distrust, SetRecovery
  <2> QED BY <1>2, <2>1 DEF Distrust, IInv, TabType, Mode, syncVars
<1>3. CASE Commit
  <2>1. activeMode' \in Mode /\ backend' \in BOOLEAN
    BY <1>3 DEF Commit, ModeEffect, SetRecovery, modeVars, Mode, IInv, TabType
  <2>2. mode' \in Mode
    BY <1>3 DEF Commit, LogoutEffect, Mode, IInv, TabType
  <2>3. waiting' \in BOOLEAN
    BY <1>3 DEF Commit, LoginEffect
  <2>4. /\ seen' = [wallet |-> wallet, mode |-> mode]
        /\ UNCHANGED <<wallet, switching, queue, sync>>
    BY <1>3 DEF Commit, syncVars
  <2> QED BY <2>1, <2>2, <2>3, <2>4 DEF IInv, TabType
<1> QED BY <1>1, <1>2, <1>3

\* What has nothing to do with modes: accounts, sessions, the reads of a backup.
LEMMA ElsewhereStep ==
  ASSUME IInv,
         \/ \E a \in Wallet \cup {None} : SelectWallet(a)
         \/ SessionExpires \/ Selection \/ SyncMerge \/ SyncRead
  PROVE  ModeInv' /\ QueueInv' /\ TabType'
<1>1. /\ UNCHANGED <<mode, switching, seen, waiting, modeVars, queue>>
      /\ wallet' \in Wallet \cup {None}
  BY DEF SelectWallet, SessionExpires, Selection, GetCached, DeriveLocalSession, PutCached,
         RestoreFromBackend, SyncMerge, SyncRead, walletVars, loginVars, syncVars, IInv, TabType
<1>2. /\ sync'.by = sync.by
      /\ sync' = [by |-> sync'.by, account |-> sync'.account, at |-> sync'.at,
                  notes |-> sync'.notes]
  <2>1. CASE SyncMerge
    BY <2>1 DEF SyncMerge, SyncGoes, IInv, TabType
  <2>2. CASE SyncRead
    BY <2>2 DEF SyncRead, IInv, TabType
  <2>3. CASE UNCHANGED sync
    BY <2>3 DEF IInv, TabType
  <2> QED BY <2>1, <2>2, <2>3 DEF SelectWallet, SessionExpires, Selection, GetCached,
             DeriveLocalSession, PutCached, RestoreFromBackend, syncVars
<1>3. ModeInv' /\ QueueInv'
  BY <1>1, <1>2, Elsewhere DEF IInv
<1> QED BY <1>1, <1>2, <1>3 DEF IInv, TabType, modeVars

\* What a tab starts with.
LEMMA InitAgree == ASSUME Init PROVE IInv
<1>1. TabType
  <2>1. queue \in Seq(By)
    BY EmptySeq DEF Init
  <2> QED BY <2>1 DEF Init, TabType, Mode, NoSync, By
<1>2. QueueInv
  BY DEF Init, QueueInv, NoSync, OneSetMode, HasSetMode
<1>3. ModeInv
  BY DEF Init, ModeInv, Agree
<1> QED BY <1>1, <1>2, <1>3 DEF IInv

\* Every step of a tab.
LEMMA ModeStep == ASSUME IInv, [Next]_accountVars PROVE IInv'
<1>1. CASE Trust \/ Distrust
  BY <1>1, UserStep, RenderStep DEF IInv
<1>2. CASE Commit
  BY <1>2, CommitStep, RenderStep DEF IInv
<1>3. CASE ModeSet
  BY <1>3, ModeSetStep DEF IInv
<1>4. CASE CheckSession \/ Authenticate \/ AuthenticateFails
  BY <1>4, LoginStep DEF IInv
<1>5. CASE \E n \in NoteName : StageRecoverableNotes(n)
  BY <1>5, NoteStep DEF IInv
<1>6. CASE SyncRecoveryNow
  BY <1>6, NextSyncStep DEF IInv
<1>7. CASE SyncPut \/ SyncFails
  BY <1>7, SyncEndStep DEF IInv
<1>8. CASE \/ \E a \in Wallet \cup {None} : SelectWallet(a)
           \/ SessionExpires \/ Selection \/ SyncMerge \/ SyncRead
  BY <1>8, ElsewhereStep DEF IInv
<1>9. CASE UNCHANGED accountVars
  BY <1>9, Elsewhere DEF accountVars, walletVars, loginVars, modeVars, syncVars, IInv, TabType
<1> QED BY <1>1, <1>2, <1>3, <1>4, <1>5, <1>6, <1>7, <1>8, <1>9 DEF Next, Login, Sync

\* When no switch of the mode is under way, recovery.ts has the mode that is
\* shown, and a backend in the trusted mode only (WalletContext,
\* StorageModeContext, setRecoveryBackend): for any number of accounts, of notes,
\* of switches, of logins that fail or come late and of backups that fail.
THEOREM ModesStayAgreed == Spec => []ModesAgree
<1>1. Init => IInv
  BY InitAgree
<1>2. IInv /\ [Next]_accountVars => IInv'
  BY ModeStep
<1>3. IInv => ModesAgree
  BY DEF IInv, ModeInv, Agree, ModesAgree, AtRest
<1> QED BY <1>1, <1>2, <1>3, PTL DEF Spec
-----------------------------------------------------------------------------
(***************************************************************************)
(* Backups.                                                                *)
(***************************************************************************)

\* What a sync is about to put is of the account that it began with.
BackupInv ==
  /\ backup = [a \in Wallet |-> backup[a]] /\ BackupsAreOwn
  /\ sync = [by |-> sync.by, account |-> sync.account, at |-> sync.at, notes |-> sync.notes]
  /\ \A n \in sync.notes : n.account = sync.account

\* Every step keeps backups to their account.
LEMMA BackupStep == ASSUME BackupInv, [Next]_accountVars PROVE BackupInv'
<1>1. CASE SyncRecoveryNow
  BY <1>1 DEF SyncRecoveryNow, noteVars, BackupInv, BackupsAreOwn
<1>2. CASE SyncMerge
  BY <1>2 DEF SyncMerge, SyncGoes, BackupInv, BackupsAreOwn
<1>3. CASE SyncRead
  BY <1>3 DEF SyncRead, RecoveryNotes, noteVars, BackupInv, BackupsAreOwn
<1>4. CASE SyncPut
  <2>1. sync' = NoSync /\ backup' = [backup EXCEPT ![sync.account] = sync.notes]
    BY <1>4 DEF SyncPut
  <2>2. /\ backup' = [a \in Wallet |-> backup'[a]]
        /\ \A a \in Wallet : backup'[a] = IF a = sync.account THEN sync.notes ELSE backup[a]
    BY <2>1 DEF BackupInv
  <2>3. BackupsAreOwn'
    BY <2>2 DEF BackupInv, BackupsAreOwn
  <2> QED BY <2>1, <2>2, <2>3 DEF BackupInv, NoSync
<1>5. CASE SyncFails
  BY <1>5 DEF SyncFails, NoSync, noteVars, BackupInv, BackupsAreOwn
<1>6. CASE UNCHANGED <<sync, backup>>
  BY <1>6 DEF BackupInv, BackupsAreOwn
<1>7. CASE \/ \E a \in Wallet \cup {None} : SelectWallet(a)
           \/ Trust \/ Distrust \/ Commit \/ ModeSet
           \/ AuthenticateFails \/ SessionExpires
  BY <1>6, <1>7 DEF SelectWallet, Trust, Distrust, Commit, ModeSet, AuthenticateFails,
                    LoginFailed, SessionExpires, syncVars, noteVars
<1>8. CASE \/ Login \/ Selection
           \/ \E n \in NoteName : StageRecoverableNotes(n)
           \/ UNCHANGED accountVars
  <2>1. UNCHANGED <<sync, backup>>
    BY <1>8 DEF Login, CheckSession, Authenticate, LoggedIn, Selection, GetCached,
                DeriveLocalSession, PutCached, RestoreFromBackend, StageRecoverableNotes,
                accountVars, syncVars, noteVars
  <2> QED BY <1>6, <2>1
<1> QED BY <1>1, <1>2, <1>3, <1>4, <1>5, <1>7, <1>8 DEF Next, Sync

\* The backup of an account has notes of that account only (recovery.ts,
\* syncRecoveryNow and recoveryNotes), for any number of accounts and notes and
\* any interleaving of switches, sessions and backups.
THEOREM BackupsStayOwn == Spec => []BackupsAreOwn
<1>1. Init => BackupInv
  BY DEF Init, BackupInv, BackupsAreOwn, NoSync
<1>2. BackupInv /\ [Next]_accountVars => BackupInv'
  BY BackupStep
<1>3. BackupInv => BackupsAreOwn
  BY DEF BackupInv
<1> QED BY <1>1, <1>2, <1>3, PTL DEF Spec
-----------------------------------------------------------------------------
(***************************************************************************)
(* The history.  A cursor says that what it covers was exchanged; so does  *)
(* the cursor that an exchange under way is going to store, once what it   *)
(* carries has arrived.  Keys and rows only grow, whoever records: a new   *)
(* event is above every cursor, the stored ones and those under way.       *)
(***************************************************************************)

\* What is recorded anywhere.
Recorded == Event \cup OtherEvent

\* What an exchange knows.
ExchangeFields == {"at", "batch", "remote", "upto"}

\* The events have keys that the store gave or was given, and the cursors are
\* among them and the server's.
HistoryInv ==
  /\ keys \in Nat \ {0} /\ IsFiniteSet(local)
  /\ \A e \in local : e.cursor \in Nat /\ e.cursor < keys /\ e.id \in Recorded
  /\ server \in Seq(Recorded)
  /\ DOMAIN cursor = {"push", "pull"} /\ cursor.push \in Nat /\ cursor.push < keys
  /\ cursor.pull \in 0..Len(server)
  /\ DOMAIN exchange = Tab /\ \A t \in Tab : DOMAIN exchange[t] = ExchangeFields

\* A batch on its way has all that its cursor will say is on the server.
SendInv(t) ==
  LET batch == exchange[t].batch
  IN  exchange[t].at \in {"send", "sent"} =>
        /\ batch.sent \in Seq(local) /\ batch.upto \in Nat /\ batch.upto < keys
        /\ \A e \in local : ~e.remote /\ e.cursor <= batch.upto =>
             e.id \in OnServer \/ (exchange[t].at = "send" /\ e \in ToSet(batch.sent))

\* What was pulled is in the browser, or still to be stored.
StoreInv(t) ==
  exchange[t].at \in {"store", "add"} =>
    /\ exchange[t].remote \in Seq([cursor : Nat, id : Recorded])
    /\ exchange[t].upto \in 0..Len(server)
    /\ \A i \in 1..exchange[t].upto :
         server[i] \in Ids \/ \E r \in ToSet(exchange[t].remote) : r.id = server[i]
    /\ exchange[t].at = "add" => exchange[t].remote # <<>>

\* The inductive invariant of the history.
HistoryIInv ==
  HistoryInv /\ CursorsHonest /\ \A t \in Tab : SendInv(t) /\ StoreInv(t)

\* What every step keeps of the browser's events and of the server's.
Growth ==
  /\ local \subseteq local' /\ keys <= keys'
  /\ \A e \in local' : e \in local \/ e.remote \/ e.cursor >= keys
  /\ Len(server) <= Len(server') /\ \A i \in 1..Len(server) : server'[i] = server[i]

\* Nothing that is recorded is lost.
LEMMA Grown ==
  ASSUME HistoryInv, HistoryInv', Growth
  PROVE  Ids \subseteq Ids' /\ OnServer \subseteq OnServer'
<1>1. Ids \subseteq Ids'
  BY DEF Growth, Ids
<1>2. OnServer \subseteq OnServer'
  <2>1. /\ DOMAIN server = 1..Len(server) /\ DOMAIN server' = 1..Len(server')
        /\ Len(server) \in Nat /\ Len(server') \in Nat
    BY DEF HistoryInv
  <2> QED
    BY <2>1 DEF OnServer, ToSet, Growth
<1> QED
  BY <1>1, <1>2

\* What a tab knows stays so while others record and exchange.
LEMMA TabStays ==
  ASSUME HistoryInv, HistoryInv', Growth, NEW t, SendInv(t), StoreInv(t),
         exchange'[t] = exchange[t]
  PROVE  SendInv(t)' /\ StoreInv(t)'
<1>1. Ids \subseteq Ids' /\ OnServer \subseteq OnServer'
  BY Grown
<1>2. SendInv(t)'
  <2> DEFINE x == exchange[t]
             batch == x.batch
  <2>1. SUFFICES ASSUME x.at \in {"send", "sent"}
                 PROVE  SendInv(t)'
    BY DEF SendInv
  <2>2. /\ batch.sent \in Seq(local) /\ batch.upto \in Nat /\ batch.upto < keys
        /\ \A e \in local : ~e.remote /\ e.cursor <= batch.upto =>
             e.id \in OnServer \/ (x.at = "send" /\ e \in ToSet(batch.sent))
    BY <2>1 DEF SendInv
  <2>3. batch.sent \in Seq(local') /\ batch.upto < keys' /\ keys \in Nat /\ keys' \in Nat
    BY <2>2 DEF Growth, HistoryInv
  <2>4. \A e \in local' : ~e.remote /\ e.cursor <= batch.upto => e \in local
    BY <2>2 DEF Growth, HistoryInv
  <2> QED
    BY <1>1, <2>2, <2>3, <2>4 DEF SendInv
<1>3. StoreInv(t)'
  <2>1. Len(server) \in Nat /\ Len(server') \in Nat
    BY DEF HistoryInv
  <2> QED
    BY <1>1, <2>1 DEF StoreInv, Growth
<1> QED
  BY <1>2, <1>3

\* So does what the cursors say.
LEMMA CursorsStay ==
  ASSUME HistoryInv, HistoryInv', Growth, CursorsHonest, cursor' = cursor
  PROVE  CursorsHonest'
<1>1. Ids \subseteq Ids' /\ OnServer \subseteq OnServer'
  BY Grown
<1>2. \A e \in local' : ~e.remote /\ e.cursor <= cursor.push => e \in local
  BY DEF Growth, HistoryInv
<1>3. \A i \in 1..cursor.pull : server'[i] = server[i]
  BY DEF Growth, HistoryInv
<1> QED
  BY <1>1, <1>2, <1>3 DEF CursorsHonest

\* A step of one tab that leaves the cursors alone.
LEMMA TabStep ==
  ASSUME HistoryIInv, HistoryInv', Growth, NEW t \in Tab, cursor' = cursor,
         \A u \in Tab : u # t => exchange'[u] = exchange[u],
         SendInv(t)', StoreInv(t)'
  PROVE  HistoryIInv'
<1>1. CursorsHonest'
  BY CursorsStay DEF HistoryIInv
<1>2. \A u \in Tab : SendInv(u)' /\ StoreInv(u)'
  BY TabStays DEF HistoryIInv
<1> QED
  BY <1>1, <1>2 DEF HistoryIInv

\* A tab that goes where it has neither a batch nor events to store.
LEMMA OntoStep ==
  ASSUME HistoryIInv, NEW t \in Tab, NEW step, step \notin {"send", "sent", "store", "add"},
         Onto(t, step) \/ (Rest(t) /\ step = "idle"), UNCHANGED <<local, keys, cursor, server>>
  PROVE  HistoryIInv'
<1>1. /\ exchange'[t].at = step
      /\ DOMAIN exchange' = Tab /\ DOMAIN exchange'[t] = ExchangeFields
      /\ \A u \in Tab : u # t => exchange'[u] = exchange[u]
  BY DEF Onto, Rest, Resting, ExchangeFields, HistoryIInv, HistoryInv
<1>2. HistoryInv'
  BY <1>1 DEF HistoryIInv, HistoryInv
<1>3. Growth
  BY DEF Growth, HistoryIInv, HistoryInv
<1>4. SendInv(t)' /\ StoreInv(t)'
  BY <1>1 DEF SendInv, StoreInv
<1> QED
  BY <1>1, <1>2, <1>3, <1>4, TabStep

-----------------------------------------------------------------------------
\* A set that is listed has its elements in the list, each once.
LEMMA Listed ==
  ASSUME NEW S, IsFiniteSet(S), NEW s \in [1..Cardinality(S) -> S]
  PROVE  s \in Seq(S) /\ Len(s) = Cardinality(S) /\ Cardinality(S) \in Nat
<1>1. Cardinality(S) \in Nat
  BY FS_CardinalityType
<1> QED
  BY <1>1

\* The first events of a list have all that is not above their cursor.
LEMMA BatchCovers ==
  ASSUME NEW S, NEW s \in Seq(S), s # <<>>, \A e \in S : e.cursor \in Nat,
         \A i, j \in DOMAIN s : i < j => s[i].cursor < s[j].cursor
  PROVE  /\ Batch(s).sent \in Seq(S)
         /\ \E e \in S : Batch(s).upto = e.cursor
         /\ \A i \in DOMAIN s : s[i].cursor <= Batch(s).upto => s[i] \in ToSet(Batch(s).sent)
<1> DEFINE n == Min({BatchSize, Len(s)})
           first == SubSeq(s, 1, n)
<1>1. Len(s) \in Nat /\ Len(s) > 0 /\ DOMAIN s = 1..Len(s) /\ BatchSize \in Nat \ {0}
  BY EmptySeq, ActivityAssumption
<1>2. n \in 1..Len(s)
  <2>1. \E x \in {BatchSize, Len(s)} : \A y \in {BatchSize, Len(s)} : x =< y
    BY <1>1
  <2>2. n \in {BatchSize, Len(s)} /\ \A y \in {BatchSize, Len(s)} : n =< y
    BY <2>1 DEF Min
  <2> QED
    BY <1>1, <2>2
<1> HIDE DEF n
<1>3. /\ first \in Seq(S) /\ Len(first) = n /\ DOMAIN first = 1..n
      /\ \A i \in 1..n : first[i] = s[i]
  BY <1>1, <1>2
<1>4. Batch(s).sent = first /\ Batch(s).upto = MaxCursor(first)
  BY DEF Batch, FirstOf, n
<1> HIDE DEF first
<1>5. MaxCursor(first) = s[n].cursor
  <2> DEFINE C == {0} \cup {e.cursor : e \in ToSet(first)}
             m == s[n].cursor
  <2>1. m \in C
    BY <1>2, <1>3 DEF ToSet
  <2>2. m \in Nat
    BY <1>1, <1>2
  <2>3. \A y \in C : y \in Nat /\ m >= y
    <3>1. ASSUME NEW i \in 1..n
          PROVE  s[i].cursor \in Nat /\ s[i].cursor <= s[n].cursor
      <4>1. i \in DOMAIN s /\ n \in DOMAIN s /\ i \in Nat /\ n \in Nat /\ s[i].cursor \in Nat
        BY <1>1, <1>2
      <4>2. i = n \/ i < n
        BY <4>1
      <4> QED
        BY <2>2, <4>1, <4>2
    <3> QED
      BY <1>3, <2>2, <3>1 DEF ToSet
  <2> HIDE DEF C, m
  <2>4. Max(C) \in C /\ \A y \in C : Max(C) >= y
    BY <2>1, <2>3 DEF Max
  <2> DEFINE x == Max(C)
  <2>6. x \in C /\ x >= m
    BY <2>1, <2>4
  <2> HIDE DEF x
  <2>7. x \in Nat /\ m >= x
    BY <2>3, <2>6
  <2>5. Max(C) = m
    BY <2>2, <2>6, <2>7 DEF x
  <2> QED
    BY <2>5 DEF MaxCursor, C, m
<1>6. ASSUME NEW i \in DOMAIN s, s[i].cursor <= s[n].cursor
      PROVE  s[i] \in ToSet(first)
  <2>1. i \in Nat /\ n \in DOMAIN s /\ n \in Nat /\ s[i].cursor \in Nat /\ s[n].cursor \in Nat
    BY <1>1, <1>2
  <2>2. i <= n
    BY <1>6, <2>1
  <2>3. i \in 1..n
    BY <1>1, <2>1, <2>2
  <2> QED
    BY <1>3, <2>3 DEF ToSet
<1>7. s[n] \in S
  BY <1>1, <1>2
<1> QED
  BY <1>3, <1>4, <1>5, <1>6, <1>7

\* What the server inserts it adds at the end, and then it has all of them.
LEMMA InsertedAll ==
  ASSUME NEW T, NEW list \in Seq(T), NEW ids \in Seq(T), NEW new \in Inserted(list, ids)
  PROVE  /\ new \in Seq(T) /\ Len(list) <= Len(new)
         /\ \A i \in 1..Len(list) : new[i] = list[i]
         /\ ToSet(ids) \subseteq ToSet(new)
<1> DEFINE S == ToSet(ids) \ ToSet(list)
<1>1. PICK s \in [1..Cardinality(S) -> S] : new = list \o s /\ ToSet(s) = S
  BY DEF Inserted, Listings
<1>2. IsFiniteSet(S)
  <2>1. DOMAIN ids = 1..Len(ids) /\ Len(ids) \in Nat
    OBVIOUS
  <2>2. ids \in Surjection(1..Len(ids), ToSet(ids))
    BY <2>1 DEF Surjection, ToSet
  <2>3. IsFiniteSet(ToSet(ids))
    BY <2>1, <2>2, FS_Interval, FS_Surjection
  <2> QED
    BY <2>3, FS_Subset
<1>3. s \in Seq(S)
  BY <1>2, Listed
<1>4. S \subseteq T
  BY DEF ToSet
<1> HIDE DEF S
<1>5. s \in Seq(T)
  BY <1>3, <1>4
<1>6. /\ new \in Seq(T) /\ Len(new) = Len(list) + Len(s) /\ Len(list) \in Nat /\ Len(s) \in Nat
      /\ \A i \in 1..Len(list) : new[i] = list[i]
      /\ \A i \in 1..Len(s) : new[Len(list) + i] = s[i]
      /\ DOMAIN list = 1..Len(list) /\ DOMAIN s = 1..Len(s) /\ DOMAIN new = 1..Len(new)
  BY <1>1, <1>5
<1>7. ToSet(list) \subseteq ToSet(new)
  BY <1>6 DEF ToSet
<1>8. ASSUME NEW x \in S
      PROVE  x \in ToSet(new)
  <2>1. PICK i \in 1..Len(s) : x = s[i]
    BY <1>1, <1>6 DEF ToSet
  <2>2. Len(list) + i \in DOMAIN new
    BY <1>6, <2>1
  <2> QED
    BY <1>6, <2>1, <2>2 DEF ToSet
<1> QED
  BY <1>6, <1>7, <1>8 DEF S

-----------------------------------------------------------------------------
\* A new event has a key above every cursor and batch.
LEMMA RecordStep ==
  ASSUME HistoryIInv, NEW e \in Event, Record(e)
  PROVE  HistoryIInv'
<1> DEFINE new == [cursor |-> keys, id |-> e, remote |-> FALSE]
<1>1. /\ local' = local \cup {new} /\ keys' = keys + 1
      /\ UNCHANGED <<cursor, server, exchange>>
  BY DEF Record
<1>2. keys \in Nat \ {0} /\ IsFiniteSet(local)
  BY DEF HistoryIInv, HistoryInv
<1>3. new.cursor = keys /\ new.id \in Recorded
  BY DEF Recorded
<1> HIDE DEF new
<1>4. IsFiniteSet(local')
  BY <1>1, <1>2, FS_AddElement
<1>5. HistoryInv'
  <2>1. \A x \in local' : x.cursor \in Nat /\ x.cursor < keys' /\ x.id \in Recorded
    BY <1>1, <1>2, <1>3 DEF HistoryIInv, HistoryInv
  <2> QED
    BY <1>1, <1>2, <1>4, <2>1 DEF HistoryIInv, HistoryInv
<1>6. Growth
  BY <1>1, <1>2, <1>3 DEF Growth, HistoryIInv, HistoryInv
<1>7. CursorsHonest'
  BY <1>1, <1>5, <1>6, CursorsStay DEF HistoryIInv
<1>8. \A u \in Tab : SendInv(u)' /\ StoreInv(u)'
  BY <1>1, <1>5, <1>6, TabStays DEF HistoryIInv
<1> QED
  BY <1>5, <1>7, <1>8 DEF HistoryIInv

\* The server adds to its events.
LEMMA ServerGrows ==
  ASSUME HistoryIInv, NEW ids \in Seq(Recorded), server' \in Inserted(server, ids),
         UNCHANGED <<local, keys, cursor>>, DOMAIN exchange' = Tab,
         \A t \in Tab : DOMAIN exchange'[t] = ExchangeFields
  PROVE  HistoryInv' /\ Growth /\ ToSet(ids) \subseteq OnServer'
<1>1. server \in Seq(Recorded)
  BY DEF HistoryIInv, HistoryInv
<1>2. /\ server' \in Seq(Recorded) /\ Len(server) <= Len(server')
      /\ \A i \in 1..Len(server) : server'[i] = server[i]
      /\ ToSet(ids) \subseteq ToSet(server')
  BY <1>1, InsertedAll
<1>3. cursor.pull \in 0..Len(server')
  BY <1>1, <1>2 DEF HistoryIInv, HistoryInv
<1> QED
  BY <1>2, <1>3 DEF HistoryIInv, HistoryInv, Growth, OnServer

\* An event that others record comes after what was pulled.
LEMMA RecordOnServerStep ==
  ASSUME HistoryIInv, NEW e \in OtherEvent, RecordOnServer(e)
  PROVE  HistoryIInv'
<1>1. /\ server' \in Inserted(server, <<e>>) /\ UNCHANGED <<local, keys, cursor, exchange>>
  BY DEF RecordOnServer
<1>2. <<e>> \in Seq(Recorded)
  BY DEF Recorded
<1>3. HistoryInv' /\ Growth
  BY <1>1, <1>2, ServerGrows DEF HistoryIInv, HistoryInv
<1>4. CursorsHonest'
  BY <1>1, <1>3, CursorsStay DEF HistoryIInv
<1>5. \A u \in Tab : SendInv(u)' /\ StoreInv(u)'
  BY <1>1, <1>3, TabStays DEF HistoryIInv
<1> QED
  BY <1>3, <1>4, <1>5 DEF HistoryIInv

\* The batch that is sent has all that its cursor covers.
LEMMA ReadCandidatesStep ==
  ASSUME HistoryIInv, NEW t \in Tab, ReadCandidates(t)
  PROVE  HistoryIInv'
<1> DEFINE S == {e \in local : ~e.remote /\ e.cursor > cursor.push}
<1>1. UNCHANGED <<local, keys, cursor, server>>
  BY DEF ReadCandidates
<1>2. PICK events \in Candidates :
        IF events = <<>> THEN Onto(t, After("push"))
        ELSE exchange' = [exchange EXCEPT ![t] = [Resting EXCEPT !.at = "send",
                                                              !.batch = Batch(events)]]
  BY DEF ReadCandidates
<1>3. /\ events \in [1..Cardinality(S) -> S] /\ ToSet(events) = S
      /\ \A i, j \in DOMAIN events : i < j => events[i].cursor < events[j].cursor
  BY DEF Candidates, Listings
<1>4. IsFiniteSet(S) /\ \A e \in S : e.cursor \in Nat /\ e.cursor < keys
  BY FS_Subset DEF HistoryIInv, HistoryInv
<1>5. S \subseteq local
  OBVIOUS
<1>6. \A e \in local : ~e.remote => e \in S \/ e.id \in OnServer
  BY DEF HistoryIInv, HistoryInv, CursorsHonest
<1> HIDE DEF S
<1>7. events \in Seq(S)
  BY <1>3, <1>4, Listed
<1>8. CASE events = <<>>
  BY <1>1, <1>2, <1>8, OntoStep DEF After, Halves
<1>9. CASE events # <<>>
  <2> DEFINE b == Batch(events)
  <2>1. /\ exchange' = [exchange EXCEPT ![t] = [Resting EXCEPT !.at = "send", !.batch = b]]
    BY <1>2, <1>9
  <2>2. /\ b.sent \in Seq(S) /\ \E e \in S : b.upto = e.cursor
        /\ \A i \in DOMAIN events : events[i].cursor <= b.upto => events[i] \in ToSet(b.sent)
    BY <1>3, <1>4, <1>7, <1>9, BatchCovers
  <2> HIDE DEF b
  <2>3. /\ exchange'[t].at = "send" /\ exchange'[t].batch = b
        /\ DOMAIN exchange' = Tab /\ DOMAIN exchange'[t] = ExchangeFields
        /\ \A u \in Tab : u # t => exchange'[u] = exchange[u]
    BY <2>1 DEF HistoryIInv, HistoryInv, Resting, ExchangeFields
  <2>4. HistoryInv'
    BY <1>1, <2>3 DEF HistoryIInv, HistoryInv
  <2>5. Growth
    BY <1>1 DEF Growth, HistoryIInv, HistoryInv
  <2>6. SendInv(t)'
    <3>1. b.sent \in Seq(local) /\ b.upto \in Nat /\ b.upto < keys
      BY <1>4, <1>5, <2>2
    <3>2. ASSUME NEW e \in S, e.cursor <= b.upto
          PROVE  e \in ToSet(b.sent)
      BY <1>3, <2>2, <3>2 DEF ToSet
    <3> QED
      BY <1>1, <1>6, <2>3, <3>1, <3>2 DEF SendInv, OnServer
  <2>7. StoreInv(t)'
    BY <2>3 DEF StoreInv
  <2> QED
    BY <1>1, <2>3, <2>4, <2>5, <2>6, <2>7, TabStep
<1> QED
  BY <1>8, <1>9

\* A batch that reached the server is there.
LEMMA PushStep ==
  ASSUME HistoryIInv, NEW t \in Tab, Push(t)
  PROVE  HistoryIInv'
<1> DEFINE sent == exchange[t].batch.sent
           ids == [i \in DOMAIN sent |-> sent[i].id]
<1>1. /\ exchange[t].at = "send" /\ server' \in Inserted(server, ids)
      /\ exchange' = [exchange EXCEPT ![t].at = "sent"]
      /\ UNCHANGED <<local, keys, cursor>>
  BY DEF Push, ExchangeAt
<1>2. /\ sent \in Seq(local) /\ exchange[t].batch.upto \in Nat /\ exchange[t].batch.upto < keys
      /\ \A e \in local : ~e.remote /\ e.cursor <= exchange[t].batch.upto =>
           e.id \in OnServer \/ e \in ToSet(sent)
  BY <1>1 DEF HistoryIInv, SendInv
<1>3. ids \in Seq(Recorded)
  <2>1. DOMAIN sent = 1..Len(sent) /\ Len(sent) \in Nat /\ \A i \in DOMAIN sent : sent[i] \in local
    BY <1>2
  <2>2. \A i \in DOMAIN sent : sent[i].id \in Recorded
    BY <2>1 DEF HistoryIInv, HistoryInv
  <2> HIDE DEF sent
  <2> QED
    BY <2>1, <2>2
<1>4. \A e \in ToSet(sent) : e.id \in ToSet(ids)
  BY DEF ToSet
<1> HIDE DEF ids
<1>5. /\ exchange'[t].at = "sent" /\ exchange'[t].batch = exchange[t].batch
      /\ DOMAIN exchange' = Tab /\ \A u \in Tab : DOMAIN exchange'[u] = ExchangeFields
      /\ \A u \in Tab : u # t => exchange'[u] = exchange[u]
  BY <1>1 DEF HistoryIInv, HistoryInv, ExchangeFields
<1>6. HistoryInv' /\ Growth /\ ToSet(ids) \subseteq OnServer'
  BY <1>1, <1>3, <1>5, ServerGrows
<1>7. OnServer \subseteq OnServer'
  BY <1>6, Grown DEF HistoryIInv
<1>8. SendInv(t)'
  BY <1>1, <1>2, <1>4, <1>5, <1>6, <1>7 DEF SendInv
<1>9. StoreInv(t)'
  BY <1>5 DEF StoreInv
<1> QED
  BY <1>1, <1>5, <1>6, <1>8, <1>9, TabStep

\* The push cursor covers what was sent and what it covered before.
LEMMA EndPushStep ==
  ASSUME HistoryIInv, NEW t \in Tab, EndPush(t)
  PROVE  HistoryIInv'
<1> DEFINE upto == exchange[t].batch.upto
<1>1. /\ exchange[t].at = "sent" /\ cursor' = [cursor EXCEPT !.push = upto]
      /\ Onto(t, After("push")) /\ UNCHANGED <<local, keys, server>>
  BY DEF EndPush, ExchangeAt
<1>2. /\ upto \in Nat /\ upto < keys
      /\ \A e \in local : ~e.remote /\ e.cursor <= upto => e.id \in OnServer
  BY <1>1 DEF HistoryIInv, SendInv
<1>3. cursor'.push = upto /\ cursor'.pull = cursor.pull /\ DOMAIN cursor' = {"push", "pull"}
  BY <1>1 DEF HistoryIInv, HistoryInv
<1>4. /\ exchange'[t].at = "pull"
      /\ DOMAIN exchange' = Tab /\ DOMAIN exchange'[t] = ExchangeFields
      /\ \A u \in Tab : u # t => exchange'[u] = exchange[u]
  BY <1>1 DEF Onto, Resting, ExchangeFields, HistoryIInv, HistoryInv, After, Halves
<1> HIDE DEF upto
<1>5. HistoryInv'
  BY <1>1, <1>2, <1>3, <1>4 DEF HistoryIInv, HistoryInv
<1>6. Growth
  BY <1>1 DEF Growth, HistoryIInv, HistoryInv
<1>7. CursorsHonest'
  BY <1>1, <1>2, <1>3 DEF HistoryIInv, CursorsHonest, OnServer, Ids
<1>8. \A u \in Tab : u # t => SendInv(u)' /\ StoreInv(u)'
  BY <1>4, <1>5, <1>6, TabStays DEF HistoryIInv
<1>9. SendInv(t)' /\ StoreInv(t)'
  BY <1>4 DEF SendInv, StoreInv
<1> QED
  BY <1>5, <1>7, <1>8, <1>9 DEF HistoryIInv

\* All of the server's events up to the last are here or on their way.
LEMMA PullStep ==
  ASSUME HistoryIInv, NEW t \in Tab, Pull(t)
  PROVE  HistoryIInv'
<1> DEFINE from == cursor.pull
           n == Len(server)
           remote == [i \in 1..Len(server) - from |->
                        [cursor |-> from + i, id |-> server[from + i]]]
<1>1. /\ exchange[t].at = "pull" /\ UNCHANGED <<local, keys, cursor, server>>
      /\ IF remote = <<>> THEN Onto(t, After("pull"))
         ELSE exchange' = [exchange EXCEPT ![t] = [Resting EXCEPT !.at = "store", !.remote = remote,
                                                              !.upto = MaxCursor(remote)]]
  BY DEF Pull, ExchangeAt
<1>2. CASE remote = <<>>
  BY <1>1, <1>2, OntoStep DEF After, Halves
<1>3. CASE remote # <<>>
  <2>1. /\ n \in Nat /\ from \in 0..n /\ server \in Seq(Recorded)
        /\ \A i \in 1..from : server[i] \in Ids
    BY DEF HistoryIInv, HistoryInv, CursorsHonest
  <2>2. \A i \in 1..(n - from) : from + i \in 1..n /\ server[from + i] \in Recorded
    BY <2>1
  <2>3. remote \in Seq([cursor : Nat, id : Recorded]) /\ DOMAIN remote = 1..(n - from)
    <3>1. n - from \in Nat
      BY <2>1
    <3>2. \A i \in 1..(n - from) : from + i \in Nat
      BY <2>1
    <3> DEFINE r(i) == [cursor |-> from + i, id |-> server[from + i]]
    <3>3. \A i \in 1..(n - from) : r(i) \in [cursor : Nat, id : Recorded]
      BY <2>2, <3>2
    <3>4. remote = [i \in 1..(n - from) |-> r(i)]
      OBVIOUS
    <3> DEFINE k == n - from
    <3> HIDE DEF r, remote, n, from
    <3>5. remote \in [1..k -> [cursor : Nat, id : Recorded]] /\ k \in Nat
      BY <3>1, <3>3, <3>4
    <3> DEFINE T == [cursor : Nat, id : Recorded]
    <3>7. remote \in [1..k -> T] /\ k \in Nat
      BY <3>5
    <3> HIDE DEF k, T
    <3>8. remote \in Seq(T) /\ DOMAIN remote = 1..k
      BY <3>7
    <3>6. remote \in Seq([cursor : Nat, id : Recorded]) /\ DOMAIN remote = 1..k
      BY <3>8 DEF T
    <3> QED
      BY <3>6 DEF k
  <2>4. \A r \in ToSet(remote) : r.cursor \in 0..n
    BY <2>1, <2>2, <2>3 DEF ToSet
  <2>5. MaxCursor(remote) \in 0..n
    <3> DEFINE C == {0} \cup {e.cursor : e \in ToSet(remote)}
    <3>1. n - from > 0
      <4>1. n - from # 0
        BY <1>3, <2>1, <2>3
      <4> QED
        BY <2>1, <4>1
    <3>2. n - from \in DOMAIN remote /\ remote[n - from].cursor = n
      BY <2>1, <3>1, <2>3
    <3> HIDE DEF n, remote
    <3>3. n \in C /\ \A y \in C : y \in 0..n
      <4>1. remote[n - from] \in ToSet(remote)
        BY <3>2 DEF ToSet
      <4> QED
        BY <2>1, <2>4, <3>2, <4>1
    <3> HIDE DEF C
    <3>4. Max(C) \in C
      <4>1. \E x \in C : \A y \in C : x >= y
        BY <2>1, <3>3
      <4> QED
        BY <4>1 DEF Max
    <3> QED
      BY <3>3, <3>4 DEF C, MaxCursor
  <2>6. ASSUME NEW i \in 1..n
        PROVE  server[i] \in Ids \/ \E r \in ToSet(remote) : r.id = server[i]
    <3>1. CASE i \in 1..from
      BY <2>1, <3>1
    <3>2. CASE i \notin 1..from
      <4>1. i - from \in DOMAIN remote /\ from + (i - from) = i
        BY <2>1, <2>3, <3>2
      <4>2. remote[i - from].id = server[i] /\ remote[i - from] \in ToSet(remote)
        BY <2>3, <4>1 DEF ToSet
      <4> QED
        BY <4>2
    <3> QED
      BY <3>1, <3>2
  <2> DEFINE m == MaxCursor(remote)
  <2>7. exchange' = [exchange EXCEPT ![t] = [Resting EXCEPT !.at = "store", !.remote = remote,
                                                         !.upto = m]]
    BY <1>1, <1>3
  <2>8. m \in 0..n
    BY <2>5
  <2> HIDE DEF remote, m
  <2>9. /\ exchange'[t].at = "store" /\ exchange'[t].remote = remote /\ exchange'[t].upto = m
        /\ DOMAIN exchange' = Tab /\ DOMAIN exchange'[t] = ExchangeFields
        /\ \A u \in Tab : u # t => exchange'[u] = exchange[u]
    BY <2>7 DEF HistoryIInv, HistoryInv, Resting, ExchangeFields
  <2>10. HistoryInv'
    BY <1>1, <2>9 DEF HistoryIInv, HistoryInv
  <2>11. Growth
    BY <1>1 DEF Growth, HistoryIInv, HistoryInv
  <2>12. SendInv(t)'
    BY <2>9 DEF SendInv
  <2>13. StoreInv(t)'
    <3>1. Ids' = Ids /\ server' = server /\ \A i \in 1..m : i \in 1..n
      BY <1>1, <2>1, <2>8 DEF Ids
    <3> QED
      BY <2>3, <2>6, <2>8, <2>9, <3>1 DEF StoreInv
  <2> QED
    BY <1>1, <2>9, <2>10, <2>11, <2>12, <2>13, TabStep
<1> QED
  BY <1>2, <1>3

\* The rest of what is to be stored, when the first is in the browser.
LEMMA RestToStore ==
  ASSUME NEW T, NEW s \in Seq(T), s # <<>>
  PROVE  /\ Head(s) \in T /\ Tail(s) \in Seq(T)
         /\ \A r \in ToSet(s) : r = Head(s) \/ r \in ToSet(Tail(s))
<1>1. /\ Len(s) \in Nat /\ Len(s) > 0 /\ DOMAIN s = 1..Len(s) /\ Head(s) = s[1] /\ Head(s) \in T
      /\ Tail(s) \in Seq(T) /\ Len(Tail(s)) = Len(s) - 1 /\ DOMAIN Tail(s) = 1..(Len(s) - 1)
      /\ \A i \in 1..(Len(s) - 1) : Tail(s)[i] = s[i + 1]
  BY EmptySeq
<1>2. ASSUME NEW i \in 1..Len(s), i # 1
      PROVE  s[i] \in ToSet(Tail(s))
  <2>1. i - 1 \in DOMAIN Tail(s) /\ Tail(s)[i - 1] = s[i]
    BY <1>1, <1>2
  <2> QED
    BY <2>1 DEF ToSet
<1> QED
  BY <1>1, <1>2 DEF ToSet

\* An event that is passed over is in the browser.
LEMMA LookStep ==
  ASSUME HistoryIInv, NEW t \in Tab, Look(t)
  PROVE  HistoryIInv'
<1> DEFINE remote == exchange[t].remote
<1>1. /\ exchange[t].at = "store" /\ remote # <<>> /\ UNCHANGED <<local, keys, cursor, server>>
      /\ exchange' = IF Head(remote).id \in Ids THEN [exchange EXCEPT ![t].remote = Tail(@)]
                     ELSE [exchange EXCEPT ![t].at = "add"]
  BY DEF Look, ExchangeAt
<1>2. /\ remote \in Seq([cursor : Nat, id : Recorded]) /\ exchange[t].upto \in 0..Len(server)
      /\ \A i \in 1..exchange[t].upto :
           server[i] \in Ids \/ \E r \in ToSet(remote) : r.id = server[i]
  BY <1>1 DEF HistoryIInv, StoreInv
<1>3. /\ Head(remote) \in [cursor : Nat, id : Recorded]
      /\ Tail(remote) \in Seq([cursor : Nat, id : Recorded])
      /\ \A r \in ToSet(remote) : r = Head(remote) \/ r \in ToSet(Tail(remote))
  BY <1>1, <1>2, RestToStore
<1>4. /\ DOMAIN exchange' = Tab /\ DOMAIN exchange'[t] = ExchangeFields
      /\ \A u \in Tab : u # t => exchange'[u] = exchange[u]
      /\ exchange'[t].upto = exchange[t].upto
      /\ \/ /\ exchange'[t].at = "store" /\ exchange'[t].remote = Tail(remote)
            /\ Head(remote).id \in Ids
         \/ exchange'[t].at = "add" /\ exchange'[t].remote = remote
  BY <1>1 DEF HistoryIInv, HistoryInv, ExchangeFields
<1> HIDE DEF remote
<1>5. HistoryInv'
  BY <1>1, <1>4 DEF HistoryIInv, HistoryInv
<1>6. Growth
  BY <1>1 DEF Growth, HistoryIInv, HistoryInv
<1>7. SendInv(t)'
  BY <1>4 DEF SendInv
<1>8. StoreInv(t)'
  <2>1. Ids' = Ids
    BY <1>1 DEF Ids
  <2> QED
    BY <1>1, <1>2, <1>3, <1>4, <2>1 DEF StoreInv
<1> QED
  BY <1>1, <1>4, <1>5, <1>6, <1>7, <1>8, TabStep

\* An event that is stored is in the browser; it is no event of its own.
LEMMA AddStep ==
  ASSUME HistoryIInv, NEW t \in Tab, Add(t)
  PROVE  HistoryIInv'
<1> DEFINE remote == exchange[t].remote
           next == Head(remote)
           new == [cursor |-> next.cursor, id |-> next.id, remote |-> TRUE]
<1>1. exchange[t].at = "add" /\ UNCHANGED <<cursor, server>>
  BY DEF Add, ExchangeAt
<1>2. CASE Rest(t) /\ UNCHANGED <<local, keys>>
  BY <1>1, <1>2, OntoStep
<1>3. CASE /\ local' = local \cup {new} /\ keys' = Max({keys, next.cursor + 1})
           /\ exchange' = [exchange EXCEPT ![t].at = "store", ![t].remote = Tail(@)]
  <2>1. /\ remote \in Seq([cursor : Nat, id : Recorded]) /\ exchange[t].upto \in 0..Len(server)
        /\ \A i \in 1..exchange[t].upto :
             server[i] \in Ids \/ \E r \in ToSet(remote) : r.id = server[i]
        /\ remote # <<>>
    BY <1>1 DEF HistoryIInv, StoreInv
  <2>2. /\ next \in [cursor : Nat, id : Recorded]
        /\ Tail(remote) \in Seq([cursor : Nat, id : Recorded])
        /\ \A r \in ToSet(remote) : r = next \/ r \in ToSet(Tail(remote))
    BY <2>1, RestToStore
  <2>3. /\ DOMAIN exchange' = Tab /\ DOMAIN exchange'[t] = ExchangeFields
        /\ \A u \in Tab : u # t => exchange'[u] = exchange[u]
        /\ exchange'[t].upto = exchange[t].upto
        /\ exchange'[t].at = "store" /\ exchange'[t].remote = Tail(remote)
    BY <1>3 DEF HistoryIInv, HistoryInv, ExchangeFields
  <2> HIDE DEF remote, next
  <2>4. /\ new.cursor = next.cursor /\ new.id = next.id /\ new.remote
        /\ new.cursor \in Nat /\ new.id \in Recorded
    BY <2>2
  <2>5. keys \in Nat \ {0} /\ IsFiniteSet(local)
    BY DEF HistoryIInv, HistoryInv
  <2>6. keys' \in Nat /\ keys <= keys' /\ next.cursor < keys'
    <3> DEFINE k == next.cursor + 1
               x == Max({keys, k})
    <3>1. k \in Nat /\ next.cursor < k
      BY <2>2
    <3> HIDE DEF k
    <3>2. \E y \in {keys, k} : \A z \in {keys, k} : y >= z
      BY <2>5, <3>1
    <3>3. x \in {keys, k} /\ \A z \in {keys, k} : x >= z
      BY <3>2 DEF Max
    <3> HIDE DEF x
    <3>4. x \in Nat /\ keys <= x /\ k <= x
      BY <2>5, <3>1, <3>3
    <3>5. keys' = x
      BY <1>3 DEF k, x
    <3> QED
      BY <2>2, <2>5, <3>1, <3>4, <3>5
  <2>7. IsFiniteSet(local')
    BY <1>3, <2>5, FS_AddElement
  <2> HIDE DEF new
  <2>8. HistoryInv'
    <3>1. \A x \in local' : x.cursor \in Nat /\ x.cursor < keys' /\ x.id \in Recorded
      BY <1>3, <2>4, <2>5, <2>6 DEF HistoryIInv, HistoryInv
    <3>2. cursor'.push < keys'
      BY <1>1, <2>5, <2>6 DEF HistoryIInv, HistoryInv
    <3>3. \A u \in Tab : DOMAIN exchange'[u] = ExchangeFields
      BY <2>3 DEF HistoryIInv, HistoryInv
    <3> QED
      BY <1>1, <2>3, <2>5, <2>6, <2>7, <3>1, <3>2, <3>3 DEF HistoryIInv, HistoryInv
  <2>9. Growth
    BY <1>1, <1>3, <2>4, <2>6 DEF Growth, HistoryIInv, HistoryInv
  <2>10. SendInv(t)'
    BY <2>3 DEF SendInv
  <2>11. StoreInv(t)'
    <3>1. Ids \subseteq Ids' /\ next.id \in Ids'
      BY <1>3, <2>4 DEF Ids
    <3> QED
      BY <1>1, <2>1, <2>2, <2>3, <3>1 DEF StoreInv
  <2> QED
    BY <1>1, <2>3, <2>8, <2>9, <2>10, <2>11, TabStep
<1> QED
  BY <1>2, <1>3 DEF Add

\* The pull cursor moves when all that was pulled has been stored.
LEMMA EndPullStep ==
  ASSUME HistoryIInv, NEW t \in Tab, EndPull(t)
  PROVE  HistoryIInv'
<1> DEFINE upto == exchange[t].upto
<1>1. /\ exchange[t].at = "store" /\ exchange[t].remote = <<>>
      /\ cursor' = [cursor EXCEPT !.pull = upto]
      /\ Onto(t, After("pull")) /\ UNCHANGED <<local, keys, server>>
  BY DEF EndPull, ExchangeAt
<1>2. upto \in 0..Len(server) /\ \A i \in 1..upto : server[i] \in Ids
  BY <1>1 DEF HistoryIInv, StoreInv, ToSet
<1>3. cursor'.push = cursor.push /\ cursor'.pull = upto /\ DOMAIN cursor' = {"push", "pull"}
  BY <1>1 DEF HistoryIInv, HistoryInv
<1>4. /\ exchange'[t].at = "idle"
      /\ DOMAIN exchange' = Tab /\ DOMAIN exchange'[t] = ExchangeFields
      /\ \A u \in Tab : u # t => exchange'[u] = exchange[u]
  BY <1>1 DEF Onto, Resting, ExchangeFields, HistoryIInv, HistoryInv, After, Halves
<1> HIDE DEF upto
<1>5. HistoryInv'
  BY <1>1, <1>2, <1>3, <1>4 DEF HistoryIInv, HistoryInv
<1>6. Growth
  BY <1>1 DEF Growth, HistoryIInv, HistoryInv
<1>7. CursorsHonest'
  BY <1>1, <1>2, <1>3 DEF HistoryIInv, CursorsHonest, OnServer, Ids
<1>8. \A u \in Tab : u # t => SendInv(u)' /\ StoreInv(u)'
  BY <1>4, <1>5, <1>6, TabStays DEF HistoryIInv
<1>9. SendInv(t)' /\ StoreInv(t)'
  BY <1>4 DEF SendInv, StoreInv
<1> QED
  BY <1>5, <1>7, <1>8, <1>9 DEF HistoryIInv

\* At first there is nothing to say.
LEMMA HistoryStarts == ActivityInit => HistoryIInv
<1> SUFFICES ASSUME ActivityInit
             PROVE  HistoryIInv
  OBVIOUS
<1>1. /\ local = {} /\ keys = 1 /\ cursor = [push |-> 0, pull |-> 0] /\ server = <<>>
      /\ exchange = [t \in Tab |-> Resting]
  BY DEF ActivityInit
<1>2. HistoryInv
  BY <1>1, FS_EmptySet DEF HistoryInv, Resting, ExchangeFields
<1>3. CursorsHonest
  BY <1>1 DEF CursorsHonest
<1>4. \A t \in Tab : SendInv(t) /\ StoreInv(t)
  BY <1>1 DEF SendInv, StoreInv, Resting
<1> QED
  BY <1>2, <1>3, <1>4 DEF HistoryIInv

\* Every step keeps it.
LEMMA HistoryKept ==
  ASSUME HistoryIInv, [ActivityNext]_activityVars
  PROVE  HistoryIInv'
<1>1. ASSUME NEW e \in Event, Record(e)
      PROVE  HistoryIInv'
  BY <1>1, RecordStep
<1>2. ASSUME NEW e \in OtherEvent, RecordOnServer(e)
      PROVE  HistoryIInv'
  BY <1>2, RecordOnServerStep
<1>3. ASSUME NEW t \in Tab, Exchange(t)
      PROVE  HistoryIInv'
  <2>1. CASE SyncTick(t)
    <3>1. Onto(t, "push") /\ UNCHANGED <<local, keys, cursor, server>>
      BY <2>1 DEF SyncTick, Halves
    <3> QED
      BY <3>1, OntoStep
  <2>2. CASE ReadCandidates(t)
    BY <2>2, ReadCandidatesStep
  <2>3. CASE Push(t)
    BY <2>3, PushStep
  <2>4. CASE EndPush(t)
    BY <2>4, EndPushStep
  <2>5. CASE Pull(t)
    BY <2>5, PullStep
  <2>6. CASE Look(t)
    BY <2>6, LookStep
  <2>7. CASE Add(t)
    BY <2>7, AddStep
  <2>8. CASE EndPull(t)
    BY <2>8, EndPullStep
  <2> QED
    BY <1>3, <2>1, <2>2, <2>3, <2>4, <2>5, <2>6, <2>7, <2>8 DEF Exchange
<1>4. ASSUME NEW t \in Tab, Break(t)
      PROVE  HistoryIInv'
  BY <1>4, OntoStep DEF Break
<1>5. CASE UNCHANGED activityVars
  <2>1. UNCHANGED <<local, keys, cursor, server, exchange>>
    BY <1>5 DEF activityVars
  <2>2. HistoryInv' /\ CursorsHonest'
    BY <2>1 DEF HistoryIInv, HistoryInv, CursorsHonest, OnServer, Ids
  <2>3. Growth
    BY <2>1 DEF HistoryIInv, HistoryInv, Growth
  <2>4. \A t \in Tab : SendInv(t)' /\ StoreInv(t)'
    BY <2>1, <2>2, <2>3, TabStays DEF HistoryIInv
  <2> QED
    BY <2>2, <2>4 DEF HistoryIInv
<1> QED
  BY <1>1, <1>2, <1>3, <1>4, <1>5 DEF ActivityNext

\* The cursors of the browser say no more than was exchanged, for any number of
\* tabs that run the exchange side by side and break off anywhere, and for any
\* size of a batch.
THEOREM CursorsStayHonest == ActivitySpec => []CursorsHonest
<1>1. ActivityInit => HistoryIInv
  BY HistoryStarts
<1>2. HistoryIInv /\ [ActivityNext]_activityVars => HistoryIInv'
  BY HistoryKept
<1>3. HistoryIInv => CursorsHonest
  BY DEF HistoryIInv
<1> QED
  BY <1>1, <1>2, <1>3, PTL DEF ActivitySpec
-----------------------------------------------------------------------------
(***************************************************************************)
(* The contract's book.                                                    *)
(***************************************************************************)

IsUpsert(event) == event \in [type : {"ordupsert"}, order : Order, left : Nat]
IsRemoval(event) == event \in [type : {"ordremove"}, order : Order]
BookEvent == {BookInit} \cup [type : {"ordupsert"}, order : Order, left : Nat]
           \cup [type : {"ordremove"}, order : Order]
Entries == [order : Order, left : Nat]

Has(side, o) == \E k \in DOMAIN side : side[k].order = o
Includes(side, e) == \E k \in DOMAIN side : side[k] = e

\* A side has orders of its own, each once, sorted by rank.
IsSide(side, s) ==
  /\ side \in Seq(Entries)
  /\ \A k \in DOMAIN side : SideOf[side[k].order] = s
  /\ \A k, l \in DOMAIN side :
       k < l => side[k].order # side[l].order /\ Rank[side[k].order] <= Rank[side[l].order]

\* What an event makes of the side it is about.
Updates(b, c, event) ==
  /\ IsUpsert(event)
  /\ \E k \in DOMAIN b : /\ b[k].order = event.order
                         /\ c = [b EXCEPT ![k] = Entry(event.order, event.left)]
Adds(b, c, event) ==
  /\ IsUpsert(event) /\ ~Has(b, event.order)
  /\ \E k \in 1..(Len(b) + 1) : /\ Behind(b, event.order, k)
                                /\ c = InsertAt(b, k, Entry(event.order, event.left))
Removes(b, c, event) ==
  /\ IsRemoval(event)
  /\ \E k \in DOMAIN b : b[k].order = event.order /\ c = RemoveAt(b, k)

Changes(b, c, event) == Updates(b, c, event) \/ Adds(b, c, event) \/ Removes(b, c, event)

SideAfter(n, o) == books[n][SideOf[o]]

IsChange(n) ==
  LET event == log[n]
  IN  /\ Changes(SideAfter(n - 1, event.order), SideAfter(n, event.order), event)
      /\ \A s \in Bookside : s # SideOf[event.order] => books[n][s] = books[n - 1][s]

\* An order is in the book with what its last upsert left, until it is removed,
\* for good.
History(n) ==
  \A j \in 2..n :
    LET o == log[j].order
    IN  /\ IsUpsert(log[j]) /\ (\A i \in (j + 1)..n : log[i].order # o) =>
             Includes(SideAfter(n, o), Entry(o, log[j].left))
        /\ IsUpsert(log[j]) /\ (\A i \in (j + 1)..n : log[i] # Removed(o)) =>
             Has(SideAfter(n, o), o)
        /\ IsRemoval(log[j]) => ~Has(SideAfter(n, o), o)

ChainType ==
  /\ log \in Seq(BookEvent) /\ Len(log) >= 1 /\ log[1] = BookInit
  /\ \A n \in 2..Len(log) : IsUpsert(log[n]) \/ IsRemoval(log[n])
  /\ books \in Seq([Bookside -> Seq(Entries)]) /\ Len(books) = Len(log)
  /\ \A s \in Bookside : books[1][s] = <<>>
  /\ head \in 0..Len(log) /\ dropped \in 0..head

ChainInv ==
  /\ ChainType
  /\ \A n \in 1..Len(log) :
       \A s \in Bookside : IsSide(books[n][s], s) /\ Len(books[n][s]) < n
  /\ \A n \in 2..Len(log) : IsChange(n)
  /\ \A n \in 1..Len(log) : History(n)
-----------------------------------------------------------------------------
(***************************************************************************)
(* The rows.                                                               *)
(***************************************************************************)

IsRow(r) ==
  /\ r = [order |-> r.order, left |-> r.left, priority |-> r.priority]
  /\ r.order \in Order /\ r.priority \in Nat

\* An order has one row.
Keyed(rows) ==
  /\ \A r \in rows : IsRow(r)
  /\ \A q, r \in rows : q.order = r.order => q = r

\* The rows of a side, with priorities below n.
IsSideOf(side, rows, s, n) ==
  /\ \A k \in DOMAIN side : \E r \in rows : side[k] = Entry(r.order, r.left)
  /\ \A r \in rows : SideOf[r.order] = s => Has(side, r.order) /\ r.priority < n
  /\ \A q, r \in rows : \A k, l \in DOMAIN side :
       q.order = side[k].order /\ r.order = side[l].order /\ k < l => Precedes(q, r)

\* The rows of side s are the contract's side after n events.
Matches(rows, s, n) == IsSideOf(books[n][s], rows, s, n)

\* The rows of side s were the contract's side after n events, and since then
\* the earlier events up to m have been applied to them.
Mixed(rows, s, m, n) ==
  LET side == books[n][s]
  IN  /\ \A k \in DOMAIN side : \E r \in rows :
           /\ r.order = side[k].order /\ r.priority = k
           /\ (\A j \in (m + 1)..n : log[j].order # r.order) => r.left = side[k].left
      /\ \A r \in rows : SideOf[r.order] = s =>
           Has(side, r.order) \/ \E j \in (m + 1)..n : log[j] = Removed(r.order)

InStep(rows, s, m, top) ==
  Matches(rows, s, m) \/ \E n \in m..top : Mixed(rows, s, m, n)

Content(initialized, last, rows, done) ==
  /\ initialized \in BOOLEAN /\ last \in 0..(Len(log) - 1) /\ Keyed(rows)
  /\ ~initialized => last = 0 /\ rows = {} /\ done = {}
  /\ initialized => \A s \in Bookside : InStep(rows, s, last + 1, Len(log))

\* A database that was built from the first event on.
Whole(initialized, last, rows, done, upto) ==
  1 \in done =>
    /\ initialized /\ upto = last + 1 /\ done \subseteq 1..upto
    /\ \A s \in Bookside : Matches(rows, s, last + 1)

IsMeta(m) ==
  m \in [initialized : BOOLEAN, cursor : Nat \cup {NoCursor}, last : Nat, ledger : Nat,
         target : Nat, verified : BOOLEAN, fatal : BOOLEAN]

DbInv ==
  /\ IsMeta(meta) /\ meta.cursor <= head
  /\ Content(meta.initialized, meta.last, orders, processed)
  /\ Whole(meta.initialized, meta.last, orders, processed, meta.cursor)
  /\ ~meta.initialized => meta.cursor \in {NoCursor, 0}
  /\ meta.initialized /\ 1 \notin processed => dropped >= 1 /\ meta.cursor # 0
  /\ meta.verified => genuine
  /\ NeverWedged
-----------------------------------------------------------------------------
(***************************************************************************)
(* The pass.                                                               *)
(***************************************************************************)

\* What a recovery has copied is there until an event is applied to it.
Copied ==
  /\ meta.initialized /\ 1 \notin processed /\ meta.target <= meta.last
  /\ meta.target = meta.last =>
       \A s \in Bookside : \E n \in (meta.last + 1)..Len(log) : IsListing(books[n][s], orders, s)

FetchInv(j) ==
  j.at = "fetch" =>
    /\ j.live \in BOOLEAN /\ j.cursor = meta.cursor
    /\ IF j.live THEN Copied /\ (j.cursor = NoCursor => j.start \in 1..dropped)
                 ELSE j.start = 0

PageOf(from, to, ledger) ==
  [events |-> [k \in 1..(to - from) |-> from + k], cursor |-> to, ledger |-> ledger]

ApplyInv(j) ==
  j.at = "apply" =>
    /\ j.live \in BOOLEAN /\ (j.live => Copied)
    /\ \E from \in 0..head : \E to \in from..head :
         /\ j.page = PageOf(from, to, j.page.ledger) /\ j.page.ledger \in Nat
         /\ 1 \in processed => from = meta.cursor
         /\ IF meta.initialized THEN 1 \notin processed => from >= 1 ELSE from = 0

\* What a pass holds is what is stored, but for what it has found out.
Holds(m) ==
  /\ IsMeta(m) /\ m.initialized = meta.initialized /\ m.cursor = meta.cursor
  /\ m.last = meta.last /\ (m.verified => genuine)
  /\ m.fatal /\ genuine /\ meta.initialized => 1 \notin processed

\* The contract's sequence was read after whatever the rows were copied from.
TargetRead(m) ==
  /\ m.target \in m.last..(Len(log) - 1)
  /\ m.initialized => \A s \in Bookside : InStep(orders, s, m.last + 1, m.target + 1)

VerifyInv(j) == j.at = "verify" => Holds(j.meta) /\ TargetRead(j.meta)

PutInv(j) == j.at = "put" => Holds(j.meta) /\ (~j.meta.fatal => TargetRead(j.meta))

ReleaseInv(j) ==
  /\ j.at \in {"release", "sequence"} => j.start \in 1..dropped
  /\ j.at = "sequence" => genuine

SidesInv(p, j) ==
  j.at = "sides" =>
    /\ storage[p] = "trustless" => genuine /\ j.start \in 1..dropped
    /\ j.last \in 0..(Len(log) - 1) /\ DOMAIN j.sides \subseteq Bookside
    /\ \A s \in DOMAIN j.sides : \E n \in (j.last + 1)..Len(log) : j.sides[s] = books[n][s]

PassInv(p, j) ==
  FetchInv(j) /\ ApplyInv(j) /\ VerifyInv(j) /\ PutInv(j) /\ ReleaseInv(j) /\ SidesInv(p, j)

IndexInv ==
  /\ pass = [p \in Page |-> pass[p]] /\ shown = [p \in Page |-> shown[p]]
  /\ \A p \in Page : shown[p].last \in Nat
  /\ ChainInv /\ DbInv /\ ShownIsReal
  /\ \A p \in Page : PassInv(p, pass[p])
-----------------------------------------------------------------------------
(***************************************************************************)
(* The contract's book.                                                    *)
(***************************************************************************)

\* What an entry of a side is made of.
LEMMA EntryFields ==
  ASSUME NEW o, NEW left
  PROVE  /\ Entry(o, left).order = o /\ Entry(o, left).left = left
         /\ o \in Order /\ left \in Nat => Entry(o, left) \in Entries
BY DEF Entry, Entries

\* An event is about an order, and an upsert is no removal.
LEMMA EventFields ==
  ASSUME NEW event
  PROVE  /\ IsUpsert(event) => /\ event.type = "ordupsert" /\ event.order \in Order
                                /\ event.left \in Nat /\ event \in BookEvent /\ event # BookInit
                                /\ ~IsRemoval(event) /\ \A o : event # Removed(o)
         /\ IsRemoval(event) => /\ event.type = "ordremove" /\ event.order \in Order
                                 /\ event \in BookEvent /\ event # BookInit
                                 /\ event = Removed(event.order)
BY DEF IsUpsert, IsRemoval, BookEvent, BookInit, Removed

\* The entries of a side are of its orders.
LEMMA SideFields ==
  ASSUME NEW side, NEW s, IsSide(side, s)
  PROVE  /\ Len(side) \in Nat /\ DOMAIN side = 1..Len(side) /\ side \in Seq(Entries)
         /\ \A k \in 1..Len(side) : /\ side[k] \in Entries /\ side[k].order \in Order
                                      /\ side[k].left \in Nat /\ SideOf[side[k].order] = s
                                      /\ side[k] = Entry(side[k].order, side[k].left)
                                      /\ Rank[side[k].order] \in Nat
<1>1. /\ Len(side) \in Nat /\ DOMAIN side = 1..Len(side) /\ side \in Seq(Entries)
      /\ \A k \in 1..Len(side) : side[k] \in Entries
  BY LenProperties DEF IsSide
<1>2. \A e \in Entries : /\ e.order \in Order /\ e.left \in Nat /\ e = Entry(e.order, e.left)
                          /\ Rank[e.order] \in Nat
  BY IndexAssumption DEF Entries, Entry
<1> QED BY <1>1, <1>2 DEF IsSide

\* A fill in part changes what one entry has left.
LEMMA UpdatedSide ==
  ASSUME NEW b, NEW c, NEW s, NEW event, IsSide(b, s), Updates(b, c, event)
  PROVE  /\ IsSide(c, s) /\ Len(c) = Len(b) /\ Includes(c, Entry(event.order, event.left))
         /\ \A e : e.order # event.order /\ Includes(b, e) => Includes(c, e)
         /\ \A o : Has(c, o) => Has(b, o)
<1> DEFINE e == Entry(event.order, event.left)
<1>1. PICK k \in DOMAIN b : b[k].order = event.order /\ c = [b EXCEPT ![k] = e]
  BY DEF Updates
<1>2. e \in Entries /\ e.order = event.order
  BY EventFields, EntryFields DEF Updates
<1> HIDE DEF e
<1>3. /\ c \in Seq(Entries) /\ Len(c) = Len(b) /\ DOMAIN c = 1..Len(b) /\ c[k] = e
      /\ \A l \in 1..Len(b) : l # k => c[l] = b[l]
  BY <1>1, <1>2, SideFields
<1>4. \A l \in 1..Len(b) : c[l].order = b[l].order
  BY <1>1, <1>2, <1>3
<1>5. IsSide(c, s)
  BY <1>3, <1>4, SideFields DEF IsSide
<1>6. Includes(c, e)
  BY <1>1, <1>3, SideFields DEF Includes
<1>7. \A f : f.order # event.order /\ Includes(b, f) => Includes(c, f)
  BY <1>1, <1>3, SideFields DEF Includes
<1>8. \A o : Has(c, o) => Has(b, o)
  BY <1>3, <1>4, SideFields DEF Has
<1> QED BY <1>3, <1>5, <1>6, <1>7, <1>8 DEF e

\* An order that comes to rest moves the worse ones back.
LEMMA AddedSide ==
  ASSUME NEW b, NEW c, NEW s, NEW event, IsSide(b, s), SideOf[event.order] = s, Adds(b, c, event)
  PROVE  /\ IsSide(c, s) /\ Len(c) = Len(b) + 1 /\ Includes(c, Entry(event.order, event.left))
         /\ \A e : Includes(b, e) => Includes(c, e)
         /\ \A o : Has(c, o) => Has(b, o) \/ o = event.order
<1> DEFINE e == Entry(event.order, event.left)
<1>1. PICK k \in 1..(Len(b) + 1) : Behind(b, event.order, k) /\ c = InsertAt(b, k, e)
  BY DEF Adds
<1>2. e \in Entries /\ e.order = event.order /\ event.order \in Order /\ Rank[e.order] \in Nat
  BY EventFields, EntryFields, IndexAssumption DEF Adds
<1> HIDE DEF e
<1>3. /\ c \in Seq(Entries) /\ Len(c) = Len(b) + 1
      /\ \A l \in 1..(Len(b) + 1) : c[l] = IF l < k THEN b[l] ELSE IF l = k THEN e ELSE b[l - 1]
  <2>1. b \in Seq(Entries)
    BY SideFields
  <2>2. c \in Seq(Entries) /\ IsInsertion(c, b, k, e)
    BY <1>1, <1>2, <2>1, InsertAtInserts
  <2> QED BY <2>2 DEF IsInsertion
<1>4. DOMAIN c = 1..(Len(b) + 1) /\ Len(b) \in Nat
  BY <1>3, SideFields
<1>5. \A l \in 1..Len(b) : b[l].order # event.order
  BY SideFields DEF Adds, Has
<1>6. ASSUME NEW l \in DOMAIN c PROVE SideOf[c[l].order] = s
  <2>1. \A j \in 1..Len(b) : SideOf[b[j].order] = s
    BY SideFields
  <2>2. l \in 1..(Len(b) + 1) /\ (l < k => l \in 1..Len(b)) /\ (l > k => l - 1 \in 1..Len(b))
    BY <1>4
  <2> QED BY <1>2, <1>3, <1>4, <2>1, <2>2
<1>7. ASSUME NEW l \in DOMAIN c, NEW m \in DOMAIN c, l < m
      PROVE  c[l].order # c[m].order /\ Rank[c[l].order] <= Rank[c[m].order]
  <2>1. \A i, j \in 1..Len(b) : i < j => b[i].order # b[j].order /\ Rank[b[i].order] <= Rank[b[j].order]
    BY SideFields DEF IsSide
  <2>2. /\ \A j \in 1..(k - 1) : Rank[b[j].order] <= Rank[e.order]
        /\ \A j \in k..Len(b) : Rank[b[j].order] > Rank[e.order]
    BY <1>1, <1>2 DEF Behind
  <2>3. \A j \in 1..Len(b) : Rank[b[j].order] \in Nat
    BY SideFields
  <2>4. CASE l < k /\ m < k
    <3>1. c[l] = b[l] /\ c[m] = b[m] /\ l \in 1..Len(b) /\ m \in 1..Len(b)
      BY <1>3, <1>4, <1>7, <2>4
    <3> QED BY <1>7, <2>1, <3>1
  <2>5. CASE l < k /\ m = k
    <3>1. c[l] = b[l] /\ c[m] = e /\ l \in 1..(k - 1) /\ l \in 1..Len(b)
      BY <1>3, <1>4, <1>7, <2>5
    <3> QED BY <1>2, <1>5, <2>2, <3>1
  <2>6. CASE l < k /\ m > k
    <3>1. c[l] = b[l] /\ c[m] = b[m - 1] /\ l \in 1..Len(b) /\ m - 1 \in 1..Len(b) /\ l < m - 1
      BY <1>3, <1>4, <1>7, <2>6
    <3> QED BY <2>1, <3>1
  <2>7. CASE l = k
    <3>1. c[l] = e /\ c[m] = b[m - 1] /\ m - 1 \in k..Len(b) /\ m - 1 \in 1..Len(b)
      BY <1>3, <1>4, <1>7, <2>7
    <3> QED BY <1>2, <1>5, <2>2, <2>3, <3>1
  <2>8. CASE l > k
    <3>1. /\ c[l] = b[l - 1] /\ c[m] = b[m - 1] /\ l - 1 \in 1..Len(b) /\ m - 1 \in 1..Len(b)
          /\ l - 1 < m - 1
      BY <1>3, <1>4, <1>7, <2>8
    <3> QED BY <2>1, <3>1
  <2> QED BY <1>4, <2>4, <2>5, <2>6, <2>7, <2>8
<1>8. IsSide(c, s)
  BY <1>3, <1>6, <1>7 DEF IsSide
<1>9. Includes(c, e)
  BY <1>3, <1>4 DEF Includes
<1>10. ASSUME NEW f, Includes(b, f) PROVE Includes(c, f)
  <2>1. PICK l \in 1..Len(b) : b[l] = f
    BY <1>10, SideFields DEF Includes
  <2>2. Len(b) \in Nat /\ l \in 1..(Len(b) + 1) /\ l + 1 \in 1..(Len(b) + 1)
    BY <1>4, <2>1
  <2>3. CASE l < k
    <3>1. c[l] = f
      BY <1>3, <2>1, <2>2, <2>3
    <3> QED BY <1>4, <2>2, <3>1 DEF Includes
  <2>4. CASE ~(l < k)
    <3>1. l + 1 # k /\ ~(l + 1 < k) /\ (l + 1) - 1 = l
      BY <2>2, <2>4
    <3>2. c[l + 1] = f
      BY <1>3, <2>1, <2>2, <3>1
    <3> QED BY <1>4, <2>2, <3>2 DEF Includes
  <2> QED BY <2>3, <2>4
<1>11. ASSUME NEW o, Has(c, o), o # event.order PROVE Has(b, o)
  <2>1. PICK l \in 1..(Len(b) + 1) : c[l].order = o
    BY <1>4, <1>11 DEF Has
  <2>2. l # k /\ (l < k => b[l].order = o /\ l \in 1..Len(b))
        /\ (l > k => b[l - 1].order = o /\ l - 1 \in 1..Len(b))
    BY <1>2, <1>3, <1>4, <1>11, <2>1
  <2> QED BY <1>4, <2>1, <2>2, SideFields DEF Has
<1> QED BY <1>3, <1>8, <1>9, <1>10, <1>11 DEF e

\* An order that leaves moves the ones behind it forward.
LEMMA RemovedSide ==
  ASSUME NEW b, NEW c, NEW s, NEW event, IsSide(b, s), Removes(b, c, event)
  PROVE  /\ IsSide(c, s) /\ Len(c) = Len(b) - 1 /\ ~Has(c, event.order)
         /\ \A e : e.order # event.order /\ Includes(b, e) => Includes(c, e)
         /\ \A o : Has(c, o) => Has(b, o)
<1>1. PICK k \in 1..Len(b) : b[k].order = event.order /\ c = RemoveAt(b, k)
  BY SideFields DEF Removes
<1>2. /\ c \in Seq(Entries) /\ Len(c) = Len(b) - 1
      /\ \A l \in 1..(Len(b) - 1) : c[l] = IF l < k THEN b[l] ELSE b[l + 1]
  <2>1. b \in Seq(Entries)
    BY DEF IsSide
  <2> QED BY <1>1, <2>1, RemoveAtProperties
<1>3. DOMAIN c = 1..(Len(b) - 1) /\ Len(b) \in Nat
  BY <1>2, SideFields
<1>4. \A l \in DOMAIN c : \E m \in 1..Len(b) : m # k /\ c[l] = b[m]
  BY <1>1, <1>2, <1>3
<1>5. \A i, j \in 1..Len(b) : i < j => b[i].order # b[j].order /\ Rank[b[i].order] <= Rank[b[j].order]
  BY SideFields DEF IsSide
<1>6. ASSUME NEW l \in DOMAIN c, NEW m \in DOMAIN c, l < m
      PROVE  c[l].order # c[m].order /\ Rank[c[l].order] <= Rank[c[m].order]
  <2>1. PICK i \in 1..Len(b) : c[l] = b[i] /\ i = IF l < k THEN l ELSE l + 1
    BY <1>1, <1>2, <1>3, <1>6
  <2>2. PICK j \in 1..Len(b) : c[m] = b[j] /\ j = IF m < k THEN m ELSE m + 1
    BY <1>1, <1>2, <1>3, <1>6
  <2>3. i < j
    BY <1>3, <1>6, <2>1, <2>2
  <2> QED BY <1>5, <2>1, <2>2, <2>3
<1>7. \A l \in DOMAIN c : SideOf[c[l].order] = s
  BY <1>4, SideFields
<1>8. IsSide(c, s)
  BY <1>2, <1>6, <1>7 DEF IsSide
<1>9. ~Has(c, event.order)
  BY <1>1, <1>4, <1>5 DEF Has
<1>10. ASSUME NEW f, f.order # event.order, Includes(b, f) PROVE Includes(c, f)
  <2>1. PICK l \in 1..Len(b) : b[l] = f
    BY <1>10, SideFields DEF Includes
  <2>2. (l < k => c[l] = f /\ l \in DOMAIN c) /\ (l > k => c[l - 1] = f /\ l - 1 \in DOMAIN c) /\ l # k
    BY <1>1, <1>2, <1>3, <1>10, <2>1
  <2> QED BY <1>3, <2>1, <2>2 DEF Includes
<1>11. \A o : Has(c, o) => Has(b, o)
  BY <1>4, SideFields DEF Has
<1> QED BY <1>2, <1>8, <1>9, <1>10, <1>11

\* What every event does to the side it is about.
LEMMA ChangedSide ==
  ASSUME NEW b, NEW c, NEW s, NEW event, IsSide(b, s), SideOf[event.order] = s,
         Changes(b, c, event)
  PROVE  /\ IsSide(c, s) /\ Len(c) <= Len(b) + 1
         /\ IsUpsert(event) => Includes(c, Entry(event.order, event.left))
         /\ IsRemoval(event) => ~Has(c, event.order)
         /\ \A e : e.order # event.order /\ Includes(b, e) => Includes(c, e)
         /\ \A o : o # event.order /\ Has(c, o) => Has(b, o)
<1>1. Len(b) \in Nat /\ ~(IsUpsert(event) /\ IsRemoval(event))
  BY SideFields, EventFields
<1>2. CASE Updates(b, c, event)
  <2>1. IsUpsert(event)
    BY <1>2 DEF Updates
  <2> QED BY <1>1, <1>2, <2>1, UpdatedSide
<1>3. CASE Adds(b, c, event)
  <2>1. IsUpsert(event)
    BY <1>3 DEF Adds
  <2> QED BY <1>1, <1>3, <2>1, AddedSide
<1>4. CASE Removes(b, c, event)
  <2>1. IsRemoval(event)
    BY <1>4 DEF Removes
  <2> QED BY <1>1, <1>4, <2>1, RemovedSide
<1> QED BY <1>2, <1>3, <1>4 DEF Changes

\* The log and its books only grow.
LogGrown ==
  /\ Len(log) \in Nat /\ Len(log') \in Nat /\ Len(log) <= Len(log')
  /\ \A n \in 1..Len(log) : log'[n] = log[n] /\ books'[n] = books[n]

\* What is published, is published behind the rest.
LEMMA Published ==
  ASSUME ChainType, NEW event \in BookEvent, event.order \in Order, NEW side \in Seq(Entries),
         Publish(event, side)
  PROVE  /\ log' \in Seq(BookEvent) /\ Len(log') = Len(log) + 1 /\ log'[Len(log) + 1] = event
         /\ books' \in Seq([Bookside -> Seq(Entries)]) /\ Len(books') = Len(log')
         /\ LogGrown
         /\ \A s \in Bookside :
              books'[Len(log) + 1][s] = IF s = SideOf[event.order] THEN side
                                        ELSE books[Len(log)][s]
<1> DEFINE N == Len(log)
           new == [books[N] EXCEPT ![SideOf[event.order]] = side]
<1>1. N \in Nat /\ N \in 1..N /\ DOMAIN books = 1..N /\ books[N] \in [Bookside -> Seq(Entries)]
  BY LenProperties DEF ChainType
<1>2. new \in [Bookside -> Seq(Entries)]
  BY <1>1
<1>3. \A s \in Bookside : new[s] = IF s = SideOf[event.order] THEN side ELSE books[N][s]
  BY <1>1
<1>4. /\ log' \in Seq(BookEvent) /\ Len(log') = N + 1 /\ log'[N + 1] = event
      /\ \A n \in 1..N : log'[n] = log[n]
  BY AppendProperties DEF Publish, ChainType
<1>5. books' = Append(books, new)
  BY DEF Publish, BookAfter
<1> HIDE DEF new
<1>6. /\ books' \in Seq([Bookside -> Seq(Entries)]) /\ Len(books') = N + 1
      /\ books'[N + 1] = new /\ \A n \in 1..N : books'[n] = books[n]
  BY <1>2, <1>5, AppendProperties DEF ChainType
<1>7. LogGrown
  <2>1. \A n \in 1..Len(log) : log'[n] = log[n] /\ books'[n] = books[n]
    BY <1>4, <1>6
  <2>2. Len(log) \in Nat /\ Len(log') = Len(log) + 1
    BY <1>1, <1>4
  <2> QED BY <2>1, <2>2 DEF LogGrown
<1> QED BY <1>1, <1>3, <1>4, <1>6, <1>7

\* What is in the log and the books of the chain.
LEMMA ChainFields ==
  ASSUME ChainInv
  PROVE  /\ Len(log) \in Nat \ {0} /\ DOMAIN log = 1..Len(log)
         /\ \A n \in 2..Len(log) : log[n].order \in Order /\ SideOf[log[n].order] \in Bookside
         /\ \A n \in 1..Len(log) : \A s \in Bookside : IsSide(books[n][s], s)
<1>1. Len(log) \in Nat \ {0} /\ DOMAIN log = 1..Len(log)
  BY LenProperties DEF ChainInv, ChainType
<1>2. \A n \in 2..Len(log) : log[n].order \in Order
  BY EventFields DEF ChainInv, ChainType
<1> QED BY <1>1, <1>2, IndexAssumption DEF ChainInv, Bookside

\* The history up to the new event.
LEMMA HistoryGoesOn ==
  ASSUME ChainInv, NEW event \in BookEvent, event.order \in Order, NEW side \in Seq(Entries),
         Publish(event, side), IsUpsert(event) \/ IsRemoval(event),
         Changes(SideAfter(Len(log), event.order), side, event),
         Adds(SideAfter(Len(log), event.order), side, event) =>
           \A n \in DOMAIN log : log[n] # Removed(event.order),
         NEW N, N = Len(log)
  PROVE  History(N + 1)'
<1> DEFINE p == event.order
           s == SideOf[p]
           b == SideAfter(N, p)
<1>1. /\ N \in Nat \ {0} /\ N \in 1..N /\ DOMAIN log = 1..N /\ ChainType /\ History(N)
      /\ s \in Bookside /\ IsSide(b, s)
  BY ChainFields, IndexAssumption DEF ChainInv, SideAfter, Bookside
<1>2. /\ log'[N + 1] = event /\ \A n \in 1..N : log'[n] = log[n]
      /\ \A r \in Bookside : books'[N + 1][r] = IF r = s THEN side ELSE books[N][r]
  BY <1>1, Published DEF LogGrown
<1>3. /\ IsUpsert(event) => Includes(side, Entry(p, event.left))
      /\ IsRemoval(event) => ~Has(side, p)
      /\ \A e : e.order # p /\ Includes(b, e) => Includes(side, e)
      /\ \A o : o # p /\ Has(side, o) => Has(b, o)
  BY <1>1, ChangedSide
<1>4. \A o : o # p /\ Has(b, o) => Has(side, o)
  <2>1. \A o : Has(b, o) => \E e : Includes(b, e) /\ e.order = o
    BY DEF Has, Includes
  <2>2. \A e : Includes(side, e) => Has(side, e.order)
    BY DEF Has, Includes
  <2> QED BY <1>3, <2>1, <2>2
<1>5. IsUpsert(event) => Has(side, p)
  <2>1. \A e : Includes(side, e) => Has(side, e.order)
    BY DEF Has, Includes
  <2> QED BY <1>3, <2>1, EntryFields
<1> DEFINE Later(o) == books'[N + 1][SideOf[o]]
<1> SUFFICES ASSUME NEW j \in 2..(N + 1)
             PROVE  LET o == log'[j].order
                    IN  /\ IsUpsert(log'[j]) /\ (\A i \in (j + 1)..(N + 1) : log'[i].order # o) =>
                             Includes(Later(o), Entry(o, log'[j].left))
                        /\ IsUpsert(log'[j]) /\ (\A i \in (j + 1)..(N + 1) : log'[i] # Removed(o)) =>
                             Has(Later(o), o)
                        /\ IsRemoval(log'[j]) => ~Has(Later(o), o)
  BY DEF History, SideAfter
<1>6. CASE j = N + 1
  <2>1. log'[j] = event /\ Later(p) = side
    BY <1>1, <1>2, <1>6
  <2> QED BY <1>3, <1>5, <2>1
<1>7. CASE j \in 2..N
  <2> DEFINE o == log[j].order
  <2>1. log'[j] = log[j] /\ o \in Order /\ SideOf[o] \in Bookside
    BY <1>1, <1>2, <1>7, ChainFields
  <2>2. /\ Later(o) = IF SideOf[o] = s THEN side ELSE SideAfter(N, o)
        /\ SideOf[o] = s => SideAfter(N, o) = b
    BY <1>2, <2>1 DEF SideAfter
  <2>3. /\ IsUpsert(log[j]) /\ (\A i \in (j + 1)..N : log[i].order # o) =>
              Includes(SideAfter(N, o), Entry(o, log[j].left))
        /\ IsUpsert(log[j]) /\ (\A i \in (j + 1)..N : log[i] # Removed(o)) => Has(SideAfter(N, o), o)
        /\ IsRemoval(log[j]) => ~Has(SideAfter(N, o), o)
    BY <1>1, <1>7 DEF History
  <2> HIDE DEF After
  <2>4. ASSUME IsUpsert(log[j]), \A i \in (j + 1)..(N + 1) : log'[i].order # o
        PROVE  Includes(Later(o), Entry(o, log[j].left))
    <3>1. \A i \in (j + 1)..N : log[i].order # o
      BY <1>1, <1>2, <1>7, <2>4
    <3>2. p # o
      BY <1>1, <1>2, <1>7, <2>4
    <3> QED BY <1>3, <2>2, <2>3, <2>4, <3>1, <3>2, EntryFields
  <2>5. ASSUME IsUpsert(log[j]), \A i \in (j + 1)..(N + 1) : log'[i] # Removed(o)
        PROVE  Has(Later(o), o)
    <3>1. \A i \in (j + 1)..N : log[i] # Removed(o)
      BY <1>1, <1>2, <1>7, <2>5
    <3>2. event # Removed(o)
      BY <1>1, <1>2, <1>7, <2>5
    <3>3. Has(SideAfter(N, o), o)
      BY <2>3, <2>5, <3>1
    <3>4. CASE p = o
      BY <1>5, <2>2, <3>2, <3>4, EventFields
    <3>5. CASE p # o
      BY <1>4, <2>2, <3>3, <3>5
    <3> QED BY <3>4, <3>5
  <2>6. ASSUME IsRemoval(log[j]) PROVE ~Has(Later(o), o)
    <3>1. ~Has(SideAfter(N, o), o) /\ log[j] = Removed(o) /\ j \in DOMAIN log
      BY <1>1, <1>7, <2>3, <2>6, EventFields
    <3>2. p # o
      <4>1. SUFFICES ASSUME p = o PROVE FALSE
        OBVIOUS
      <4>2. ~Adds(b, side, event)
        BY <3>1, <4>1
      <4>3. Has(b, p)
        BY <4>2 DEF Changes, Updates, Removes, Has
      <4> QED BY <3>1, <4>1, <4>3
    <3> QED BY <1>3, <2>2, <3>1, <3>2
  <2> QED BY <2>1, <2>4, <2>5, <2>6
<1> QED BY <1>1, <1>6, <1>7

\* One event more.
LEMMA PublishStep ==
  ASSUME ChainInv, NEW event \in BookEvent, event.order \in Order, NEW side,
         Publish(event, side), IsUpsert(event) \/ IsRemoval(event),
         Changes(SideAfter(Len(log), event.order), side, event),
         Adds(SideAfter(Len(log), event.order), side, event) =>
           \A n \in DOMAIN log : log[n] # Removed(event.order),
         UNCHANGED <<head, dropped>>
  PROVE  ChainInv' /\ LogGrown
<1>0. PICK N : N = Len(log)
  OBVIOUS
<1> DEFINE p == event.order
           s == SideOf[p]
           b == SideAfter(N, p)
<1>1. /\ N \in Nat \ {0} /\ N \in 1..N /\ ChainType /\ s \in Bookside /\ IsSide(b, s)
      /\ Len(b) < N
  BY <1>0, ChainFields, IndexAssumption DEF ChainInv, SideAfter, Bookside
<1>2. IsSide(side, s) /\ side \in Seq(Entries) /\ Len(side) < N + 1
  <2>1. IsSide(side, s) /\ Len(side) <= Len(b) + 1
    BY <1>0, <1>1, ChangedSide
  <2> QED BY <1>1, <2>1, SideFields
<1>3. /\ log' \in Seq(BookEvent) /\ Len(log') = N + 1 /\ log'[N + 1] = event
      /\ books' \in Seq([Bookside -> Seq(Entries)]) /\ Len(books') = Len(log')
      /\ LogGrown /\ \A n \in 1..N : log'[n] = log[n] /\ books'[n] = books[n]
      /\ \A r \in Bookside : books'[N + 1][r] = IF r = s THEN side ELSE books[N][r]
  BY <1>0, <1>1, <1>2, Published DEF LogGrown
<1>4. ChainType'
  <2>1. ASSUME NEW n \in 2..(N + 1) PROVE IsUpsert(log'[n]) \/ IsRemoval(log'[n])
    <3>1. CASE n = N + 1
      BY <1>3, <3>1
    <3>2. CASE n \in 2..N
      <4>1. n \in 1..N
        BY <1>1, <3>2
      <4>2. IsUpsert(log[n]) \/ IsRemoval(log[n])
        BY <1>0, <1>1, <3>2 DEF ChainType
      <4> QED BY <1>3, <4>1, <4>2
    <3> QED BY <1>1, <3>1, <3>2
  <2>2. log'[1] = BookInit /\ \A r \in Bookside : books'[1][r] = <<>>
    <3>1. 1 \in 1..N /\ log[1] = BookInit /\ \A r \in Bookside : books[1][r] = <<>>
      BY <1>1 DEF ChainType
    <3> QED BY <1>3, <3>1
  <2>3. head' \in 0..(N + 1) /\ dropped' \in 0..head'
    BY <1>0, <1>1 DEF ChainType
  <2> QED BY <1>1, <1>3, <2>1, <2>2, <2>3 DEF ChainType
<1>5. ASSUME NEW n \in 1..(N + 1), NEW r \in Bookside
      PROVE  IsSide(books'[n][r], r) /\ Len(books'[n][r]) < n
  <2>1. CASE n \in 1..N
    BY <1>0, <1>3, <2>1 DEF ChainInv
  <2>2. CASE n = N + 1
    <3>1. IsSide(books[N][r], r) /\ Len(books[N][r]) < N
      BY <1>0, <1>1 DEF ChainInv
    <3>2. Len(books[N][r]) < N + 1
      BY <1>1, <3>1, SideFields
    <3>3. books'[n][r] = IF r = s THEN side ELSE books[N][r]
      BY <1>3, <2>2
    <3>4. CASE r = s
      <4>1. books'[n][r] = side
        BY <3>3, <3>4
      <4> QED BY <1>2, <2>2, <3>4, <4>1
    <3>5. CASE r # s
      <4>1. books'[n][r] = books[N][r]
        BY <3>3, <3>5
      <4> QED BY <2>2, <3>1, <3>2, <4>1
    <3> QED BY <3>4, <3>5
  <2> QED BY <1>1, <2>1, <2>2
<1>6. ASSUME NEW n \in 2..(N + 1) PROVE IsChange(n)'
  <2>1. CASE n \in 2..N
    <3>1. n \in 1..N /\ n - 1 \in 1..N
      BY <1>1, <2>1
    <3>2. log'[n] = log[n] /\ books'[n] = books[n] /\ books'[n - 1] = books[n - 1]
      BY <1>3, <3>1
    <3>3. IsChange(n)
      BY <1>0, <2>1 DEF ChainInv
    <3> QED BY <3>2, <3>3 DEF IsChange, SideAfter
  <2>2. CASE n = N + 1
    <3>1. log'[n] = event /\ books'[n - 1] = books[N] /\ books'[n][s] = side
      BY <1>1, <1>3, <2>2
    <3>2. Changes(b, side, event)
      BY <1>0
    <3>3. \A r \in Bookside : r # s => books'[n][r] = books'[n - 1][r]
      BY <1>3, <2>2, <3>1
    <3> QED BY <3>1, <3>2, <3>3 DEF IsChange, SideAfter
  <2> QED BY <1>1, <2>1, <2>2
<1>7. ASSUME NEW n \in 1..(N + 1) PROVE History(n)'
  <2>1. CASE n \in 1..N
    <3>1. (\A i \in 1..n : log'[i] = log[i]) /\ books'[n] = books[n]
      BY <1>1, <1>3, <2>1
    <3>2. \A j \in 2..n : j \in 1..n /\ \A i \in (j + 1)..n : i \in 1..n
      BY <2>1
    <3>3. History(n)
      BY <1>0, <2>1 DEF ChainInv
    <3> QED BY <3>1, <3>2, <3>3 DEF History, SideAfter
  <2>2. CASE n = N + 1
    <3>1. History(N + 1)'
      BY <1>0, <1>2, HistoryGoesOn
    <3> QED BY <2>2, <3>1
  <2> QED BY <1>1, <2>1, <2>2
<1>8. Len(log)' = N + 1
  BY <1>3
<1> QED BY <1>3, <1>4, <1>5, <1>6, <1>7, <1>8 DEF ChainInv

\* The contract changes an order.
LEMMA EmitStep ==
  ASSUME ChainInv, NEW o \in Order, Emit(o)
  PROVE  ChainInv' /\ LogGrown
<1> DEFINE side == BookAfter(Len(log))[SideOf[o]]
<1>1. /\ side = SideAfter(Len(log), o) /\ IsSide(side, SideOf[o])
      /\ UNCHANGED <<head, dropped>>
  BY ChainFields, IndexAssumption DEF Emit, SideAfter, BookAfter, Bookside
<1> DEFINE Emits(event, c) ==
             /\ Publish(event, c) /\ event.order = o /\ Changes(side, c, event)
             /\ Adds(side, c, event) => \A n \in DOMAIN log : log[n] # Removed(o)
<1>2. \E event, c : Emits(event, c)
  <2>1. CASE /\ \A k \in DOMAIN side : side[k].order # o
             /\ \A n \in DOMAIN log : log[n] # Removed(o)
             /\ \E k \in 1..(Len(side) + 1) :
                  /\ Behind(side, o, k)
                  /\ Publish(Upserted(o, Funds[o]), InsertAt(side, k, Entry(o, Funds[o])))
    <3>1. IsUpsert(Upserted(o, Funds[o])) /\ Upserted(o, Funds[o]).order = o
          /\ Upserted(o, Funds[o]).left = Funds[o]
      BY IndexAssumption DEF Upserted, IsUpsert
    <3>2. PICK k \in 1..(Len(side) + 1) :
            /\ Behind(side, o, k)
            /\ Publish(Upserted(o, Funds[o]), InsertAt(side, k, Entry(o, Funds[o])))
      BY <2>1
    <3> DEFINE c == InsertAt(side, k, Entry(o, Funds[o]))
               event == Upserted(o, Funds[o])
    <3>3. ~Has(side, o)
      BY <2>1 DEF Has
    <3> HIDE DEF side
    <3>4. Adds(side, c, event)
      <4> HIDE DEF event
      <4> QED BY <3>1, <3>2, <3>3 DEF Adds, event
    <3>5. Publish(event, c) /\ event.order = o
      BY <3>1, <3>2
    <3>6. Emits(event, c)
      <4> HIDE DEF event, c
      <4> QED BY <2>1, <3>4, <3>5 DEF Changes
    <3> QED BY <3>6
  <2>2. CASE \E k \in DOMAIN side :
               /\ side[k].order = o
               /\ \/ Publish(Removed(o), RemoveAt(side, k))
                  \/ \E left \in 1..(side[k].left - 1) :
                       Publish(Upserted(o, left), [side EXCEPT ![k] = Entry(o, left)])
    <3>1. PICK k \in DOMAIN side :
               /\ side[k].order = o
               /\ \/ Publish(Removed(o), RemoveAt(side, k))
                  \/ \E left \in 1..(side[k].left - 1) :
                       Publish(Upserted(o, left), [side EXCEPT ![k] = Entry(o, left)])
      BY <2>2
    <3>2. Has(side, o)
      BY <3>1 DEF Has
    <3> HIDE DEF side
    <3>3. CASE Publish(Removed(o), RemoveAt(side, k))
      <4> DEFINE event == Removed(o)
                 c == RemoveAt(side, k)
      <4>1. IsRemoval(event) /\ event.order = o
        BY DEF Removed, IsRemoval
      <4> HIDE DEF event
      <4>2. Removes(side, c, event) /\ Publish(event, c)
        BY <3>1, <3>3, <4>1 DEF Removes, event
      <4>3. ~Adds(side, c, event)
        BY <3>2, <4>1 DEF Adds
      <4>4. Emits(event, c)
        <5> HIDE DEF c
        <5> QED BY <4>1, <4>2, <4>3 DEF Changes
      <4> QED BY <4>4
    <3>4. ASSUME NEW left \in 1..(side[k].left - 1),
                 Publish(Upserted(o, left), [side EXCEPT ![k] = Entry(o, left)])
          PROVE  \E event, c : Emits(event, c)
      <4> DEFINE event == Upserted(o, left)
                 c == [side EXCEPT ![k] = Entry(o, left)]
      <4>1. side[k].left \in Nat
        BY <1>1, SideFields
      <4>2. IsUpsert(event) /\ event.order = o /\ event.left = left
        BY <4>1 DEF Upserted, IsUpsert
      <4> HIDE DEF event
      <4>3. Updates(side, c, event) /\ Publish(event, c)
        BY <3>1, <3>4, <4>2 DEF Updates, event
      <4>4. ~Adds(side, c, event)
        BY <3>2, <4>2 DEF Adds
      <4>5. Emits(event, c)
        <5> HIDE DEF c
        <5> QED BY <4>2, <4>3, <4>4 DEF Changes
      <4> QED BY <4>5
    <3> QED BY <3>1, <3>3, <3>4
  <2> QED BY <2>1, <2>2 DEF Emit
<1>3. PICK event, c : Emits(event, c)
  BY <1>2
<1> HIDE DEF side
<1>4. event \in BookEvent /\ (IsUpsert(event) \/ IsRemoval(event))
  BY <1>3, EventFields DEF Changes, Updates, Adds, Removes
<1> QED BY <1>1, <1>3, <1>4, PublishStep

(***************************************************************************)
(* What the other pages and the contract do leaves what is known.          *)
(***************************************************************************)

\* The chain goes on and the database stays.
Onward ==
  /\ ChainInv' /\ LogGrown /\ head <= head' /\ dropped <= dropped'
  /\ UNCHANGED <<setting, dbVars>>

\* A step of the chain alone.
Forward == Onward /\ UNCHANGED <<pass, shown>>

\* Every step of the chain is one.
LEMMA ChainStep ==
  ASSUME ChainInv, Chain
  PROVE  Forward
<1>1. head \in Nat /\ dropped \in Nat /\ head <= Len(log) /\ dropped <= head /\ Len(log) \in Nat
  BY ChainFields DEF ChainInv, ChainType
<1>2. ASSUME NEW o \in Order, Emit(o) PROVE Forward
  <2>1. ChainInv' /\ LogGrown
    BY <1>2, EmitStep
  <2> QED BY <1>1, <1>2, <2>1 DEF Emit, Onward, Forward
<1>3. ASSUME UNCHANGED contract, head' \in 0..Len(log), dropped' \in 0..head'
      PROVE  ChainInv' /\ LogGrown
  <2>1. log' = log /\ books' = books
    BY <1>3 DEF contract
  <2>2. ChainType'
    BY <1>3, <2>1 DEF ChainInv, ChainType
  <2>3. \A n \in 1..Len(log) :
          /\ n \in 2..Len(log) => IsChange(n)'
          /\ History(n)'
          /\ \A s \in Bookside : IsSide(books'[n][s], s) /\ Len(books'[n][s]) < n
    BY <2>1 DEF ChainInv, IsChange, History, SideAfter
  <2> QED BY <1>1, <2>1, <2>2, <2>3 DEF ChainInv, LogGrown
<1>4. CASE Index
  <2>1. ChainInv' /\ LogGrown
    BY <1>1, <1>3, <1>4 DEF Index
  <2> QED BY <1>1, <1>4, <2>1 DEF Index, Onward, Forward
<1>5. CASE Expire
  <2>1. ChainInv' /\ LogGrown
    BY <1>1, <1>3, <1>5 DEF Expire
  <2> QED BY <1>1, <1>5, <2>1 DEF Expire, Onward, Forward
<1> QED BY <1>2, <1>4, <1>5 DEF Chain

\* Rows that were a side of the book after some event still were.
LEMMA RowsStay ==
  ASSUME LogGrown, NEW n \in 1..Len(log), NEW m \in Nat, NEW rows, NEW s
  PROVE  /\ Matches(rows, s, n) => Matches(rows, s, n)'
         /\ Mixed(rows, s, m, n) => Mixed(rows, s, m, n)'
         /\ IsListing(books[n][s], rows, s) => IsListing(books'[n][s], rows, s)
<1>1. books'[n] = books[n] /\ \A j \in (m + 1)..n : log'[j] = log[j]
  BY DEF LogGrown
<1> QED BY <1>1 DEF Matches, Mixed

\* Rows that are in step stay so while the log grows.
LEMMA InStepStays ==
  ASSUME LogGrown, NEW m \in 1..Len(log), NEW top \in 1..Len(log), NEW later, top <= later,
         later \in Nat, NEW rows, NEW s, InStep(rows, s, m, top)
  PROVE  InStep(rows, s, m, later)'
<1>1. CASE Matches(rows, s, m)
  BY <1>1, RowsStay DEF InStep
<1>2. CASE \E n \in m..top : Mixed(rows, s, m, n)
  <2>1. PICK n \in m..top : Mixed(rows, s, m, n)
    BY <1>2
  <2>2. n \in 1..Len(log) /\ n \in m..later /\ m \in Nat
    BY DEF LogGrown
  <2>3. Mixed(rows, s, m, n)'
    BY <2>1, <2>2, RowsStay
  <2> QED BY <2>2, <2>3 DEF InStep
<1> QED BY <1>1, <1>2 DEF InStep

\* So does the content of the database.
LEMMA ContentStays ==
  ASSUME ChainInv, LogGrown, NEW initialized, NEW last, NEW rows, NEW done,
         Content(initialized, last, rows, done)
  PROVE  /\ Content(initialized, last, rows, done)'
         /\ \A upto : Whole(initialized, last, rows, done, upto) =>
                        Whole(initialized, last, rows, done, upto)'
<1>1. PICK before, later : before = Len(log) /\ later = Len(log')
  OBVIOUS
<1>2. before \in Nat \ {0} /\ later \in Nat /\ before <= later /\ last \in 0..(before - 1)
  BY <1>1, ChainFields DEF LogGrown, Content
<1>3. last + 1 \in 1..before /\ before \in 1..before
  BY <1>2
<1>4. ASSUME initialized, NEW s \in Bookside PROVE InStep(rows, s, last + 1, later)'
  <2>1. InStep(rows, s, last + 1, before)
    BY <1>1, <1>4 DEF Content
  <2> QED BY <1>1, <1>2, <1>3, <2>1, InStepStays
<1>5. last \in 0..(later - 1)
  BY <1>2
<1>6. Content(initialized, last, rows, done)'
  BY <1>1, <1>4, <1>5 DEF Content
<1>7. ASSUME NEW s \in Bookside, Matches(rows, s, last + 1) PROVE Matches(rows, s, last + 1)'
  BY <1>1, <1>2, <1>3, <1>7, RowsStay
<1> QED BY <1>6, <1>7 DEF Whole

\* A step of the chain keeps the invariant.
LEMMA OnwardKeepsDb ==
  ASSUME ChainInv, DbInv, Onward
  PROVE  DbInv'
<1>1. PICK i, l, r, d, c : /\ i = meta.initialized /\ l = meta.last /\ r = orders
                           /\ d = processed /\ c = meta.cursor
  OBVIOUS
<1>2. /\ meta' = meta /\ orders' = orders /\ processed' = processed /\ genuine' = genuine
      /\ head <= head' /\ dropped <= dropped' /\ head \in Nat /\ dropped \in Nat
      /\ head' \in Nat /\ dropped' \in Nat
  BY DEF Onward, setting, dbVars, ChainInv, ChainType
<1>3. Content(i, l, r, d)' /\ Whole(i, l, r, d, c)'
  BY <1>1, ContentStays DEF Onward, DbInv
<1>4. /\ Content(meta.initialized, meta.last, orders, processed)'
      /\ Whole(meta.initialized, meta.last, orders, processed, meta.cursor)'
  BY <1>1, <1>2, <1>3
<1>5. IsMeta(meta)' /\ meta'.cursor <= head'
  BY <1>2 DEF DbInv, IsMeta, NoCursor
<1>6. NeverWedged'
  BY <1>2 DEF DbInv, NeverWedged, Replayed
<1>7. /\ (~meta.initialized => meta.cursor \in {NoCursor, 0})'
      /\ (meta.initialized /\ 1 \notin processed => dropped >= 1 /\ meta.cursor # 0)'
      /\ (meta.verified => genuine)'
  BY <1>2 DEF DbInv
<1> QED BY <1>4, <1>5, <1>6, <1>7 DEF DbInv

\* What is displayed stays true while the log grows.
LEMMA ForwardKeepsShown ==
  ASSUME ChainInv, ShownIsReal, \A p \in Page : shown[p].last \in Nat, Forward
  PROVE  ShownIsReal'
<1> SUFFICES ASSUME NEW p \in Page, shown[p].status = "synced"
             PROVE  /\ storage[p] = "trustless" => genuine
                    /\ \A s \in Bookside : \E n \in (shown[p].last + 1)..Len(log') :
                         IsListing(books'[n][s], shown[p].orders, s)
  BY DEF Forward, Onward, setting, ShownIsReal, BookAfter
<1>1. storage[p] = "trustless" => genuine
  BY DEF ShownIsReal
<1>2. ASSUME NEW s \in Bookside
      PROVE  \E n \in (shown[p].last + 1)..Len(log') : IsListing(books'[n][s], shown[p].orders, s)
  <2>1. PICK n \in (shown[p].last + 1)..Len(log) : IsListing(books[n][s], shown[p].orders, s)
    BY DEF ShownIsReal, BookAfter
  <2>2. n \in 1..Len(log) /\ n \in (shown[p].last + 1)..Len(log')
    BY DEF Forward, Onward, LogGrown
  <2>3. books'[n] = books[n]
    BY <2>2 DEF Forward, Onward, LogGrown
  <2> QED BY <2>1, <2>2, <2>3
<1> QED BY <1>1, <1>2

\* What a recovery has copied stays a copy.
LEMMA OnwardKeepsCopied ==
  ASSUME ChainInv, DbInv, Onward, Copied
  PROVE  Copied'
<1>1. meta' = meta /\ orders' = orders /\ processed' = processed /\ meta.last \in Nat
  BY DEF Onward, dbVars, DbInv, IsMeta
<1>2. ASSUME NEW s \in Bookside,
             NEW n \in (meta.last + 1)..Len(log), IsListing(books[n][s], orders, s)
      PROVE  \E m \in (meta.last + 1)..Len(log') : IsListing(books'[m][s], orders, s)
  <2>1. n \in 1..Len(log) /\ n \in (meta.last + 1)..Len(log')
    BY <1>1 DEF Onward, LogGrown
  <2>2. books'[n] = books[n]
    BY <2>1 DEF Onward, LogGrown
  <2> QED BY <1>2, <2>1, <2>2
<1> QED BY <1>1, <1>2 DEF Copied

\* A pass knows as much after a step of the chain as before.
LEMMA OnwardKeepsPass ==
  ASSUME ChainInv, DbInv, Onward, NEW p, NEW j, PassInv(p, j)
  PROVE  PassInv(p, j)'
<1>1. /\ meta' = meta /\ orders' = orders /\ processed' = processed /\ genuine' = genuine
      /\ storage' = storage
      /\ head <= head' /\ dropped <= dropped' /\ head \in Nat /\ dropped \in Nat
      /\ head' \in Nat /\ dropped' \in Nat
  BY DEF Onward, setting, dbVars, ChainInv, ChainType
<1>2. Copied => Copied'
  BY OnwardKeepsCopied
<1>3. FetchInv(j)'
  BY <1>1, <1>2 DEF PassInv, FetchInv
<1>4. ApplyInv(j)'
  <2>1. 0..head \subseteq 0..head' /\ \A from : from..head \subseteq from..head'
    BY <1>1
  <2> QED BY <1>1, <1>2, <2>1 DEF PassInv, ApplyInv
<1>5. \A m : Holds(m) => Holds(m)'
  BY <1>1 DEF Holds, IsMeta
<1>6. ASSUME NEW m, IsMeta(m), TargetRead(m) PROVE TargetRead(m)'
  <2>1. PICK rows, low, top : rows = orders /\ low = m.last + 1 /\ top = m.target + 1
    OBVIOUS
  <2>2. Len(log) \in Nat /\ Len(log') \in Nat /\ Len(log) <= Len(log') /\ LogGrown
    BY DEF Onward, LogGrown
  <2>3. m.target \in m.last..(Len(log') - 1) /\ low \in 1..Len(log) /\ top \in 1..Len(log)
    BY <1>6, <2>1, <2>2 DEF TargetRead, IsMeta
  <2>4. ASSUME m.initialized, NEW s \in Bookside PROVE InStep(rows, s, low, top)'
    <3>1. InStep(rows, s, low, top)
      BY <1>6, <2>1, <2>4 DEF TargetRead
    <3>2. top \in Nat /\ top <= top
      BY <2>2, <2>3
    <3> QED BY <2>2, <2>3, <3>1, <3>2, InStepStays
  <2> QED BY <1>1, <2>1, <2>3, <2>4 DEF TargetRead
<1>7. VerifyInv(j)' /\ PutInv(j)'
  BY <1>5, <1>6 DEF PassInv, VerifyInv, PutInv, Holds
<1>8. ReleaseInv(j)'
  BY <1>1 DEF PassInv, ReleaseInv
<1>9. SidesInv(p, j)'
  <2>1. SUFFICES ASSUME j.at = "sides" PROVE SidesInv(p, j)'
    BY DEF SidesInv
  <2>2. j.last \in 0..(Len(log) - 1) /\ Len(log) \in Nat /\ Len(log') \in Nat /\ Len(log) <= Len(log')
    BY <2>1 DEF PassInv, SidesInv, Onward, LogGrown
  <2>3. \A n \in (j.last + 1)..Len(log) : n \in (j.last + 1)..Len(log') /\ books'[n] = books[n]
    BY <2>2 DEF Onward, LogGrown
  <2>4. /\ storage[p] = "trustless" => genuine /\ j.start \in 1..dropped
        /\ DOMAIN j.sides \subseteq Bookside
        /\ \A s \in DOMAIN j.sides : \E n \in (j.last + 1)..Len(log) : j.sides[s] = books[n][s]
    BY <2>1 DEF PassInv, SidesInv
  <2>5. \A s \in DOMAIN j.sides : \E n \in (j.last + 1)..Len(log') : j.sides[s] = books'[n][s]
    BY <2>3, <2>4
  <2> QED BY <1>1, <2>2, <2>4, <2>5 DEF SidesInv
<1> QED BY <1>3, <1>4, <1>7, <1>8, <1>9 DEF PassInv

\* A step of the chain keeps the invariant.
LEMMA ForwardKeeps ==
  ASSUME IndexInv, Forward
  PROVE  IndexInv'
<1>1. pass' = pass /\ shown' = shown
  BY DEF Forward
<1>2. ASSUME NEW p \in Page PROVE PassInv(p, pass[p])'
  <2>1. PICK j : j = pass[p]
    OBVIOUS
  <2>2. PassInv(p, j)'
    BY <2>1, OnwardKeepsPass DEF IndexInv, Forward
  <2> QED BY <1>1, <2>1, <2>2
<1> QED BY <1>1, <1>2, OnwardKeepsDb, ForwardKeepsShown DEF IndexInv, Forward, Onward

(***************************************************************************)
(* The rows of a side.                                                     *)
(***************************************************************************)

\* Rows that agree with a side list it.
LEMMA MatchesList ==
  ASSUME NEW side, NEW s, IsSide(side, s), NEW rows, Keyed(rows), NEW n,
         IsSideOf(side, rows, s, n)
  PROVE  IsListing(side, rows, s)
<1> DEFINE mine == {r \in rows : SideOf[r.order] = s}
           row == [k \in DOMAIN side |-> CHOOSE r \in rows : side[k] = Entry(r.order, r.left)]
<1>1. ASSUME NEW k \in DOMAIN side
      PROVE  /\ row[k] \in mine /\ side[k] = Entry(row[k].order, row[k].left)
             /\ row[k].order = side[k].order
  <2>1. row[k] \in rows /\ side[k] = Entry(row[k].order, row[k].left)
    BY DEF IsSideOf
  <2> HIDE DEF row
  <2>2. row[k].order = side[k].order
    BY <2>1 DEF Entry
  <2> QED BY <2>1, <2>2 DEF IsSide
<1>2. row \in [DOMAIN side -> mine]
  BY <1>1
<1> HIDE DEF row
<1>3. ASSUME NEW r \in mine PROVE \E k \in DOMAIN side : row[k] = r
  <2>1. PICK k \in DOMAIN side : side[k].order = r.order
    BY DEF IsSideOf, Has
  <2> QED BY <1>1, <2>1 DEF Keyed
<1>4. ASSUME NEW k \in DOMAIN side, NEW l \in DOMAIN side, k < l PROVE Precedes(row[k], row[l])
  BY <1>1, <1>4 DEF IsSideOf
<1> QED BY <1>1, <1>2, <1>3, <1>4 DEF IsListing

\* Rows copied from a side, with every later event applied, agree with it.
LEMMA MixedMatches ==
  ASSUME ChainInv, NEW s \in Bookside, NEW n \in 1..Len(log), NEW rows, Keyed(rows),
         Mixed(rows, s, n, n)
  PROVE  Matches(rows, s, n)
<1> DEFINE side == books[n][s]
<1>1. IsSide(side, s) /\ Len(side) < n /\ Len(side) \in Nat /\ DOMAIN side = 1..Len(side)
  BY SideFields DEF ChainInv
<1>2. \A j \in (n + 1)..n : FALSE
  OBVIOUS
<1> HIDE DEF side
<1>3. /\ \A k \in DOMAIN side : \E r \in rows : /\ r.order = side[k].order /\ r.priority = k
                                                /\ r.left = side[k].left
      /\ \A r \in rows : SideOf[r.order] = s => Has(side, r.order)
  BY <1>2 DEF Mixed, side
<1>4. \A r \in rows : \A k \in DOMAIN side : r.order = side[k].order => r.priority = k
  BY <1>3 DEF Keyed
<1>5. \A k \in DOMAIN side : \E r \in rows : side[k] = Entry(r.order, r.left)
  BY <1>1, <1>3, SideFields
<1>6. \A r \in rows : SideOf[r.order] = s => Has(side, r.order) /\ r.priority < n
  BY <1>1, <1>3, <1>4 DEF Has
<1>7. ASSUME NEW q \in rows, NEW r \in rows, NEW k \in DOMAIN side, NEW l \in DOMAIN side,
             q.order = side[k].order, r.order = side[l].order, k < l
      PROVE  Precedes(q, r)
  <2>1. q.priority = k /\ r.priority = l /\ Rank[q.order] <= Rank[r.order]
    BY <1>1, <1>4, <1>7 DEF IsSide
  <2>2. Rank[q.order] \in Nat /\ Rank[r.order] \in Nat
    BY <1>1, <1>7, SideFields
  <2> QED BY <1>7, <2>1, <2>2 DEF Precedes
<1>8. IsSideOf(side, rows, s, n)
  BY <1>5, <1>6, <1>7 DEF IsSideOf
<1> QED BY <1>8 DEF Matches, side

\* What an update makes of the rows.
LEMMA PutRows ==
  ASSUME NEW rows, Keyed(rows), NEW event, IsUpsert(event), NEW sequence \in Nat,
         NEW new, new = PutOrder(rows, event, sequence)
  PROVE  /\ Keyed(new)
         /\ \A r : r.order # event.order => (r \in new <=> r \in rows)
         /\ \E r \in new : /\ r.order = event.order /\ r.left = event.left
                           /\ \A q \in rows : q.order = event.order => r.priority = q.priority
                           /\ (\A q \in rows : q.order # event.order) => r.priority = sequence
<1> DEFINE o == event.order
           old == RowsOf(rows, o)
           r == [order |-> o, left |-> event.left,
                 priority |-> IF old = {} THEN sequence ELSE (CHOOSE q \in old : TRUE).priority]
<1>1. new = (rows \ old) \cup {r} /\ o \in Order
  BY EventFields DEF PutOrder
<1>2. \A q : q \in old <=> q \in rows /\ q.order = o
  BY DEF RowsOf
<1>3. ASSUME NEW q \in rows, q.order = o PROVE r.priority = q.priority
  <2>1. (CHOOSE p \in old : TRUE) \in old /\ q \in old
    BY <1>2, <1>3
  <2> QED BY <1>2, <1>3, <2>1 DEF Keyed
<1>4. (\A q \in rows : q.order # o) => r.priority = sequence
  BY <1>2
<1>5. IsRow(r)
  <2>1. r.priority \in Nat
    BY <1>3, <1>4 DEF Keyed, IsRow
  <2> QED BY <1>1, <2>1 DEF IsRow
<1>6. r.order = o /\ r.left = event.left
  OBVIOUS
<1> HIDE DEF r, old
<1>7. Keyed(new)
  BY <1>1, <1>2, <1>5, <1>6 DEF Keyed
<1> QED BY <1>1, <1>2, <1>3, <1>4, <1>6, <1>7

\* What a removal makes of them.
LEMMA DropRows ==
  ASSUME NEW rows, Keyed(rows), NEW o, NEW new, new = rows \ RowsOf(rows, o)
  PROVE  Keyed(new) /\ \A r : r \in new <=> r \in rows /\ r.order # o
BY DEF Keyed, RowsOf

\* Rows of another side are left alone.
LEMMA OtherSide ==
  ASSUME NEW b, NEW s, IsSide(b, s), NEW rows, Keyed(rows), NEW n \in Nat, IsSideOf(b, rows, s, n),
         NEW o, SideOf[o] # s, NEW new, \A r : r.order # o => (r \in new <=> r \in rows)
  PROVE  IsSideOf(b, new, s, n + 1)
<1>1. \A k \in DOMAIN b : b[k].order # o
  BY DEF IsSide
<1>2. \A r \in rows : r.priority \in Nat
  BY DEF Keyed, IsRow
<1>3. ASSUME NEW k \in DOMAIN b PROVE \E r \in new : b[k] = Entry(r.order, r.left)
  <2>1. PICK r \in rows : b[k] = Entry(r.order, r.left)
    BY DEF IsSideOf
  <2> QED BY <1>1, <2>1 DEF Entry
<1>4. ASSUME NEW r \in new, SideOf[r.order] = s PROVE Has(b, r.order) /\ r.priority < n + 1
  <2>1. r \in rows
    BY <1>4
  <2> QED BY <1>2, <1>4, <2>1 DEF IsSideOf
<1>5. \A q, r \in new : \A k, l \in DOMAIN b :
        q.order = b[k].order /\ r.order = b[l].order /\ k < l => Precedes(q, r)
  BY <1>1 DEF IsSideOf
<1> QED BY <1>3, <1>4, <1>5 DEF IsSideOf

\* An update of an order that is listed leaves it where it is.
LEMMA UpdateRows ==
  ASSUME NEW b, NEW s, IsSide(b, s), NEW rows, Keyed(rows), NEW n \in Nat, IsSideOf(b, rows, s, n),
         NEW event, SideOf[event.order] = s, NEW c, Updates(b, c, event),
         NEW new, new = PutOrder(rows, event, n)
  PROVE  IsSideOf(c, new, s, n + 1)
<1> DEFINE o == event.order
<1>1. PICK i \in DOMAIN b : b[i].order = o /\ c = [b EXCEPT ![i] = Entry(o, event.left)]
  BY DEF Updates
<1>2. /\ DOMAIN c = DOMAIN b /\ c[i] = Entry(o, event.left)
      /\ \A k \in DOMAIN b : k # i => c[k] = b[k]
  BY <1>1
<1>3. \A k \in DOMAIN b : c[k].order = b[k].order /\ (k # i => b[k].order # o)
  <2>1. \A k \in DOMAIN b : k # i => b[k].order # o
    BY <1>1, SideFields DEF IsSide
  <2> QED BY <1>1, <1>2, <2>1, EntryFields
<1>4. /\ Keyed(new)
      /\ \A r : r.order # o => (r \in new <=> r \in rows)
  BY PutRows DEF Updates
<1>5. PICK u \in new : /\ u.order = o /\ u.left = event.left
                       /\ \A q \in rows : q.order = o => u.priority = q.priority
  BY PutRows DEF Updates
<1>6. PICK q \in rows : q.order = o
  <2>1. PICK q \in rows : b[i] = Entry(q.order, q.left)
    BY DEF IsSideOf
  <2> QED BY <1>1, <2>1 DEF Entry
<1>7. \A r \in new : r.order = o => r = u
  BY <1>4, <1>5 DEF Keyed
<1>8. \A r \in new : \E p \in rows : p.order = r.order /\ p.priority = r.priority
  BY <1>4, <1>5, <1>6, <1>7
<1>9. ASSUME NEW k \in DOMAIN c PROVE \E r \in new : c[k] = Entry(r.order, r.left)
  <2>1. CASE k = i
    BY <1>2, <1>5, <2>1
  <2>2. CASE k # i
    <3>1. PICK r \in rows : b[k] = Entry(r.order, r.left)
      BY <1>2 DEF IsSideOf
    <3>2. r.order = b[k].order
      BY <3>1 DEF Entry
    <3> QED BY <1>2, <1>3, <1>4, <2>2, <3>1, <3>2
  <2> QED BY <2>1, <2>2
<1>10. ASSUME NEW r \in new, SideOf[r.order] = s PROVE Has(c, r.order) /\ r.priority < n + 1
  <2>1. PICK p \in rows : p.order = r.order /\ p.priority = r.priority
    BY <1>8
  <2>2. Has(b, r.order) /\ p.priority < n /\ p.priority \in Nat
    BY <1>10, <2>1 DEF IsSideOf, Keyed, IsRow
  <2> QED BY <1>2, <1>3, <2>1, <2>2 DEF Has
<1>11. ASSUME NEW r \in new, NEW t \in new, NEW k \in DOMAIN c, NEW l \in DOMAIN c,
              r.order = c[k].order, t.order = c[l].order, k < l
       PROVE  Precedes(r, t)
  <2>1. PICK p \in rows : p.order = r.order /\ p.priority = r.priority
    BY <1>8
  <2>2. PICK v \in rows : v.order = t.order /\ v.priority = t.priority
    BY <1>8
  <2>3. Precedes(p, v)
    BY <1>2, <1>3, <1>11, <2>1, <2>2 DEF IsSideOf
  <2> QED BY <2>1, <2>2, <2>3 DEF Precedes
<1> QED BY <1>9, <1>10, <1>11 DEF IsSideOf

\* A new order comes to rest behind the orders of its price.
LEMMA AddRows ==
  ASSUME NEW b, NEW s, IsSide(b, s), NEW rows, Keyed(rows), NEW n \in Nat, IsSideOf(b, rows, s, n),
         NEW event, SideOf[event.order] = s, NEW c, Adds(b, c, event),
         NEW new, new = PutOrder(rows, event, n)
  PROVE  IsSideOf(c, new, s, n + 1)
<1> DEFINE o == event.order
           e == Entry(o, event.left)
<1>1. PICK i \in 1..(Len(b) + 1) : Behind(b, o, i) /\ c = InsertAt(b, i, e)
  BY DEF Adds
<1>2. /\ e \in Entries /\ e.order = o /\ o \in Order /\ Len(b) \in Nat /\ DOMAIN b = 1..Len(b)
      /\ b \in Seq(Entries)
  BY EventFields, EntryFields, SideFields DEF Adds
<1> HIDE DEF e
<1>3. /\ DOMAIN c = 1..(Len(b) + 1) /\ c[i] = e
      /\ \A k \in 1..(Len(b) + 1) : k < i => c[k] = b[k]
      /\ \A k \in 1..(Len(b) + 1) : k > i => c[k] = b[k - 1]
  <2>1. /\ c \in Seq(Entries) /\ Len(c) = Len(b) + 1
        /\ \A l \in 1..(Len(b) + 1) : c[l] = IF l < i THEN b[l] ELSE IF l = i THEN e ELSE b[l - 1]
    <3>1. c \in Seq(Entries) /\ IsInsertion(c, b, i, e)
      BY <1>1, <1>2, InsertAtInserts
    <3> QED BY <3>1 DEF IsInsertion
  <2>2. DOMAIN c = 1..(Len(b) + 1)
    BY <2>1, <1>2
  <2> QED BY <1>1, <1>2, <2>1, <2>2
<1>4. /\ Keyed(new)
      /\ \A r : r.order # o => (r \in new <=> r \in rows)
  BY PutRows DEF Adds
<1>5. \A k \in DOMAIN b : b[k].order # o
  BY DEF Adds, Has
<1>6. \A r \in rows : r.order # o
  BY <1>5 DEF IsSideOf, Has
<1>7. PICK u \in new : u.order = o /\ u.left = event.left /\ u.priority = n
  BY <1>6, PutRows DEF Adds
<1>8. \A r \in new : (r.order = o => r = u) /\ (r.order # o => r \in rows)
  BY <1>4, <1>7 DEF Keyed
<1>9. \A r \in rows : r.priority \in Nat /\ r \in new
  BY <1>4, <1>6 DEF Keyed, IsRow
<1>10. ASSUME NEW k \in DOMAIN c PROVE \E r \in new : c[k] = Entry(r.order, r.left)
  <2>1. CASE k = i
    BY <1>3, <1>7, <2>1 DEF e
  <2>2. CASE k # i
    <3>1. PICK m \in DOMAIN b : c[k] = b[m]
      BY <1>2, <1>3, <2>2
    <3> QED BY <1>9, <3>1 DEF IsSideOf
  <2> QED BY <2>1, <2>2
<1>11. \A m \in DOMAIN b : \E k \in DOMAIN c : c[k] = b[m]
  <2> TAKE m \in DOMAIN b
  <2>1. (m < i => m \in DOMAIN c /\ c[m] = b[m]) /\ (m >= i => m + 1 \in DOMAIN c /\ c[m + 1] = b[m])
    BY <1>2, <1>3
  <2> QED BY <1>2, <2>1
<1>12. ASSUME NEW r \in new, SideOf[r.order] = s PROVE Has(c, r.order) /\ r.priority < n + 1
  <2>1. CASE r.order = o
    BY <1>1, <1>2, <1>3, <1>7, <1>8, <2>1 DEF Has
  <2>2. CASE r.order # o
    <3>1. Has(b, r.order) /\ r.priority < n /\ r.priority \in Nat
      BY <1>8, <1>9, <1>12, <2>2 DEF IsSideOf
    <3> QED BY <1>11, <3>1 DEF Has
  <2> QED BY <2>1, <2>2
<1>13. ASSUME NEW r \in new, NEW t \in new, NEW k \in DOMAIN c, NEW l \in DOMAIN c,
              r.order = c[k].order, t.order = c[l].order, k < l
       PROVE  Precedes(r, t)
  <2>1. \A p, q \in rows : \A x, y \in DOMAIN b :
          p.order = b[x].order /\ q.order = b[y].order /\ x < y => Precedes(p, q)
    BY DEF IsSideOf
  <2>2. /\ \A x \in 1..(i - 1) : Rank[b[x].order] <= Rank[o]
        /\ \A x \in i..Len(b) : Rank[b[x].order] > Rank[o]
    BY <1>1 DEF Behind
  <2>3. \A x \in DOMAIN b : Rank[b[x].order] \in Nat /\ SideOf[b[x].order] = s
    BY SideFields
  <2>4. Rank[o] \in Nat
    BY <1>2, IndexAssumption
  <2>5. CASE k # i /\ l # i
    <3>1. PICK x \in DOMAIN b, y \in DOMAIN b : c[k] = b[x] /\ c[l] = b[y] /\ x < y
      <4>1. CASE k < i /\ l < i
        BY <1>2, <1>3, <1>13, <4>1
      <4>2. CASE k < i /\ l > i
        <5>1. c[k] = b[k] /\ c[l] = b[l - 1] /\ k \in DOMAIN b /\ l - 1 \in DOMAIN b /\ k < l - 1
          BY <1>2, <1>3, <4>2
        <5> QED BY <5>1
      <4>3. CASE k > i /\ l > i
        <5>1. /\ c[k] = b[k - 1] /\ c[l] = b[l - 1] /\ k - 1 \in DOMAIN b /\ l - 1 \in DOMAIN b
              /\ k - 1 < l - 1
          BY <1>2, <1>3, <1>13, <4>3
        <5> QED BY <5>1
      <4> QED BY <1>2, <1>3, <1>13, <2>5, <4>1, <4>2, <4>3
    <3>2. r \in rows /\ t \in rows
      BY <1>5, <1>8, <1>13, <3>1
    <3> QED BY <1>13, <2>1, <3>1, <3>2
  <2>6. CASE k = i
    <3>1. c[k] = e /\ c[l] = b[l - 1] /\ l - 1 \in i..Len(b) /\ l - 1 \in DOMAIN b
      BY <1>2, <1>3, <1>13, <2>6
    <3>2. r.order = o /\ Rank[t.order] > Rank[o] /\ Rank[t.order] \in Nat
      BY <1>2, <1>13, <2>2, <2>3, <3>1
    <3> QED BY <2>4, <3>2 DEF Precedes
  <2>7. CASE l = i
    <3>1. c[l] = e /\ c[k] = b[k] /\ k \in 1..(i - 1) /\ k \in DOMAIN b
      BY <1>2, <1>3, <1>13, <2>7
    <3>2. t = u /\ Rank[r.order] <= Rank[o] /\ Rank[r.order] \in Nat /\ SideOf[r.order] = s /\ r \in rows
      BY <1>2, <1>5, <1>8, <1>13, <2>2, <2>3, <3>1
    <3>3. r.priority < n
      BY <3>2 DEF IsSideOf
    <3> QED BY <1>7, <1>9, <2>4, <3>2, <3>3 DEF Precedes
  <2> QED BY <2>5, <2>6, <2>7
<1> QED BY <1>10, <1>12, <1>13 DEF IsSideOf

\* A removed order leaves the rows, which had it.
LEMMA RemoveRows ==
  ASSUME NEW b, NEW s, IsSide(b, s), NEW rows, Keyed(rows), NEW n \in Nat, IsSideOf(b, rows, s, n),
         NEW event, SideOf[event.order] = s, NEW c, Removes(b, c, event),
         NEW new, new = rows \ RowsOf(rows, event.order)
  PROVE  IsSideOf(c, new, s, n + 1) /\ RowsOf(rows, event.order) # {}
<1> DEFINE o == event.order
<1>1. PICK i \in DOMAIN b : b[i].order = o /\ c = RemoveAt(b, i)
  BY DEF Removes
<1>2. Len(b) \in Nat /\ DOMAIN b = 1..Len(b) /\ b \in Seq(Entries)
  BY SideFields
<1>3. /\ DOMAIN c = 1..(Len(b) - 1)
      /\ \A k \in 1..(Len(b) - 1) : (k < i => c[k] = b[k]) /\ (k >= i => c[k] = b[k + 1])
  <2>1. /\ c \in Seq(Entries) /\ Len(c) = Len(b) - 1
        /\ \A l \in 1..(Len(b) - 1) : c[l] = IF l < i THEN b[l] ELSE b[l + 1]
    BY <1>1, <1>2, RemoveAtProperties
  <2> QED BY <1>2, <2>1
<1>4. \A r : r \in new <=> r \in rows /\ r.order # o
  BY DropRows
<1>5. \A k \in DOMAIN b : k # i => b[k].order # o
  BY <1>1, <1>2 DEF IsSide
<1>6. \A k \in DOMAIN c : \E x \in DOMAIN b : c[k] = b[x] /\ x # i
  <2> TAKE k \in DOMAIN c
  <2>1. (k < i => c[k] = b[k] /\ k \in DOMAIN b) /\ (k >= i => c[k] = b[k + 1] /\ k + 1 \in DOMAIN b)
    BY <1>2, <1>3
  <2> QED BY <1>2, <1>3, <2>1
<1>7. ASSUME NEW k \in DOMAIN c PROVE \E r \in new : c[k] = Entry(r.order, r.left)
  <2>1. PICK x \in DOMAIN b : c[k] = b[x] /\ x # i
    BY <1>6
  <2>2. PICK r \in rows : b[x] = Entry(r.order, r.left)
    BY DEF IsSideOf
  <2>3. r.order = b[x].order
    BY <2>2 DEF Entry
  <2> QED BY <1>4, <1>5, <2>1, <2>2, <2>3
<1>8. ASSUME NEW r \in new, SideOf[r.order] = s PROVE Has(c, r.order) /\ r.priority < n + 1
  <2>1. Has(b, r.order) /\ r.priority < n /\ r.priority \in Nat /\ r.order # o
    BY <1>4, <1>8 DEF IsSideOf, Keyed, IsRow
  <2>2. PICK x \in DOMAIN b : b[x].order = r.order /\ x # i
    BY <1>1, <2>1 DEF Has
  <2>3. /\ x < i => x \in DOMAIN c /\ c[x] = b[x]
        /\ x > i => x - 1 \in DOMAIN c /\ c[x - 1] = b[x]
    BY <1>2, <1>3
  <2> QED BY <1>2, <2>1, <2>2, <2>3 DEF Has
<1>9. ASSUME NEW r \in new, NEW t \in new, NEW k \in DOMAIN c, NEW l \in DOMAIN c,
             r.order = c[k].order, t.order = c[l].order, k < l
      PROVE  Precedes(r, t)
  <2>1. PICK x \in DOMAIN b, y \in DOMAIN b : c[k] = b[x] /\ c[l] = b[y] /\ x < y
    <3>1. /\ k < i => k \in DOMAIN b /\ c[k] = b[k]
          /\ k >= i => k + 1 \in DOMAIN b /\ c[k] = b[k + 1]
          /\ l < i => l \in DOMAIN b /\ c[l] = b[l]
          /\ l >= i => l + 1 \in DOMAIN b /\ c[l] = b[l + 1]
      BY <1>2, <1>3
    <3>2. k \in Nat /\ l \in Nat /\ i \in Nat
      BY <1>2, <1>3
    <3>3. CASE l < i
      BY <1>9, <3>1, <3>2, <3>3
    <3>4. CASE l >= i /\ k < i
      <4>1. k < l + 1
        BY <3>2, <3>4
      <4> QED BY <3>1, <3>4, <4>1
    <3>5. CASE l >= i /\ k >= i
      <4>1. k + 1 < l + 1
        BY <1>9, <3>2
      <4> QED BY <3>1, <3>5, <4>1
    <3> QED BY <3>2, <3>3, <3>4, <3>5
  <2> QED BY <1>4, <1>9, <2>1 DEF IsSideOf
<1>10. RowsOf(rows, o) # {}
  <2>1. PICK r \in rows : b[i] = Entry(r.order, r.left)
    BY DEF IsSideOf
  <2> QED BY <1>1, <2>1 DEF Entry, RowsOf
<1> QED BY <1>7, <1>8, <1>9, <1>10 DEF IsSideOf

(***************************************************************************)
(* One event more.                                                         *)
(***************************************************************************)

\* What the event after the first n makes of the rows.
NextRows(rows, n) ==
  IF log[n + 1].type = "ordupsert" THEN PutOrder(rows, log[n + 1], n)
  ELSE rows \ RowsOf(rows, log[n + 1].order)

\* Either way the rows of other orders are left alone.
LEMMA NextRowsOf ==
  ASSUME ChainInv, NEW n \in 1..(Len(log) - 1), NEW rows, Keyed(rows),
         NEW new, new = NextRows(rows, n)
  PROVE  /\ Keyed(new) /\ n \in Nat /\ n + 1 \in 2..Len(log)
         /\ log[n + 1].order \in Order /\ SideOf[log[n + 1].order] \in Bookside
         /\ \A r : r.order # log[n + 1].order => (r \in new <=> r \in rows)
         /\ \/ IsUpsert(log[n + 1]) /\ new = PutOrder(rows, log[n + 1], n)
            \/ IsRemoval(log[n + 1]) /\ new = rows \ RowsOf(rows, log[n + 1].order)
<1>1. n \in Nat /\ n + 1 \in 2..Len(log) /\ (IsUpsert(log[n + 1]) \/ IsRemoval(log[n + 1]))
  <2>1. n \in Nat /\ n + 1 \in 2..Len(log)
    BY ChainFields
  <2> QED BY <2>1 DEF ChainInv, ChainType
<1>2. /\ IsUpsert(log[n + 1]) => log[n + 1].type = "ordupsert"
      /\ IsRemoval(log[n + 1]) => log[n + 1].type = "ordremove"
  BY EventFields
<1>3. CASE IsUpsert(log[n + 1])
  <2>1. new = PutOrder(rows, log[n + 1], n)
    BY <1>2, <1>3 DEF NextRows
  <2>2. Keyed(new) /\ \A r : r.order # log[n + 1].order => (r \in new <=> r \in rows)
    BY <1>1, <1>3, <2>1, PutRows
  <2> QED BY <1>1, <1>3, <2>1, <2>2, ChainFields
<1>4. CASE IsRemoval(log[n + 1])
  <2>1. new = rows \ RowsOf(rows, log[n + 1].order)
    BY <1>2, <1>4 DEF NextRows
  <2>2. PICK o : o = log[n + 1].order
    OBVIOUS
  <2>3. new = rows \ RowsOf(rows, o)
    BY <2>1, <2>2
  <2>4. Keyed(new) /\ \A r : r.order # log[n + 1].order => (r \in new <=> r \in rows)
    BY <2>2, <2>3, DropRows
  <2> QED BY <1>1, <1>4, <2>1, <2>4, ChainFields
<1> QED BY <1>1, <1>3, <1>4

\* Rows that are a side after n events follow it through the next one, and a
\* removal finds its order.
LEMMA MatchesOn ==
  ASSUME ChainInv, NEW n \in 1..(Len(log) - 1), NEW s \in Bookside, NEW rows, Keyed(rows),
         Matches(rows, s, n), NEW new, new = NextRows(rows, n)
  PROVE  /\ Matches(new, s, n + 1)
         /\ IsRemoval(log[n + 1]) /\ SideOf[log[n + 1].order] = s =>
              RowsOf(rows, log[n + 1].order) # {}
<1> DEFINE event == log[n + 1]
           o == event.order
           b == books[n][s]
           c == books[n + 1][s]
<1>1. /\ n \in Nat /\ n + 1 \in 2..Len(log) /\ o \in Order
      /\ \A r : r.order # o => (r \in new <=> r \in rows)
      /\ \/ IsUpsert(event) /\ new = PutOrder(rows, event, n)
         \/ IsRemoval(event) /\ new = rows \ RowsOf(rows, o)
  BY NextRowsOf
<1>2. (n + 1) - 1 = n /\ n \in 1..Len(log)
  BY <1>1, ChainFields
<1>3. IsSide(b, s) /\ IsSideOf(b, rows, s, n)
  BY <1>2, ChainFields DEF Matches
<1>4. /\ SideOf[o] = s => Changes(b, c, event)
      /\ SideOf[o] # s => c = b
  <2>1. IsChange(n + 1)
    BY <1>1 DEF ChainInv
  <2> QED BY <1>2, <2>1 DEF IsChange, SideAfter
<1>5. ~(IsUpsert(event) /\ IsRemoval(event))
  BY EventFields
<1> SUFFICES /\ IsSideOf(c, new, s, n + 1)
             /\ IsRemoval(event) /\ SideOf[o] = s => RowsOf(rows, o) # {}
  BY DEF Matches
<1> HIDE DEF event, b, c
<1>6. CASE SideOf[o] # s
  <2>1. IsSideOf(b, new, s, n + 1)
    BY <1>1, <1>3, <1>6, OtherSide
  <2> QED BY <1>4, <1>6, <2>1
<1>7. CASE SideOf[o] = s /\ Updates(b, c, event)
  <2>1. IsUpsert(event)
    BY <1>7 DEF Updates
  <2>2. IsSideOf(c, new, s, n + 1)
    BY <1>1, <1>3, <1>5, <1>7, <2>1, UpdateRows
  <2> QED BY <1>5, <2>1, <2>2
<1>8. CASE SideOf[o] = s /\ Adds(b, c, event)
  <2>1. IsUpsert(event)
    BY <1>8 DEF Adds
  <2>2. IsSideOf(c, new, s, n + 1)
    BY <1>1, <1>3, <1>5, <1>8, <2>1, AddRows
  <2> QED BY <1>5, <2>1, <2>2
<1>9. CASE SideOf[o] = s /\ Removes(b, c, event)
  <2>1. IsRemoval(event)
    BY <1>9 DEF Removes
  <2> QED BY <1>1, <1>3, <1>5, <1>9, <2>1, RemoveRows
<1> QED BY <1>4, <1>6, <1>7, <1>8, <1>9 DEF Changes

\* Rows that were copied after n events catch up with them by one.
LEMMA MixedOn ==
  ASSUME ChainInv, NEW m \in Nat \ {0}, NEW n \in (m + 1)..Len(log), NEW s \in Bookside,
         NEW rows, Keyed(rows), Mixed(rows, s, m, n), NEW new, new = NextRows(rows, m)
  PROVE  Mixed(new, s, m + 1, n)
<1> DEFINE event == log[m + 1]
           o == event.order
           side == books[n][s]
<1>0. m \in 1..(Len(log) - 1) /\ n \in 1..Len(log) /\ n \in Nat /\ m + 1 \in 2..n
  BY ChainFields
<1>1. /\ Keyed(new) /\ o \in Order
      /\ \A r : r.order # o => (r \in new <=> r \in rows)
      /\ \/ IsUpsert(event) /\ new = PutOrder(rows, event, m)
         \/ IsRemoval(event) /\ new = rows \ RowsOf(rows, o)
  BY <1>0, NextRowsOf
<1>2. IsSide(side, s)
  BY <1>0, ChainFields
<1>3. \A j \in (m + 1)..n : j = m + 1 \/ j \in (m + 2)..n
  BY <1>0
<1>4. /\ IsUpsert(event) /\ (\A i \in (m + 2)..n : log[i].order # o) =>
            Includes(SideAfter(n, o), Entry(o, event.left))
      /\ IsUpsert(event) /\ (\A i \in (m + 2)..n : log[i] # Removed(o)) => Has(SideAfter(n, o), o)
      /\ IsRemoval(event) => ~Has(SideAfter(n, o), o)
  <2>1. History(n)
    BY <1>0 DEF ChainInv
  <2>2. (m + 1) + 1 = m + 2
    OBVIOUS
  <2> QED BY <1>0, <2>1, <2>2 DEF History
<1>5. SideOf[o] = s => SideAfter(n, o) = side
  BY DEF SideAfter
<1>6. /\ \A k \in DOMAIN side : \E r \in rows :
           /\ r.order = side[k].order /\ r.priority = k
           /\ (\A j \in (m + 1)..n : log[j].order # r.order) => r.left = side[k].left
      /\ \A r \in rows : SideOf[r.order] = s =>
           Has(side, r.order) \/ \E j \in (m + 1)..n : log[j] = Removed(r.order)
  BY DEF Mixed
<1>7. IsUpsert(event) => event # Removed(event.order) /\ \A q : event # Removed(q)
  BY EventFields
<1>8. \A k \in DOMAIN side : side[k].order \in Order /\ SideOf[side[k].order] = s
  BY <1>2, SideFields
<1>9. \A q : event = Removed(q) => q = o
  BY DEF Removed
<1> SUFFICES /\ \A k \in DOMAIN side : \E r \in new :
                  /\ r.order = side[k].order /\ r.priority = k
                  /\ (\A j \in (m + 2)..n : log[j].order # r.order) => r.left = side[k].left
             /\ \A r \in new : SideOf[r.order] = s =>
                  Has(side, r.order) \/ \E j \in (m + 2)..n : log[j] = Removed(r.order)
  BY <1>0 DEF Mixed
<1> HIDE DEF side, event
<1>10. ASSUME NEW k \in DOMAIN side
       PROVE  \E r \in new :
                  /\ r.order = side[k].order /\ r.priority = k
                  /\ (\A j \in (m + 2)..n : log[j].order # r.order) => r.left = side[k].left
  <2>1. PICK r \in rows :
           /\ r.order = side[k].order /\ r.priority = k
           /\ (\A j \in (m + 1)..n : log[j].order # r.order) => r.left = side[k].left
    BY <1>6
  <2>2. CASE r.order # o
    <3>1. r \in new
      BY <1>1, <2>2
    <3>2. (\A j \in (m + 2)..n : log[j].order # r.order) => r.left = side[k].left
      BY <1>3, <2>1, <2>2 DEF event
    <3> QED BY <2>1, <3>1, <3>2
  <2>3. CASE r.order = o
    <3>1. SideOf[o] = s /\ Has(side, o)
      BY <1>8, <2>1, <2>3 DEF Has
    <3>2. IsUpsert(event) /\ new = PutOrder(rows, event, m)
      BY <1>1, <1>4, <1>5, <3>1
    <3>3. PICK u \in new : u.order = o /\ u.left = event.left /\ u.priority = r.priority
      BY <2>3, <3>2, PutRows
    <3>4. ASSUME \A j \in (m + 2)..n : log[j].order # o PROVE u.left = side[k].left
      <4>1. PICK l \in DOMAIN side : side[l] = Entry(o, event.left)
        BY <1>4, <1>5, <3>1, <3>2, <3>4 DEF Includes
      <4>2. side[l].order = o /\ side[l].left = event.left
        BY <4>1, EntryFields
      <4>3. k = l
        <5>1. k \in Nat /\ l \in Nat
          BY <1>2, SideFields
        <5>2. \A x, y \in DOMAIN side : x < y => side[x].order # side[y].order
          BY <1>2 DEF IsSide
        <5>3. side[k].order = side[l].order
          BY <2>1, <2>3, <4>2
        <5> QED BY <5>1, <5>2, <5>3
      <4> QED BY <3>3, <4>2, <4>3
    <3> QED BY <2>1, <2>3, <3>3, <3>4
  <2> QED BY <2>2, <2>3
<1>11. ASSUME NEW r \in new, SideOf[r.order] = s
       PROVE  Has(side, r.order) \/ \E j \in (m + 2)..n : log[j] = Removed(r.order)
  <2>1. CASE r.order # o
    <3>1. Has(side, r.order) \/ \E j \in (m + 1)..n : log[j] = Removed(r.order)
      BY <1>1, <1>6, <1>11, <2>1
    <3> QED BY <1>3, <1>9, <2>1, <3>1 DEF event
  <2>2. CASE r.order = o
    <3>1. IsUpsert(event)
      BY <1>1, <2>2 DEF RowsOf
    <3> QED BY <1>4, <1>5, <1>11, <2>2, <3>1
  <2> QED BY <2>1, <2>2
<1> QED BY <1>10, <1>11

\* What is in step stays in step.
LEMMA InStepOn ==
  ASSUME ChainInv, NEW m \in 1..(Len(log) - 1), NEW s \in Bookside, NEW rows, Keyed(rows),
         InStep(rows, s, m, Len(log)), NEW new, new = NextRows(rows, m)
  PROVE  InStep(new, s, m + 1, Len(log))
<1>1. CASE Matches(rows, s, m)
  BY <1>1, MatchesOn DEF InStep
<1>2. CASE \E n \in m..Len(log) : Mixed(rows, s, m, n)
  <2>1. PICK n \in m..Len(log) : Mixed(rows, s, m, n)
    BY <1>2
  <2>2. m \in Nat \ {0} /\ m \in 1..Len(log) /\ n \in Nat
    BY ChainFields
  <2>3. CASE n = m
    <3>1. Matches(rows, s, m)
      BY <2>1, <2>2, <2>3, MixedMatches
    <3> QED BY <3>1, MatchesOn DEF InStep
  <2>4. CASE n \in (m + 1)..Len(log)
    BY <2>1, <2>2, <2>4, MixedOn DEF InStep
  <2> QED BY <2>2, <2>3, <2>4
<1> QED BY <1>1, <1>2 DEF InStep

(***************************************************************************)
(* A page of events.                                                       *)
(***************************************************************************)

IsDb(db) ==
  /\ db = [ok |-> db.ok, initialized |-> db.initialized, last |-> db.last,
           orders |-> db.orders, processed |-> db.processed]
  /\ db.ok \in BOOLEAN /\ Content(db.initialized, db.last, db.orders, db.processed)

SameRows(db, next) == next.last = db.last /\ next.orders = db.orders

Fails(db, next, n) ==
  /\ ~next.ok /\ next.initialized = db.initialized /\ next.processed = db.processed
  /\ SameRows(db, next) /\ n # 1
  /\ \/ ~db.initialized \/ n - 1 > db.last + 1
     \/ n - 1 = db.last + 1 /\ IsRemoval(log[n]) /\ RowsOf(db.orders, log[n].order) = {}

Processes(db, next, n) ==
  /\ next.ok /\ next.initialized /\ next.processed = db.processed \cup {n}
  /\ \/ SameRows(db, next) /\ (n = 1 \/ (db.initialized /\ n - 1 <= db.last))
     \/ /\ n # 1 /\ db.initialized /\ n - 1 = db.last + 1 /\ next.last = n - 1
        /\ next.orders = NextRows(db.orders, n - 1)

DbRecord(ok, initialized, last, rows, done) ==
  [ok |-> ok, initialized |-> initialized, last |-> last, orders |-> rows, processed |-> done]

\* One event is skipped, processed, or the error of its page.
LEMMA ApplyEventCases ==
  ASSUME ChainInv, NEW db, IsDb(db), NEW n \in 1..Len(log), NEW next, next = ApplyEvent(db, n)
  PROVE  /\ next = [ok |-> next.ok, initialized |-> next.initialized, last |-> next.last,
                    orders |-> next.orders, processed |-> next.processed]
         /\ next.ok \in BOOLEAN
         /\ \/ next = db /\ (db.ok => n \in db.processed)
            \/ db.ok /\ n \notin db.processed /\ (Fails(db, next, n) \/ Processes(db, next, n))
<1>1. /\ n \in Nat /\ (n = 1 => log[n].type = "bookinit")
      /\ n # 1 => /\ n - 1 \in 1..(Len(log) - 1) /\ (n - 1) + 1 = n
                  /\ \/ IsUpsert(log[n]) /\ log[n].type = "ordupsert"
                     \/ IsRemoval(log[n]) /\ log[n].type = "ordremove"
  <2>1. n \in Nat /\ (n # 1 => n \in 2..Len(log) /\ n - 1 \in 1..(Len(log) - 1) /\ (n - 1) + 1 = n)
    BY ChainFields
  <2>2. n = 1 => log[n].type = "bookinit"
    BY DEF ChainInv, ChainType, BookInit
  <2>3. n # 1 => IsUpsert(log[n]) \/ IsRemoval(log[n])
    BY <2>1 DEF ChainInv, ChainType
  <2> QED BY <2>1, <2>2, <2>3, EventFields
<1>2. /\ db = [ok |-> db.ok, initialized |-> db.initialized, last |-> db.last,
               orders |-> db.orders, processed |-> db.processed]
      /\ db.ok \in BOOLEAN /\ db.initialized \in BOOLEAN /\ db.last \in Nat
  BY ChainFields DEF IsDb, Content
<1>3. CASE ~db.ok \/ n \in db.processed
  <2>1. next = db
    BY <1>3 DEF ApplyEvent
  <2> QED BY <1>2, <1>3, <2>1
<1> DEFINE o == log[n].order
           rest == db.orders \ RowsOf(db.orders, o)
           put == PutOrder(db.orders, log[n], n - 1)
           failed == [db EXCEPT !.ok = FALSE]
           done == [db EXCEPT !.processed = @ \cup {n}]
           d == db.processed \cup {n}
<1>4. PICK ok, i, l, r, p : /\ db = DbRecord(ok, i, l, r, p)
                            /\ ok = db.ok /\ i = db.initialized /\ l = db.last /\ r = db.orders
                            /\ p = db.processed
  BY <1>2 DEF DbRecord
<1>5. failed = DbRecord(FALSE, i, l, r, p) /\ done = DbRecord(ok, i, l, r, d)
  <2>1. \A x : [db EXCEPT !.ok = x] = DbRecord(x, i, l, r, p)
    BY <1>4 DEF DbRecord
  <2>2. \A x : [db EXCEPT !.processed = x] = DbRecord(ok, i, l, r, x)
    BY <1>4 DEF DbRecord
  <2> QED BY <2>1, <2>2, Zenon
<1>6. [done EXCEPT !.initialized = TRUE] = DbRecord(ok, TRUE, l, r, d)
  <2> HIDE DEF done, d
  <2>1. done = DbRecord(ok, i, l, r, d)
    BY <1>5
  <2>2. \A x : [done EXCEPT !.initialized = x] = DbRecord(ok, x, l, r, d)
    BY <2>1 DEF DbRecord
  <2> QED BY <2>2, Zenon
<1>7. /\ [done EXCEPT !.orders = PutOrder(@, log[n], n - 1), !.last = n - 1] =
           DbRecord(ok, i, n - 1, put, d)
      /\ [done EXCEPT !.orders = @ \ RowsOf(@, o), !.last = n - 1] =
           DbRecord(ok, i, n - 1, rest, d)
  <2> HIDE DEF done, d
  <2>1. done.orders = db.orders
    BY <1>4, <1>5 DEF DbRecord
  <2>2. ASSUME NEW x, NEW y
        PROVE  [done EXCEPT !.orders = x, !.last = y] = DbRecord(ok, i, y, x, d)
    <3>1. [done EXCEPT !.orders = x, !.last = y] = [[done EXCEPT !.orders = x] EXCEPT !.last = y]
      OBVIOUS
    <3>2. [done EXCEPT !.orders = x] = DbRecord(ok, i, l, x, d)
      BY <1>5 DEF DbRecord
    <3>3. [DbRecord(ok, i, l, x, d) EXCEPT !.last = y] = DbRecord(ok, i, y, x, d)
      BY DEF DbRecord
    <3> QED BY <3>1, <3>2, <3>3, Zenon
  <2> HIDE DEF put, rest
  <2>3. [done EXCEPT !.orders = put, !.last = n - 1] = DbRecord(ok, i, n - 1, put, d)
    BY <2>2, Zenon
  <2>4. [done EXCEPT !.orders = rest, !.last = n - 1] = DbRecord(ok, i, n - 1, rest, d)
    BY <2>2, Zenon
  <2>5. PutOrder(done.orders, log[n], n - 1) = put /\ done.orders \ RowsOf(done.orders, o) = rest
    BY <2>1 DEF put, rest
  <2> QED BY <2>3, <2>4, <2>5, Zenon
<1>8. CASE db.ok /\ n \notin db.processed /\ n = 1
  <2>1. next = [done EXCEPT !.initialized = TRUE]
    BY <1>1, <1>8 DEF ApplyEvent
  <2> HIDE DEF done
  <2>2. next = DbRecord(ok, TRUE, l, r, d)
    BY <1>6, <2>1
  <2>3. /\ next.ok = db.ok /\ next.initialized /\ next.last = db.last /\ next.orders = db.orders
        /\ next.processed = db.processed \cup {n}
    BY <1>4, <2>2 DEF DbRecord
  <2>4. Processes(db, next, n)
    <3>1. next.ok /\ n = 1
      BY <1>8, <2>3, Zenon
    <3>2. SameRows(db, next)
      BY <2>3, Zenon DEF SameRows
    <3>3. next.ok /\ next.initialized /\ next.processed = db.processed \cup {n}
      BY <2>3, <3>1, Zenon
    <3>4. SameRows(db, next) /\ (n = 1 \/ (db.initialized /\ n - 1 <= db.last))
      BY <3>1, <3>2, Zenon
    <3> QED BY <3>3, <3>4, Zenon DEF Processes
  <2>5. next = [ok |-> next.ok, initialized |-> next.initialized, last |-> next.last,
                orders |-> next.orders, processed |-> next.processed]
    BY <2>2 DEF DbRecord
  <2>6. next.ok \in BOOLEAN
    BY <1>2, <2>3, Zenon
  <2> QED BY <1>8, <2>4, <2>5, <2>6, Zenon
<1>9. CASE db.ok /\ n \notin db.processed /\ n # 1
  <2>0. log[n].type # "bookinit"
    BY <1>1, <1>9
  <2>1. CASE \/ ~db.initialized \/ n - 1 > db.last + 1
             \/ n - 1 = db.last + 1 /\ IsRemoval(log[n]) /\ RowsOf(db.orders, o) = {}
    <3>1. next = failed
      <4>1. CASE ~db.initialized
        BY <1>9, <2>0, <4>1 DEF ApplyEvent
      <4>2. CASE db.initialized /\ n - 1 > db.last + 1
        <5>1. ~(n - 1 <= db.last) /\ n - 1 # db.last + 1
          BY <1>1, <1>2, <4>2
        <5> QED BY <1>9, <2>0, <4>2, <5>1 DEF ApplyEvent
      <4>3. CASE /\ db.initialized
                 /\ n - 1 = db.last + 1 /\ IsRemoval(log[n]) /\ RowsOf(db.orders, o) = {}
        <5>1. ~(n - 1 <= db.last) /\ log[n].type # "ordupsert"
          BY <1>1, <1>2, <4>3, EventFields
        <5> QED BY <1>9, <2>0, <4>3, <5>1 DEF ApplyEvent
      <4> QED BY <2>1, <4>1, <4>2, <4>3
    <3> HIDE DEF failed
    <3>2. /\ ~next.ok /\ next.initialized = db.initialized /\ next.last = db.last
          /\ next.orders = db.orders /\ next.processed = db.processed /\ next.ok \in BOOLEAN
      <4>0. PICK no : no = FALSE
        OBVIOUS
      <4>1. next = DbRecord(no, i, l, r, p)
        BY <1>5, <3>1, <4>0, Zenon
      <4>2. /\ next.ok = no /\ next.initialized = i /\ next.last = l /\ next.orders = r
            /\ next.processed = p
        BY <4>1 DEF DbRecord
      <4> QED BY <1>4, <4>0, <4>2, Zenon
    <3>3. Fails(db, next, n)
      BY <1>9, <2>1, <3>2 DEF Fails, SameRows
    <3>4. next = [ok |-> next.ok, initialized |-> next.initialized, last |-> next.last,
                  orders |-> next.orders, processed |-> next.processed]
      BY <1>5, <3>1 DEF DbRecord
    <3> QED BY <1>9, <3>2, <3>3, <3>4, Zenon
  <2>2. CASE db.initialized /\ n - 1 <= db.last
    <3>1. next = done
      BY <1>9, <2>0, <2>2 DEF ApplyEvent
    <3> HIDE DEF done
    <3>2. /\ next.ok = db.ok /\ next.initialized /\ next.last = db.last /\ next.orders = db.orders
          /\ next.processed = db.processed \cup {n}
      <4>1. next = DbRecord(ok, i, l, r, d)
        BY <1>5, <3>1, Zenon
      <4>2. /\ next.ok = ok /\ next.initialized = i /\ next.last = l /\ next.orders = r
            /\ next.processed = d
        BY <4>1 DEF DbRecord
      <4> QED BY <1>4, <2>2, <4>2, Zenon
    <3>3. Processes(db, next, n)
      BY <1>9, <2>2, <3>2, Zenon DEF Processes, SameRows
    <3>4. next = [ok |-> next.ok, initialized |-> next.initialized, last |-> next.last,
                  orders |-> next.orders, processed |-> next.processed]
      BY <1>5, <3>1 DEF DbRecord
    <3>5. next.ok \in BOOLEAN
      BY <1>2, <3>2, Zenon
    <3> QED BY <1>9, <3>3, <3>4, <3>5, Zenon
  <2>3. CASE /\ db.initialized /\ n - 1 = db.last + 1
             /\ IsRemoval(log[n]) => RowsOf(db.orders, o) # {}
    <3> DEFINE rows == NextRows(db.orders, n - 1)
               record == DbRecord(ok, i, n - 1, rows, d)
    <3>0. ~(n - 1 <= db.last)
      BY <1>1, <1>2, <2>3
    <3>1. next = record
      <4>1. CASE log[n].type = "ordupsert"
        <5>1. next = [done EXCEPT !.orders = PutOrder(@, log[n], n - 1), !.last = n - 1]
          BY <1>9, <2>0, <2>3, <3>0, <4>1 DEF ApplyEvent
        <5>2. rows = put
          BY <1>1, <1>9, <4>1 DEF NextRows
        <5> HIDE DEF rows, put, done
        <5> QED BY <1>7, <5>1, <5>2
      <4>2. CASE IsRemoval(log[n]) /\ log[n].type = "ordremove"
        <5>1. next = [done EXCEPT !.orders = @ \ RowsOf(@, o), !.last = n - 1]
          BY <1>9, <2>0, <2>3, <3>0, <4>2 DEF ApplyEvent
        <5>2. rows = rest
          BY <1>1, <1>9, <4>2 DEF NextRows
        <5> HIDE DEF rows, rest, done
        <5> QED BY <1>7, <5>1, <5>2
      <4> QED BY <1>1, <1>9, <4>1, <4>2
    <3> HIDE DEF rows
    <3>2. /\ next.ok = db.ok /\ next.initialized = db.initialized /\ next.last = n - 1
          /\ next.orders = rows /\ next.processed = db.processed \cup {n}
      BY <1>4, <3>1 DEF DbRecord
    <3>3. Processes(db, next, n)
      BY <1>9, <2>3, <3>2, Zenon DEF Processes, rows
    <3>4. next = [ok |-> next.ok, initialized |-> next.initialized, last |-> next.last,
                  orders |-> next.orders, processed |-> next.processed]
      BY <3>1 DEF DbRecord
    <3>5. next.ok \in BOOLEAN
      BY <1>2, <3>2, Zenon
    <3> QED BY <1>9, <3>3, <3>4, <3>5, Zenon
  <2> QED BY <1>1, <1>2, <1>9, <2>1, <2>2, <2>3
<1> QED BY <1>2, <1>3, <1>8, <1>9

\* Before the first event there are no orders.
LEMMA NothingYet ==
  ASSUME ChainInv, NEW s \in Bookside
  PROVE  Matches({}, s, 1)
<1>1. books[1][s] = <<>>
  BY DEF ChainInv, ChainType
<1> QED BY <1>1 DEF Matches, IsSideOf

\* An event keeps the rows in step.
LEMMA ApplyEventKeeps ==
  ASSUME ChainInv, NEW db, IsDb(db), NEW n \in 1..Len(log), NEW next, next = ApplyEvent(db, n)
  PROVE  /\ IsDb(next) /\ db.last <= next.last
         /\ next.last = db.last => next.orders = db.orders
         /\ db.initialized => next.initialized
         /\ db.processed \subseteq next.processed /\ next.processed \subseteq db.processed \cup {n}
<1>0. /\ next = [ok |-> next.ok, initialized |-> next.initialized, last |-> next.last,
                 orders |-> next.orders, processed |-> next.processed]
      /\ next.ok \in BOOLEAN
  BY ApplyEventCases
<1>1. Content(db.initialized, db.last, db.orders, db.processed)
  BY DEF IsDb
<1>2. /\ db.last \in Nat /\ db.last \in 0..(Len(log) - 1) /\ Keyed(db.orders)
      /\ db.initialized \in BOOLEAN /\ Len(log) \in Nat \ {0} /\ n \in Nat
  BY <1>1, ChainFields DEF Content
<1>3. CASE next = db
  BY <1>2, <1>3
<1>4. CASE db.ok /\ n \notin db.processed /\ Fails(db, next, n)
  <2>1. Content(next.initialized, next.last, next.orders, next.processed)
    BY <1>1, <1>4 DEF Fails, SameRows
  <2>2. IsDb(next)
    BY <1>0, <2>1 DEF IsDb
  <2> QED BY <1>2, <1>4, <2>2 DEF Fails, SameRows
<1>5. CASE Processes(db, next, n)
  <2>1. CASE SameRows(db, next)
    <3>1. ASSUME NEW s \in Bookside PROVE InStep(db.orders, s, db.last + 1, Len(log))
      <4>1. CASE db.initialized
        BY <1>1, <4>1 DEF Content
      <4>2. CASE ~db.initialized
        <5>1. db.orders = {} /\ db.last + 1 = 1
          BY <1>1, <4>2 DEF Content
        <5> QED BY <5>1, NothingYet DEF InStep
      <4> QED BY <4>1, <4>2
    <3>2. Content(next.initialized, next.last, next.orders, next.processed)
      BY <1>2, <1>5, <2>1, <3>1 DEF Content, Processes, SameRows
    <3>3. IsDb(next)
      BY <1>0, <3>2 DEF IsDb
    <3> QED BY <1>2, <1>5, <2>1, <3>3 DEF Processes, SameRows
  <2>2. CASE /\ n # 1 /\ db.initialized /\ n - 1 = db.last + 1 /\ next.last = n - 1
             /\ next.orders = NextRows(db.orders, n - 1)
    <3>1. n - 1 \in 1..(Len(log) - 1) /\ (n - 1) + 1 = n
      BY <1>2, <2>2
    <3>2. Keyed(next.orders)
      <4>1. PICK rows, new : rows = db.orders /\ new = NextRows(rows, n - 1)
        OBVIOUS
      <4>2. Keyed(new)
        BY <1>2, <3>1, <4>1, NextRowsOf
      <4> QED BY <2>2, <4>1, <4>2
    <3>3. ASSUME NEW s \in Bookside PROVE InStep(next.orders, s, next.last + 1, Len(log))
      <4>1. InStep(db.orders, s, n - 1, Len(log))
        BY <1>1, <2>2 DEF Content
      <4>2. InStep(next.orders, s, (n - 1) + 1, Len(log))
        BY <1>2, <2>2, <3>1, <4>1, InStepOn
      <4> QED BY <2>2, <4>2
    <3>4. next.last \in 0..(Len(log) - 1) /\ next.last > db.last
      BY <1>2, <2>2
    <3>5. Content(next.initialized, next.last, next.orders, next.processed)
      BY <1>5, <3>2, <3>3, <3>4 DEF Content, Processes
    <3>6. IsDb(next)
      BY <1>0, <3>5 DEF IsDb
    <3> QED BY <1>2, <1>5, <3>4, <3>6 DEF Processes
  <2> QED BY <1>5, <2>1, <2>2 DEF Processes
<1> QED BY <1>3, <1>4, <1>5, ApplyEventCases

\* A database that has every event up to upto, and nothing else.
Complete(db, upto) ==
  /\ db.ok /\ db.processed \subseteq 1..upto
  /\ IF upto = 0 THEN ~db.initialized
     ELSE /\ db.initialized /\ 1 \in db.processed /\ db.last + 1 = upto
          /\ \A s \in Bookside : Matches(db.orders, s, upto)

\* It takes the next event in.
LEMMA CompleteGoesOn ==
  ASSUME ChainInv, NEW db, IsDb(db), NEW upto \in 0..(Len(log) - 1), Complete(db, upto),
         NEW next, next = ApplyEvent(db, upto + 1)
  PROVE  Complete(next, upto + 1)
<1> DEFINE n == upto + 1
<1>1. n \in 1..Len(log) /\ upto \in Nat /\ upto + 1 # 0 /\ n \notin db.processed
      /\ Content(db.initialized, db.last, db.orders, db.processed)
  BY ChainFields DEF Complete, IsDb
<1>2. Fails(db, next, n) \/ Processes(db, next, n)
  <2>1. next = db \/ Fails(db, next, n) \/ Processes(db, next, n)
    BY <1>1, ApplyEventCases
  <2>2. next = db => n \in db.processed
    BY <1>1, ApplyEventCases DEF Complete, Fails, Processes
  <2> QED BY <1>1, <2>1, <2>2
<1>3. CASE upto = 0
  <2>1. ~db.initialized
    BY <1>3 DEF Complete
  <2>2. db.last = 0 /\ db.orders = {} /\ db.processed = {}
    BY <1>1, <2>1 DEF Content
  <2>3. next.ok /\ next.initialized /\ next.last = 0 /\ next.orders = {} /\ next.processed = {1}
    BY <1>2, <1>3, <2>1, <2>2 DEF Fails, Processes, SameRows
  <2>4. \A s \in Bookside : Matches(next.orders, s, 1)
    BY <2>3, NothingYet
  <2>5. next.processed \subseteq 1..1 /\ 1 \in next.processed /\ next.last + 1 = 1
    BY <2>3
  <2>6. Complete(next, 1)
    <3>1. 1 # 0
      OBVIOUS
    <3> QED BY <2>3, <2>4, <2>5, <3>1, Zenon DEF Complete
  <2> QED BY <1>3, <2>6
<1>4. CASE upto # 0
  <2>1. /\ db.initialized /\ db.last + 1 = upto /\ upto \in 1..(Len(log) - 1) /\ n # 1
        /\ n - 1 = upto /\ db.last \in Nat /\ Keyed(db.orders)
        /\ \A s \in Bookside : Matches(db.orders, s, upto)
    BY <1>1, <1>4 DEF Complete, Content
  <2>2. PICK rows, new : rows = db.orders /\ new = NextRows(rows, upto)
    OBVIOUS
  <2>3. \A s \in Bookside : Matches(new, s, upto + 1)
    BY <2>1, <2>2, MatchesOn
  <2>4. ~Fails(db, next, n)
    <3>0. ~(n - 1 > db.last + 1)
      BY <2>1
    <3>1. SUFFICES ASSUME IsRemoval(log[n]), RowsOf(db.orders, log[n].order) = {} PROVE FALSE
      BY <2>1, <3>0, Zenon DEF Fails
    <3>2. SideOf[log[n].order] \in Bookside
      BY <1>1, <2>1, ChainFields
    <3> QED BY <2>1, <2>2, <3>1, <3>2, MatchesOn
  <2>5. Processes(db, next, n)
    BY <1>2, <2>4
  <2>6. /\ next.ok /\ next.initialized /\ next.processed = db.processed \cup {n}
        /\ next.last = n - 1 /\ next.orders = NextRows(db.orders, n - 1)
    BY <2>1, <2>5 DEF Processes
  <2>7. next.orders = new /\ next.last + 1 = n
    BY <1>1, <2>1, <2>2, <2>6
  <2>8. 1 \in next.processed /\ next.processed \subseteq 1..n
    BY <1>1, <1>4, <2>6 DEF Complete
  <2> QED BY <1>1, <2>3, <2>6, <2>7, <2>8 DEF Complete
<1> QED BY <1>3, <1>4

\* The database goes on where it is, or starts with the first event.
GoesOn(from) ==
  IF meta.initialized THEN 1 \in processed /\ from = meta.last + 1 ELSE from = 0

\* What is true of the database after k events of a page.
FoldInv(db, from, k) ==
  /\ IsDb(db) /\ meta.last <= db.last /\ (db.last = meta.last => db.orders = orders)
  /\ meta.initialized => db.initialized
  /\ db.processed \subseteq processed \cup ((from + 1)..(from + k))
  /\ processed \subseteq db.processed
  /\ GoesOn(from) => Complete(db, from + k)

\* Before the first event of a page, the loop holds what is stored.
LEMMA FoldStarts ==
  ASSUME ChainInv, DbInv, NEW from \in Nat
  PROVE  FoldInv(Stored, from, 0)
<1>1. /\ Stored.ok = TRUE /\ Stored.initialized = meta.initialized /\ Stored.last = meta.last
      /\ Stored.orders = orders /\ Stored.processed = processed
      /\ Stored = [ok |-> Stored.ok, initialized |-> Stored.initialized, last |-> Stored.last,
                   orders |-> Stored.orders, processed |-> Stored.processed]
  BY DEF Stored
<1>2. Content(meta.initialized, meta.last, orders, processed) /\ meta.last \in Nat
  BY DEF DbInv, IsMeta
<1>3. IsDb(Stored)
  BY <1>1, <1>2 DEF IsDb
<1>4. ASSUME GoesOn(from) PROVE Complete(Stored, from)
  <2>1. CASE meta.initialized
    <3>1. /\ 1 \in processed /\ from = meta.last + 1 /\ from # 0 /\ processed \subseteq 1..from
          /\ \A s \in Bookside : Matches(orders, s, from)
      BY <1>2, <1>4, <2>1 DEF GoesOn, DbInv, Whole
    <3> QED BY <1>1, <2>1, <3>1 DEF Complete
  <2>2. CASE ~meta.initialized
    <3>1. from = 0 /\ processed = {}
      BY <1>2, <1>4, <2>2 DEF GoesOn, Content
    <3> QED BY <1>1, <2>2, <3>1 DEF Complete
  <2> QED BY <2>1, <2>2
<1>5. from + 0 = from
  OBVIOUS
<1> QED BY <1>1, <1>2, <1>3, <1>4, <1>5 DEF FoldInv

\* The loop goes on with one event.
LEMMA FoldGoesOn ==
  ASSUME ChainInv, DbInv, NEW from \in Nat, NEW k \in Nat, from + (k + 1) <= head,
         NEW db, FoldInv(db, from, k), NEW next, next = ApplyEvent(db, from + (k + 1))
  PROVE  FoldInv(next, from, k + 1)
<1> DEFINE n == from + (k + 1)
<1>1. n \in 1..Len(log) /\ n = (from + k) + 1 /\ from + k \in 0..(Len(log) - 1)
  BY ChainFields DEF ChainInv, ChainType
<1>2. IsDb(db) /\ db.last \in Nat /\ meta.last \in Nat
  BY DEF FoldInv, IsDb, Content, DbInv, IsMeta
<1>3. /\ IsDb(next) /\ db.last <= next.last
      /\ next.last = db.last => next.orders = db.orders
      /\ db.initialized => next.initialized
      /\ db.processed \subseteq next.processed /\ next.processed \subseteq db.processed \cup {n}
  BY <1>1, <1>2, ApplyEventKeeps
<1>4. next.last \in Nat
  BY <1>3 DEF IsDb, Content
<1>5. ASSUME GoesOn(from) PROVE Complete(next, from + (k + 1))
  <2>1. Complete(db, from + k)
    BY <1>5 DEF FoldInv
  <2>2. PICK upto : upto = from + k
    OBVIOUS
  <2>3. Complete(next, upto + 1)
    BY <1>1, <1>2, <2>1, <2>2, CompleteGoesOn
  <2> QED BY <1>1, <2>2, <2>3
<1>6. ((from + 1)..(from + k)) \cup {n} \subseteq (from + 1)..(from + (k + 1))
  BY <1>1
<1>7. meta.last <= next.last /\ (next.last = meta.last => next.orders = orders)
  BY <1>2, <1>3, <1>4 DEF FoldInv
<1>8. meta.initialized => next.initialized
  BY <1>3 DEF FoldInv
<1>9. /\ next.processed \subseteq processed \cup ((from + 1)..(from + (k + 1)))
      /\ processed \subseteq next.processed
  BY <1>3, <1>6 DEF FoldInv
<1> QED BY <1>3, <1>5, <1>7, <1>8, <1>9 DEF FoldInv

\* f is the database after each of the first m events of a page.
IsFold(f, events, m) ==
  f = [k \in 0..m |-> IF k = 0 THEN Stored ELSE ApplyEvent(f[k - 1], events[k])]

\* There is such a function, for any events.
LEMMA FoldExists ==
  ASSUME NEW events, NEW m \in Nat
  PROVE  \E f : IsFold(f, events, m)
<1> DEFINE S == {k \in 0..m : \E f : IsFold(f, events, k)}
<1>1. 0 \in S
  <2>1. IsFold([k \in 0..0 |-> Stored], events, 0)
    BY DEF IsFold
  <2> QED BY <2>1
<1>2. ASSUME NEW k \in 0..(m - 1), k \in S PROVE k + 1 \in S
  <2>1. PICK f : IsFold(f, events, k)
    BY <1>2
  <2> DEFINE g == [i \in 0..(k + 1) |-> IF i = k + 1 THEN ApplyEvent(f[k], events[i]) ELSE f[i]]
  <2>2. ASSUME NEW i \in 0..(k + 1)
        PROVE  g[i] = IF i = 0 THEN Stored ELSE ApplyEvent(g[i - 1], events[i])
    <3>1. CASE i = k + 1
      BY <3>1
    <3>2. CASE i \in 0..k
      BY <3>2, <2>1 DEF IsFold
    <3> QED BY <3>1, <3>2
  <2>3. IsFold(g, events, k + 1)
    BY <2>2 DEF IsFold
  <2> QED BY <2>3
<1>3. m \in S
  <2> HIDE DEF S
  <2> QED BY <1>1, <1>2, UpTo
<1> QED BY <1>3

\* What the recursive definition of Applied says.
LEMMA AppliedDef ==
  ASSUME NEW page, Len(page.events) \in Nat
  PROVE  \E f : /\ IsFold(f, page.events, Len(page.events))
                /\ Applied(page) = f[Len(page.events)]
<1> DEFINE f == CHOOSE f : IsFold(f, page.events, Len(page.events))
<1>1. IsFold(f, page.events, Len(page.events))
  BY FoldExists
<1>2. Applied(page) = f[Len(page.events)]
  BY DEF Applied, IsFold
<1> QED BY <1>1, <1>2

\* What a page of events makes of the database.
LEMMA AppliedKeeps ==
  ASSUME ChainInv, DbInv, NEW from \in 0..head, NEW to \in from..head, NEW ledger, NEW page,
         page = PageOf(from, to, ledger)
  PROVE  FoldInv(Applied(page), from, to - from) /\ Len(page.events) = to - from
<1>1. head \in Nat /\ from \in Nat /\ to \in Nat /\ to - from \in Nat /\ to <= head
  BY ChainFields DEF ChainInv, ChainType
<1> DEFINE m == to - from
<1>2. /\ page.events = [k \in 1..m |-> from + k] /\ Len(page.events) = m
      /\ \A k \in 1..m : page.events[k] = from + k
  BY <1>1 DEF PageOf
<1>3. PICK f : IsFold(f, page.events, m) /\ Applied(page) = f[m]
  BY <1>1, <1>2, AppliedDef
<1> DEFINE S == {k \in 0..m : FoldInv(f[k], from, k)}
<1>4. 0 \in S
  <2>1. f[0] = Stored
    BY <1>1, <1>3 DEF IsFold
  <2> QED BY <1>1, <2>1, FoldStarts
<1>5. ASSUME NEW k \in 0..(m - 1), k \in S PROVE k + 1 \in S
  <2>1. k \in Nat /\ k + 1 \in 1..m /\ k + 1 \in 0..m /\ from + (k + 1) <= head /\ (k + 1) - 1 = k
    BY <1>1
  <2>2. f[k + 1] = ApplyEvent(f[k], from + (k + 1))
    <3>1. \A i \in 0..m : f[i] = IF i = 0 THEN Stored ELSE ApplyEvent(f[i - 1], page.events[i])
      BY <1>3 DEF IsFold
    <3>2. k + 1 # 0 /\ page.events[k + 1] = from + (k + 1)
      BY <1>2, <2>1
    <3> QED BY <2>1, <3>1, <3>2
  <2>3. FoldInv(f[k], from, k)
    BY <1>5
  <2>4. FoldInv(f[k + 1], from, k + 1)
    <3>1. PICK db, next : db = f[k] /\ next = ApplyEvent(db, from + (k + 1))
      OBVIOUS
    <3>2. FoldInv(next, from, k + 1)
      BY <1>1, <2>1, <2>3, <3>1, FoldGoesOn
    <3> QED BY <2>2, <3>1, <3>2
  <2> QED BY <2>1, <2>4
<1>6. m \in S
  <2> HIDE DEF S
  <2> QED BY <1>1, <1>4, <1>5, UpTo
<1> QED BY <1>2, <1>3, <1>6

(***************************************************************************)
(* The steps of a pass, in the only page.                                  *)
(***************************************************************************)

\* The chain and the settings stay.
LEMMA ChainStays ==
  ASSUME ChainInv, UNCHANGED chainVars
  PROVE  /\ ChainInv' /\ LogGrown
         /\ log' = log /\ books' = books /\ head' = head /\ dropped' = dropped
         /\ storage' = storage /\ genuine' = genuine
<1>1. /\ log' = log /\ books' = books /\ head' = head /\ dropped' = dropped
      /\ storage' = storage /\ genuine' = genuine
  BY DEF chainVars, contract, setting
<1>2. ChainType'
  BY <1>1 DEF ChainInv, ChainType
<1>3. \A n \in 1..Len(log) :
        /\ n \in 2..Len(log) => IsChange(n)'
        /\ History(n)'
        /\ \A s \in Bookside : IsSide(books'[n][s], s) /\ Len(books'[n][s]) < n
  BY <1>1 DEF ChainInv, IsChange, History, SideAfter
<1>4. Len(log) \in Nat
  BY ChainFields
<1>5. \A n \in 2..Len(log) : n \in 1..Len(log)
  BY <1>4
<1>6. ChainInv'
  BY <1>1, <1>2, <1>3, <1>5 DEF ChainInv
<1>7. LogGrown
  BY <1>1, <1>4 DEF LogGrown
<1> QED BY <1>1, <1>6, <1>7

\* The database stays as well.
LEMMA AllStays ==
  ASSUME ChainInv, DbInv, UNCHANGED <<chainVars, dbVars>>
  PROVE  Onward /\ ChainInv' /\ DbInv'
<1>1. ChainInv' /\ LogGrown /\ head' = head /\ dropped' = dropped /\ UNCHANGED setting
  BY ChainStays DEF setting
<1>2. head \in Nat /\ dropped \in Nat
  BY DEF ChainInv, ChainType
<1>3. Onward
  BY <1>1, <1>2 DEF Onward
<1> QED BY <1>1, <1>3, OnwardKeepsDb

\* A pass that goes on.
LEMMA GotoKeeps ==
  ASSUME IndexInv, NEW p \in Page, \A q \in Page : q = p, NEW here, Goto(p, here),
         UNCHANGED chainVars, DbInv', PassInv(p, here)'
  PROVE  IndexInv'
<1>1. /\ log' = log /\ books' = books /\ storage' = storage /\ genuine' = genuine
      /\ ChainInv' /\ shown' = shown
  BY ChainStays DEF IndexInv, Goto
<1>2. pass' = [q \in Page |-> pass'[q]] /\ pass'[p] = here
  BY DEF IndexInv, Goto
<1>3. ASSUME NEW q \in Page PROVE PassInv(q, pass[q])'
  BY <1>2
<1>4. ShownIsReal'
  BY <1>1 DEF IndexInv, ShownIsReal, BookAfter
<1> QED BY <1>1, <1>2, <1>3, <1>4 DEF IndexInv

\* What a page may display.
Real(p, answer) ==
  /\ answer.last \in Nat
  /\ answer.status = "synced" =>
       /\ storage[p] = "trustless" => genuine
       /\ \A s \in Bookside : \E n \in (answer.last + 1)..Len(log) :
            IsListing(books[n][s], answer.orders, s)

\* There is nothing to know about a page without a pass.
LEMMA IdleInv ==
  ASSUME NEW p
  PROVE  PassInv(p, Idle) /\ PassInv(p, Idle)'
BY DEF PassInv, FetchInv, ApplyInv, VerifyInv, PutInv, ReleaseInv, SidesInv, Idle

\* A pass that returns.
LEMMA ReturnKeeps ==
  ASSUME IndexInv, NEW p \in Page, \A q \in Page : q = p, NEW answer, Return(p, answer),
         UNCHANGED chainVars, DbInv', Real(p, answer)
  PROVE  IndexInv'
<1>1. /\ log' = log /\ books' = books /\ storage' = storage /\ genuine' = genuine
      /\ ChainInv'
  BY ChainStays DEF IndexInv
<1>2. /\ pass' = [q \in Page |-> pass'[q]] /\ pass'[p] = Idle
      /\ shown' = [q \in Page |-> shown'[q]] /\ shown'[p] = answer
  BY DEF IndexInv, Return
<1>3. ASSUME NEW q \in Page PROVE PassInv(q, pass[q])'
  BY <1>2, IdleInv
<1>4. ShownIsReal' /\ \A q \in Page : shown'[q].last \in Nat
  BY <1>1, <1>2 DEF ShownIsReal, BookAfter, Real
<1> QED BY <1>1, <1>2, <1>3, <1>4 DEF IndexInv

\* A pass that goes on and leaves the database alone.
LEMMA GotoStays ==
  ASSUME IndexInv, NEW p \in Page, \A q \in Page : q = p, NEW here, Goto(p, here),
         UNCHANGED <<chainVars, dbVars>>, PassInv(p, here)
  PROVE  IndexInv'
<1>1. Onward /\ DbInv' /\ UNCHANGED chainVars
  BY AllStays DEF IndexInv
<1>2. PassInv(p, here)'
  BY <1>1, OnwardKeepsPass DEF IndexInv
<1> QED BY <1>1, <1>2, GotoKeeps

\* A pass that returns and leaves the database alone.
LEMMA ReturnStays ==
  ASSUME IndexInv, NEW p \in Page, \A q \in Page : q = p, NEW answer, Return(p, answer),
         UNCHANGED <<chainVars, dbVars>>, Real(p, answer)
  PROVE  IndexInv'
BY AllStays, ReturnKeeps DEF IndexInv

\* A pass that is at one step has to be right about that step only.
LEMMA OneAt ==
  ASSUME NEW p, NEW j
  PROVE  /\ j.at = "fetch" /\ FetchInv(j) => PassInv(p, j)
         /\ j.at = "apply" /\ ApplyInv(j) => PassInv(p, j)
         /\ j.at = "target" => PassInv(p, j)
         /\ j.at = "verify" /\ VerifyInv(j) => PassInv(p, j)
         /\ j.at = "put" /\ PutInv(j) => PassInv(p, j)
         /\ j.at \in {"release", "sequence"} /\ ReleaseInv(j) => PassInv(p, j)
         /\ j.at = "sides" /\ SidesInv(p, j) => PassInv(p, j)
BY DEF PassInv, FetchInv, ApplyInv, VerifyInv, PutInv, ReleaseInv, SidesInv

\* What the snapshots say.
LEMMA Snapshots ==
  ASSUME NEW m, IsMeta(m), NEW rows
  PROVE  /\ Snapshot(m, rows).last = m.last /\ Snapshot(m, rows).orders = rows
         /\ Snapshot(m, rows).status = "synced" =>
              ~m.fatal /\ m.initialized /\ m.verified /\ m.last = m.target
         /\ Transient(m, rows).last = m.last /\ Transient(m, rows).status = "syncing"
         /\ m.last \in Nat
BY DEF Snapshot, Transient, IsMeta

\* A pass may put an error on a record that is not both replayed and genuine.
LEMMA FatalKeeps ==
  ASSUME IndexInv, NEW p \in Page, \A q \in Page : q = p, ReadForFatal(p),
         UNCHANGED <<chainVars, dbVars>>, genuine /\ meta.initialized => 1 \notin processed
  PROVE  IndexInv'
<1>1. PICK m : m = [meta EXCEPT !.fatal = TRUE]
  OBVIOUS
<1>2. IsMeta(meta)
  BY DEF IndexInv, DbInv
<1>3. /\ IsMeta(m) /\ m.initialized = meta.initialized /\ m.cursor = meta.cursor
      /\ m.last = meta.last /\ m.verified = meta.verified /\ m.fatal
  BY <1>1, <1>2 DEF IsMeta
<1>4. Holds(m)
  BY <1>3 DEF Holds, IndexInv, DbInv
<1>5. PICK here : here = [at |-> "put", meta |-> m]
  OBVIOUS
<1>6. here.at = "put" /\ here.meta = m /\ Goto(p, here)
  BY <1>1, <1>5 DEF ReadForFatal
<1>7. PutInv(here)
  BY <1>3, <1>4, <1>6 DEF PutInv
<1> QED BY <1>6, <1>7, OneAt, GotoStays

\* A passing answer.
LEMMA TransientKeeps ==
  ASSUME IndexInv, NEW p \in Page, \A q \in Page : q = p, Return(p, Transient(meta, orders)),
         UNCHANGED <<chainVars, dbVars>>
  PROVE  IndexInv'
<1>1. PICK answer : answer = Transient(meta, orders)
  OBVIOUS
<1>2. IsMeta(meta)
  BY DEF IndexInv, DbInv
<1>3. Real(p, answer)
  BY <1>1, <1>2, Snapshots DEF Real
<1> QED BY <1>1, <1>3, ReturnStays

\* A pass begins with the stored cursor.
LEMMA BeginKeeps ==
  ASSUME IndexInv, NEW p \in Page, \A q \in Page : q = p, Begin(p)
  PROVE  IndexInv'
<1>1. UNCHANGED <<chainVars, dbVars>> /\ IsMeta(meta)
  BY DEF Begin, IndexInv, DbInv
<1>2. CASE meta.fatal
  <2>1. PICK answer : answer = Snapshot(meta, orders)
    OBVIOUS
  <2>2. Real(p, answer)
    BY <1>1, <1>2, <2>1, Snapshots DEF Real
  <2>3. Return(p, answer)
    BY <1>2, <2>1 DEF Begin
  <2> QED BY <1>1, <2>2, <2>3, ReturnStays
<1>3. CASE ~meta.fatal
  <2>1. PICK here : here = [at |-> "fetch", cursor |-> meta.cursor, start |-> 0, live |-> FALSE]
    OBVIOUS
  <2>2. here.at = "fetch" /\ FetchInv(here)
    BY <2>1 DEF FetchInv
  <2>3. Goto(p, here)
    BY <1>3, <2>1 DEF Begin
  <2> QED BY <1>1, <2>2, <2>3, OneAt, GotoStays
<1> QED BY <1>2, <1>3

\* The page of an answer starts at the cursor; a recovery starts with what the node still has.
LEMMA FetchKeeps ==
  ASSUME IndexInv, NEW p \in Page, \A q \in Page : q = p, Fetch(p)
  PROVE  IndexInv'
<1>1. PICK j : j = pass[p]
  OBVIOUS
<1>2. /\ UNCHANGED <<chainVars, dbVars>> /\ j.at = "fetch" /\ FetchInv(j)
  BY <1>1 DEF Fetch, At, IndexInv, PassInv
<1>3. /\ j.live \in BOOLEAN /\ j.cursor = meta.cursor
      /\ j.live => Copied /\ (j.cursor = NoCursor => j.start \in 1..dropped)
      /\ ~j.live => j.start = 0
  BY <1>2 DEF FetchInv
<1>4. /\ IsMeta(meta) /\ meta.cursor \in Nat \cup {NoCursor} /\ meta.cursor <= head
      /\ meta.initialized \in BOOLEAN /\ meta.last \in Nat
      /\ Whole(meta.initialized, meta.last, orders, processed, meta.cursor)
      /\ ~meta.initialized => meta.cursor \in {NoCursor, 0}
      /\ meta.initialized /\ 1 \notin processed => dropped >= 1 /\ meta.cursor # 0
      /\ ~meta.initialized => processed = {}
      /\ head \in Nat /\ dropped \in 0..head
  BY DEF IndexInv, DbInv, IsMeta, Content, ChainInv, ChainType
<1>5. PICK from : from = IF j.cursor = NoCursor THEN j.start ELSE j.cursor
  OBVIOUS
<1>6. PICK to : to = IF from + PageSize < head THEN from + PageSize ELSE head
  OBVIOUS
<1>7. from \in 0..head /\ to \in from..head
  BY <1>3, <1>4, <1>5, <1>6, IndexAssumption DEF NoCursor
<1> DEFINE page == [events |-> [k \in 1..(to - from) |-> from + k], cursor |-> to, ledger |-> head]
<1>8. CASE from >= dropped
  <2>1. PICK here : here = [at |-> "apply", page |-> page, live |-> j.live]
    OBVIOUS
  <2>2. page = PageOf(from, to, head) /\ page.ledger = head
    BY DEF PageOf
  <2>3. here.at = "apply" /\ here.page = page /\ here.live = j.live
    BY <2>1
  <2>4. Goto(p, here)
    BY <1>1, <1>5, <1>6, <1>8, <2>1 DEF Fetch
  <2>5. 1 \in processed => from = meta.cursor
    <3>1. 1 \in processed => meta.cursor = meta.last + 1
      BY <1>4 DEF Whole
    <3> QED BY <1>3, <1>4, <1>5, <3>1 DEF NoCursor
  <2>6. meta.initialized /\ 1 \notin processed => from >= 1
    BY <1>4, <1>7, <1>8
  <2>7. ~meta.initialized => from = 0
    <3>1. ~meta.initialized => ~j.live
      BY <1>3 DEF Copied
    <3> QED BY <1>3, <1>4, <1>5, <3>1
  <2> HIDE DEF page
  <2>8. here.page = PageOf(from, to, here.page.ledger) /\ here.page.ledger \in Nat
    BY <1>4, <2>2, <2>3
  <2>9. ApplyInv(here)
    BY <1>3, <1>7, <2>3, <2>5, <2>6, <2>7, <2>8 DEF ApplyInv
  <2> QED BY <1>2, <2>3, <2>4, <2>9, OneAt, GotoStays
<1>9. CASE ~(from >= dropped) /\ j.cursor = NoCursor /\ ~j.live
  <2>1. PICK here : here = [at |-> "release", start |-> dropped]
    OBVIOUS
  <2>2. here.at = "release" /\ here.start = dropped /\ here.start \in 1..dropped
    BY <1>4, <1>7, <1>9, <2>1
  <2>3. Goto(p, here)
    BY <1>1, <1>5, <1>6, <1>9, <2>1 DEF Fetch
  <2>4. ReleaseInv(here)
    BY <2>2 DEF ReleaseInv
  <2> QED BY <1>2, <2>2, <2>3, <2>4, OneAt, GotoStays
<1>10. CASE ~(from >= dropped) /\ ~(j.cursor = NoCursor /\ ~j.live)
  <2>1. Return(p, Transient(meta, orders))
    BY <1>1, <1>5, <1>6, <1>10 DEF Fetch
  <2> QED BY <1>2, <2>1, TransientKeeps
<1> QED BY <1>8, <1>9, <1>10

\* What the pass holds when it has a page.
LEMMA AtApply ==
  ASSUME IndexInv, NEW p \in Page, At(p, "apply"), NEW page, page = pass[p].page,
         NEW live, live = pass[p].live, NEW db, db = Applied(page)
  PROVE  /\ live \in BOOLEAN /\ (live => Copied)
         /\ \E from \in 0..head : \E to \in from..head :
              /\ page.cursor = to /\ page.ledger \in Nat /\ Len(page.events) = to - from
              /\ from \in Nat /\ to \in Nat
              /\ 1 \in processed => from = meta.cursor
              /\ IF meta.initialized THEN 1 \notin processed => from >= 1 ELSE from = 0
              /\ FoldInv(db, from, to - from)
<1>1. PICK j : j = pass[p]
  OBVIOUS
<1>2. j.at = "apply" /\ ApplyInv(j)
  BY <1>1 DEF At, IndexInv, PassInv
<1>3. live \in BOOLEAN /\ (live => Copied)
  BY <1>1, <1>2 DEF ApplyInv
<1>4. PICK from \in 0..head : \E to \in from..head :
         /\ page = PageOf(from, to, page.ledger) /\ page.ledger \in Nat
         /\ 1 \in processed => from = meta.cursor
         /\ IF meta.initialized THEN 1 \notin processed => from >= 1 ELSE from = 0
  BY <1>1, <1>2 DEF ApplyInv
<1> PICK to \in from..head :
         /\ page = PageOf(from, to, page.ledger) /\ page.ledger \in Nat
         /\ 1 \in processed => from = meta.cursor
         /\ IF meta.initialized THEN 1 \notin processed => from >= 1 ELSE from = 0
  BY <1>4
<1>5. PICK ledger : ledger = page.ledger
  OBVIOUS
<1>6. FoldInv(Applied(page), from, to - from) /\ Len(page.events) = to - from
  BY <1>4, <1>5, AppliedKeeps DEF IndexInv
<1>7. page.cursor = to
  BY <1>4 DEF PageOf
<1>8. from \in Nat /\ to \in Nat
  BY DEF IndexInv, ChainInv, ChainType
<1> QED BY <1>3, <1>4, <1>6, <1>7, <1>8

\* What a page that is not an error leaves in the database.
LEMMA Committed ==
  ASSUME IndexInv, NEW page, NEW db, db = Applied(page), db.ok, CommitPage(page),
         UNCHANGED chainVars, NEW from \in 0..head, NEW to \in from..head,
         page.cursor = to, page.ledger \in Nat, from \in Nat, to \in Nat,
         1 \in processed => from = meta.cursor,
         IF meta.initialized THEN 1 \notin processed => from >= 1 ELSE from = 0,
         FoldInv(db, from, to - from)
  PROVE  /\ DbInv' /\ meta'.last = db.last /\ meta'.cursor = to /\ meta'.target = meta.target
         /\ orders' = db.orders /\ processed' = db.processed
         /\ meta'.initialized = db.initialized /\ ~meta'.fatal /\ IsMeta(meta')
<1>1. /\ IsMeta(meta) /\ DbInv /\ ChainInv /\ meta.last \in Nat /\ meta.initialized \in BOOLEAN
      /\ Content(meta.initialized, meta.last, orders, processed)
      /\ Whole(meta.initialized, meta.last, orders, processed, meta.cursor)
  BY DEF IndexInv, DbInv, IsMeta
<1>2. /\ ChainInv' /\ LogGrown /\ head' = head /\ dropped' = dropped /\ genuine' = genuine
  BY <1>1, ChainStays
<1>3. /\ IsDb(db) /\ db.initialized \in BOOLEAN /\ db.last \in Nat
      /\ Content(db.initialized, db.last, db.orders, db.processed)
  BY DEF FoldInv, IsDb, Content
<1>4. /\ meta' = [meta EXCEPT !.initialized = db.initialized, !.cursor = page.cursor,
                              !.last = db.last, !.ledger = page.ledger, !.fatal = FALSE]
      /\ orders' = db.orders /\ processed' = db.processed
  BY DEF CommitPage
<1>5. /\ IsMeta(meta') /\ meta'.initialized = db.initialized /\ meta'.cursor = to
      /\ meta'.last = db.last /\ meta'.target = meta.target /\ meta'.verified = meta.verified
      /\ ~meta'.fatal
  BY <1>1, <1>3, <1>4 DEF IsMeta
<1>6. GoesOn(from) <=> (meta.initialized => 1 \in processed)
  BY <1>1 DEF GoesOn, Whole
<1>7. GoesOn(from) => Complete(db, to)
  <2>1. from + (to - from) = to
    OBVIOUS
  <2> QED BY <2>1 DEF FoldInv
<1>8. ~GoesOn(from) => /\ meta.initialized /\ 1 \notin processed /\ 1 \notin db.processed
                       /\ db.initialized /\ from >= 1
  BY <1>6 DEF FoldInv
<1>9. PICK i, l, r, d, c : /\ i = db.initialized /\ l = db.last /\ r = db.orders
                           /\ d = db.processed /\ c = to
  OBVIOUS
<1>10. Whole(i, l, r, d, c)
  <2>1. SUFFICES ASSUME 1 \in db.processed PROVE Whole(i, l, r, d, c)
    BY <1>9 DEF Whole
  <2>2. Complete(db, to)
    BY <1>7, <1>8, <2>1
  <2>3. to # 0
    BY <2>1, <2>2 DEF Complete
  <2> QED BY <1>9, <2>2, <2>3 DEF Complete, Whole
<1>11. Content(i, l, r, d)' /\ Whole(i, l, r, d, c)'
  BY <1>1, <1>2, <1>3, <1>9, <1>10, ContentStays
<1>12. /\ Content(meta.initialized, meta.last, orders, processed)'
       /\ Whole(meta.initialized, meta.last, orders, processed, meta.cursor)'
  BY <1>4, <1>5, <1>9, <1>11
<1>13. ~meta'.initialized => meta'.cursor \in {NoCursor, 0}
  <2>1. SUFFICES ASSUME ~db.initialized PROVE to = 0
    BY <1>5
  <2>2. Complete(db, to)
    BY <1>7, <1>8, <2>1
  <2> QED BY <2>1, <2>2 DEF Complete
<1>14. meta'.initialized /\ 1 \notin processed' => dropped' >= 1 /\ meta'.cursor # 0
  <2>1. SUFFICES ASSUME db.initialized, 1 \notin db.processed PROVE dropped >= 1 /\ to # 0
    BY <1>2, <1>4, <1>5
  <2>2. ~GoesOn(from)
    BY <1>7, <2>1 DEF Complete
  <2> QED BY <1>1, <1>8, <2>2 DEF DbInv
<1>15. (meta'.verified => genuine') /\ NeverWedged'
  BY <1>1, <1>2, <1>5 DEF DbInv, NeverWedged
<1>16. meta'.cursor <= head'
  BY <1>2, <1>5 DEF ChainInv, ChainType
<1>17. DbInv'
  BY <1>5, <1>12, <1>13, <1>14, <1>15, <1>16 DEF DbInv
<1> QED BY <1>4, <1>5, <1>17

\* Events that are no news leave a copy as it was.
LEMMA CopiedStays ==
  ASSUME IndexInv, Copied, UNCHANGED chainVars, NEW db, NEW from \in Nat, NEW to \in Nat,
         FoldInv(db, from, to - from), from >= 1, to >= from,
         meta'.last = db.last, meta'.target = meta.target, orders' = db.orders,
         processed' = db.processed, meta'.initialized = db.initialized
  PROVE  Copied'
<1>1. /\ meta.last \in Nat /\ meta.target \in Nat /\ db.last \in Nat
      /\ meta.last <= db.last /\ (db.last = meta.last => db.orders = orders)
      /\ meta.initialized => db.initialized
  BY DEF IndexInv, DbInv, IsMeta, FoldInv, IsDb, Content
<1>2. log' = log /\ books' = books
  BY ChainStays DEF IndexInv
<1>3. 1 \notin db.processed
  BY DEF Copied, FoldInv
<1>4. ASSUME meta'.target = meta'.last
      PROVE  meta'.last = meta.last /\ meta.target = meta.last /\ orders' = orders
  BY <1>1, <1>4 DEF Copied
<1>5. meta'.target = meta'.last =>
        \A s \in Bookside :
          \E n \in (meta'.last + 1)..Len(log) : IsListing(books[n][s], orders', s)
  BY <1>4 DEF Copied
<1> QED BY <1>1, <1>2, <1>3, <1>5 DEF Copied

\* A page is applied to the database that it was fetched for.
LEMMA ApplyKeeps ==
  ASSUME IndexInv, NEW p \in Page, \A q \in Page : q = p, Apply(p)
  PROVE  IndexInv'
<1>1. PICK page, live, db : page = pass[p].page /\ live = pass[p].live /\ db = Applied(page)
  OBVIOUS
<1>2. /\ At(p, "apply") /\ UNCHANGED chainVars /\ db.ok /\ CommitPage(page)
  BY <1>1 DEF Apply
<1>3. /\ live \in BOOLEAN /\ (live => Copied)
      /\ \E from \in 0..head : \E to \in from..head :
           /\ page.cursor = to /\ page.ledger \in Nat /\ Len(page.events) = to - from
           /\ from \in Nat /\ to \in Nat
           /\ 1 \in processed => from = meta.cursor
           /\ IF meta.initialized THEN 1 \notin processed => from >= 1 ELSE from = 0
           /\ FoldInv(db, from, to - from)
  BY <1>1, <1>2, AtApply
<1>4. PICK from \in 0..head : \E to \in from..head :
           /\ page.cursor = to /\ page.ledger \in Nat /\ Len(page.events) = to - from
           /\ from \in Nat /\ to \in Nat
           /\ 1 \in processed => from = meta.cursor
           /\ IF meta.initialized THEN 1 \notin processed => from >= 1 ELSE from = 0
           /\ FoldInv(db, from, to - from)
  BY <1>3
<1>5. PICK to \in from..head :
           /\ page.cursor = to /\ page.ledger \in Nat /\ Len(page.events) = to - from
           /\ from \in Nat /\ to \in Nat
           /\ 1 \in processed => from = meta.cursor
           /\ IF meta.initialized THEN 1 \notin processed => from >= 1 ELSE from = 0
           /\ FoldInv(db, from, to - from)
  BY <1>4
<1>6. /\ DbInv' /\ meta'.last = db.last /\ meta'.cursor = to /\ meta'.target = meta.target
      /\ orders' = db.orders /\ processed' = db.processed
      /\ meta'.initialized = db.initialized /\ ~meta'.fatal /\ IsMeta(meta')
  BY <1>1, <1>2, <1>5, Committed
<1>7. live => Copied'
  <2>1. SUFFICES ASSUME live PROVE Copied'
    OBVIOUS
  <2>2. Copied /\ from >= 1
    BY <1>3, <1>5, <2>1 DEF Copied
  <2>3. to >= from
    BY <1>5
  <2> QED BY <1>2, <1>5, <1>6, <2>2, <2>3, CopiedStays
<1>8. CASE ~live
  <2>1. PICK here : here = [at |-> "target", ledger |-> page.ledger]
    OBVIOUS
  <2>2. Goto(p, here) /\ here.at = "target"
    BY <1>1, <1>8, <2>1 DEF Apply
  <2>3. PassInv(p, here)'
    BY <2>2 DEF PassInv, FetchInv, ApplyInv, VerifyInv, PutInv, ReleaseInv, SidesInv
  <2> QED BY <1>2, <1>6, <2>2, <2>3, GotoKeeps
<1>9. CASE live /\ Len(page.events) = PageSize
  <2>1. PICK here : here = [at |-> "fetch", cursor |-> page.cursor, start |-> 0, live |-> TRUE]
    OBVIOUS
  <2>2. Goto(p, here)
    BY <1>1, <1>9, <2>1 DEF Apply
  <2>3. here.at = "fetch" /\ here.cursor = to /\ here.live
    BY <1>5, <2>1
  <2>4. here.cursor # NoCursor
    BY <1>5, <2>3 DEF NoCursor
  <2>5. FetchInv(here)'
    <3>1. here.live \in BOOLEAN
      BY <2>1
    <3> QED BY <1>6, <1>7, <1>9, <2>3, <2>4, <3>1 DEF FetchInv
  <2>6. PassInv(p, here)'
    BY <2>3, <2>5 DEF PassInv, ApplyInv, VerifyInv, PutInv, ReleaseInv, SidesInv
  <2> QED BY <1>2, <1>6, <2>2, <2>6, GotoKeeps
<1>10. CASE live /\ Len(page.events) # PageSize
  <2>1. PICK answer : answer = Snapshot(meta', orders')
    OBVIOUS
  <2>2. Return(p, answer)
    BY <1>1, <1>10, <2>1 DEF Apply
  <2>3. /\ answer.last = meta'.last /\ answer.orders = orders' /\ meta'.last \in Nat
        /\ answer.status = "synced" => meta'.verified /\ meta'.last = meta'.target
    <3>1. PICK m, rows : m = meta' /\ rows = orders'
      OBVIOUS
    <3>2. answer = Snapshot(m, rows) /\ IsMeta(m)
      BY <1>6, <2>1, <3>1
    <3> QED BY <3>1, <3>2, Snapshots
  <2>4. log' = log /\ books' = books /\ genuine' = genuine
    BY <1>2, ChainStays DEF IndexInv
  <2>5. Real(p, answer)
    <3>1. meta'.verified => genuine
      BY <1>6, <2>4 DEF DbInv
    <3>2. meta'.target = meta'.last =>
            \A s \in Bookside :
              \E n \in (meta'.last + 1)..Len(log) : IsListing(books[n][s], orders', s)
      BY <1>7, <1>10, <2>4 DEF Copied
    <3> QED BY <2>3, <3>1, <3>2 DEF Real
  <2> QED BY <1>2, <1>6, <2>2, <2>5, ReturnKeeps
<1> QED BY <1>3, <1>8, <1>9, <1>10

\* The events of a page apply to a replayed database.
LEMMA ApplyFailsKeeps ==
  ASSUME IndexInv, NEW p \in Page, \A q \in Page : q = p, ApplyFails(p)
  PROVE  IndexInv'
<1>1. PICK page, live, db : page = pass[p].page /\ live = pass[p].live /\ db = Applied(page)
  OBVIOUS
<1>2. At(p, "apply") /\ UNCHANGED <<chainVars, dbVars>> /\ ~db.ok
  BY <1>1 DEF ApplyFails
<1>3. CASE live
  <2>1. Return(p, Transient(meta, orders))
    BY <1>1, <1>3 DEF ApplyFails
  <2> QED BY <1>2, <2>1, TransientKeeps
<1>4. CASE ~live
  <2>1. \E from \in 0..head : \E to \in from..head :
          (1 \in processed => from = meta.cursor) /\ FoldInv(db, from, to - from)
    BY <1>1, <1>2, AtApply
  <2>2. PICK from, k : (1 \in processed => from = meta.cursor) /\ FoldInv(db, from, k)
    BY <2>1
  <2>3. meta.initialized => 1 \notin processed
    <3>1. SUFFICES ASSUME meta.initialized, 1 \in processed PROVE FALSE
      OBVIOUS
    <3>2. GoesOn(from)
      BY <2>2, <3>1 DEF GoesOn, IndexInv, DbInv, Whole
    <3> QED BY <1>2, <2>2, <3>2 DEF FoldInv, Complete
  <2>4. ReadForFatal(p)
    BY <1>1, <1>4 DEF ApplyFails
  <2> QED BY <1>2, <2>3, <2>4, FatalKeeps
<1> QED BY <1>3, <1>4

\* The target is at or ahead of the stored sequence.
LEMMA ReadTargetKeeps ==
  ASSUME IndexInv, NEW p \in Page, \A q \in Page : q = p, ReadTarget(p)
  PROVE  IndexInv'
<1>1. PICK m : m = [meta EXCEPT !.target = Len(log) - 1]
  OBVIOUS
<1>2. UNCHANGED <<chainVars, dbVars>> /\ IsMeta(meta) /\ Len(log) \in Nat \ {0}
  BY ChainFields DEF ReadTarget, IndexInv, DbInv
<1>3. /\ IsMeta(m) /\ m.initialized = meta.initialized /\ m.cursor = meta.cursor
      /\ m.last = meta.last /\ m.verified = meta.verified /\ m.fatal = meta.fatal
      /\ m.target = Len(log) - 1
  BY <1>1, <1>2 DEF IsMeta
<1>4. CASE ~m.initialized /\ pass[p].ledger <= m.ledger
  <2>1. ReadForFatal(p)
    BY <1>1, <1>4 DEF ReadTarget
  <2> QED BY <1>2, <1>3, <1>4, <2>1, FatalKeeps
<1>5. CASE ~(~m.initialized /\ pass[p].ledger <= m.ledger)
  <2>1. PICK here : here = [at |-> "verify", meta |-> m]
    OBVIOUS
  <2>2. here.at = "verify" /\ here.meta = m
    BY <2>1
  <2>3. Goto(p, here)
    BY <1>1, <1>5, <2>1 DEF ReadTarget
  <2>4. Holds(m)
    BY <1>3 DEF Holds, IndexInv, DbInv, NeverWedged, Replayed
  <2>5. TargetRead(m)
    <3>1. Content(meta.initialized, meta.last, orders, processed)
      BY DEF IndexInv, DbInv
    <3>2. m.target \in m.last..(Len(log) - 1) /\ m.target + 1 = Len(log)
      BY <1>2, <1>3, <3>1 DEF Content
    <3> QED BY <1>3, <3>1, <3>2 DEF Content, TargetRead
  <2>6. VerifyInv(here)
    BY <2>2, <2>4, <2>5 DEF VerifyInv
  <2> QED BY <1>2, <2>2, <2>3, <2>6, OneAt, GotoStays
<1> QED BY <1>4, <1>5

\* Only a genuine contract is verified.
LEMMA VerifyKeeps ==
  ASSUME IndexInv, NEW p \in Page, \A q \in Page : q = p, Verify(p)
  PROVE  IndexInv'
<1>1. PICK m : m = pass[p].meta
  OBVIOUS
<1>2. UNCHANGED <<chainVars, dbVars>> /\ Holds(m) /\ TargetRead(m)
  BY <1>1 DEF Verify, At, IndexInv, PassInv, VerifyInv
<1>3. CASE m.initialized /\ genuine
  <2>1. PICK n : n = [m EXCEPT !.verified = TRUE]
    OBVIOUS
  <2>2. /\ IsMeta(n) /\ n.initialized = m.initialized /\ n.cursor = m.cursor
        /\ n.last = m.last /\ n.fatal = m.fatal /\ n.target = m.target
    BY <1>2, <2>1 DEF IsMeta, Holds
  <2>3. Holds(n) /\ TargetRead(n)
    BY <1>2, <1>3, <2>2 DEF Holds, TargetRead
  <2>4. PICK here : here = [at |-> "put", meta |-> n]
    OBVIOUS
  <2>5. here.at = "put" /\ here.meta = n
    BY <2>4
  <2>6. Goto(p, here)
    BY <1>1, <1>3, <2>1, <2>4 DEF Verify
  <2>7. PutInv(here)
    BY <2>3, <2>5 DEF PutInv
  <2> QED BY <1>2, <2>5, <2>6, <2>7, OneAt, GotoStays
<1>4. CASE ~(m.initialized /\ genuine)
  <2>1. ReadForFatal(p)
    BY <1>1, <1>4 DEF Verify
  <2>2. ~(genuine /\ meta.initialized)
    BY <1>2, <1>4 DEF Holds
  <2> QED BY <1>2, <2>1, <2>2, FatalKeeps
<1> QED BY <1>3, <1>4

\* The record that is put back is the stored one, but for what the pass found out.
LEMMA PutMetaKeeps ==
  ASSUME IndexInv, NEW p \in Page, \A q \in Page : q = p, PutMeta(p)
  PROVE  IndexInv'
<1>1. PICK m : m = pass[p].meta
  OBVIOUS
<1>2. /\ UNCHANGED chainVars /\ meta' = m /\ orders' = orders /\ processed' = processed
      /\ Holds(m) /\ (~m.fatal => TargetRead(m))
  BY <1>1 DEF PutMeta, At, IndexInv, PassInv, PutInv
<1>3. /\ IsMeta(m) /\ m.initialized = meta.initialized /\ m.cursor = meta.cursor
      /\ m.last = meta.last /\ (m.verified => genuine) /\ m.last \in Nat
  BY <1>2 DEF Holds, IsMeta
<1>4. /\ ChainInv' /\ LogGrown /\ head' = head /\ dropped' = dropped /\ genuine' = genuine
  BY <1>2, ChainStays DEF IndexInv
<1>5. DbInv'
  <2>1. PICK i, l, r, d, c : /\ i = meta.initialized /\ l = meta.last /\ r = orders
                             /\ d = processed /\ c = meta.cursor
    OBVIOUS
  <2>2. Content(i, l, r, d)' /\ Whole(i, l, r, d, c)'
    BY <1>4, <2>1, ContentStays DEF IndexInv, DbInv
  <2>3. /\ Content(meta.initialized, meta.last, orders, processed)'
        /\ Whole(meta.initialized, meta.last, orders, processed, meta.cursor)'
    BY <1>2, <1>3, <2>1, <2>2
  <2>4. IsMeta(meta)' /\ meta'.cursor <= head'
    BY <1>2, <1>3, <1>4 DEF IndexInv, DbInv, IsMeta
  <2>5. /\ (~meta.initialized => meta.cursor \in {NoCursor, 0})'
        /\ (meta.initialized /\ 1 \notin processed => dropped >= 1 /\ meta.cursor # 0)'
        /\ (meta.verified => genuine)'
    BY <1>2, <1>3, <1>4 DEF IndexInv, DbInv
  <2>6. NeverWedged'
    BY <1>2, <1>3, <1>4 DEF NeverWedged, Replayed, Holds
  <2> QED BY <2>3, <2>4, <2>5, <2>6 DEF DbInv
<1>6. PICK answer : answer = Snapshot(m, orders)
  OBVIOUS
<1>7. Return(p, answer)
  BY <1>2, <1>6 DEF PutMeta
<1>8. Real(p, answer)
  <2>1. /\ answer.last = m.last /\ answer.orders = orders
        /\ answer.status = "synced" => ~m.fatal /\ m.initialized /\ m.verified /\ m.last = m.target
    BY <1>3, <1>6, Snapshots
  <2>2. SUFFICES ASSUME ~m.fatal, m.initialized, m.verified, m.last = m.target, NEW s \in Bookside
                 PROVE  \E n \in (m.last + 1)..Len(log) : IsListing(books[n][s], orders, s)
    BY <1>3, <2>1 DEF Real
  <2>3. PICK n : n = m.last + 1
    OBVIOUS
  <2>4. InStep(orders, s, n, n) /\ n \in 1..Len(log) /\ Keyed(orders) /\ n \in n..Len(log)
    BY <1>2, <1>3, <2>2, <2>3, ChainFields DEF TargetRead, IndexInv, DbInv, Content
  <2>5. Matches(orders, s, n)
    <3>1. PICK rows : rows = orders
      OBVIOUS
    <3>2. \A k \in n..n : k = n
      BY <2>4, ChainFields DEF IndexInv
    <3>3. Matches(rows, s, n) \/ Mixed(rows, s, n, n)
      BY <2>4, <3>1, <3>2 DEF InStep
    <3> QED BY <2>4, <3>1, <3>3, MixedMatches DEF IndexInv
  <2>6. IsListing(books[n][s], orders, s)
    <3>1. IsSide(books[n][s], s)
      BY <2>4, ChainFields DEF IndexInv
    <3> QED BY <2>4, <2>5, <3>1, MatchesList DEF Matches
  <2> QED BY <2>3, <2>4, <2>6
<1> QED BY <1>2, <1>5, <1>7, <1>8, ReturnKeeps

(***************************************************************************)
(* Copies of the contract's book.                                          *)
(***************************************************************************)

\* The rows of sides that were read one after the other.
RowsRead(sides) == UNION {LiveRows(sides[s]) : s \in Bookside}

\* They list each of them.
LEMMA LiveListed ==
  ASSUME ChainInv, NEW last \in 0..(Len(log) - 1), NEW sides,
         \A s \in Bookside : \E n \in (last + 1)..Len(log) : sides[s] = books[n][s],
         NEW rows, rows = RowsRead(sides)
  PROVE  /\ Keyed(rows)
         /\ \A s \in Bookside : \E n \in (last + 1)..Len(log) :
              Mixed(rows, s, last + 1, n) /\ IsListing(books[n][s], rows, s)
<1> DEFINE Row(s, k) == [order |-> sides[s][k].order, left |-> sides[s][k].left, priority |-> k]
<1>1. last + 1 \in Nat /\ \A n \in (last + 1)..Len(log) : n \in 1..Len(log)
  BY ChainFields
<1>2. ASSUME NEW s \in Bookside PROVE IsSide(sides[s], s)
  <2>1. PICK n \in (last + 1)..Len(log) : sides[s] = books[n][s]
    OBVIOUS
  <2> QED BY <1>1, <2>1, ChainFields
<1>3. \A r : r \in rows <=> \E s \in Bookside : \E k \in DOMAIN sides[s] : r = Row(s, k)
  BY DEF RowsRead, LiveRows
<1>4. ASSUME NEW s \in Bookside, NEW k \in DOMAIN sides[s]
      PROVE  /\ Row(s, k).order = sides[s][k].order /\ Row(s, k).left = sides[s][k].left
             /\ Row(s, k).priority = k /\ SideOf[sides[s][k].order] = s
             /\ sides[s][k].order \in Order /\ IsRow(Row(s, k)) /\ Row(s, k) \in rows
  <2>1. SideOf[sides[s][k].order] = s /\ sides[s][k].order \in Order /\ k \in Nat
    BY <1>2, SideFields
  <2>2. Row(s, k) \in rows
    BY <1>3
  <2> QED BY <2>1, <2>2 DEF IsRow
<1> HIDE DEF Row
<1>5. ASSUME NEW r \in rows PROVE IsRow(r)
  <2>1. PICK s \in Bookside : \E k \in DOMAIN sides[s] : r = Row(s, k)
    BY <1>3
  <2>2. PICK k \in DOMAIN sides[s] : r = Row(s, k)
    BY <2>1
  <2> QED BY <1>4, <2>2
<1>6. ASSUME NEW q \in rows, NEW r \in rows, q.order = r.order PROVE q = r
  <2>1. PICK s \in Bookside : \E k \in DOMAIN sides[s] : q = Row(s, k)
    BY <1>3
  <2>2. PICK k \in DOMAIN sides[s] : q = Row(s, k)
    BY <2>1
  <2>3. PICK t \in Bookside : \E l \in DOMAIN sides[t] : r = Row(t, l)
    BY <1>3
  <2>4. PICK l \in DOMAIN sides[t] : r = Row(t, l)
    BY <2>3
  <2>5. sides[s][k].order = sides[t][l].order /\ s = t
    BY <1>4, <1>6, <2>2, <2>4
  <2>6. k \in Nat /\ l \in Nat /\ IsSide(sides[s], s)
    BY <1>2, <2>5, SideFields
  <2>7. \A x, y \in DOMAIN sides[s] : x < y => sides[s][x].order # sides[s][y].order
    BY <2>6 DEF IsSide
  <2>8. k = l
    BY <2>5, <2>6, <2>7
  <2> QED BY <2>2, <2>4, <2>5, <2>8
<1>7. Keyed(rows)
  BY <1>5, <1>6 DEF Keyed
<1>8. ASSUME NEW s \in Bookside, NEW n \in (last + 1)..Len(log), sides[s] = books[n][s], NEW m
      PROVE  Mixed(rows, s, m, n)
  <2>1. ASSUME NEW k \in DOMAIN sides[s]
        PROVE  \E r \in rows : r.order = sides[s][k].order /\ r.priority = k
                               /\ r.left = sides[s][k].left
    BY <1>4
  <2>2. ASSUME NEW r \in rows, SideOf[r.order] = s PROVE Has(sides[s], r.order)
    <3>1. PICK t \in Bookside : \E k \in DOMAIN sides[t] : r = Row(t, k)
      BY <1>3
    <3>2. PICK k \in DOMAIN sides[t] : r = Row(t, k)
      BY <3>1
    <3>3. t = s /\ r.order = sides[s][k].order
      BY <1>4, <2>2, <3>2
    <3> QED BY <3>2, <3>3 DEF Has
  <2> QED BY <1>8, <2>1, <2>2 DEF Mixed
<1>9. ASSUME NEW s \in Bookside
      PROVE  \E n \in (last + 1)..Len(log) :
               Mixed(rows, s, last + 1, n) /\ IsListing(books[n][s], rows, s)
  <2>1. PICK n \in (last + 1)..Len(log) : sides[s] = books[n][s]
    OBVIOUS
  <2>2. Mixed(rows, s, last + 1, n) /\ Mixed(rows, s, n, n) /\ n \in 1..Len(log)
    BY <1>1, <1>8, <2>1
  <2>3. Matches(rows, s, n)
    BY <1>7, <2>2, MixedMatches
  <2>4. IsListing(books[n][s], rows, s)
    BY <1>2, <1>7, <2>1, <2>3, MatchesList DEF Matches
  <2> QED BY <2>2, <2>4
<1> QED BY <1>7, <1>9

\* A recovery goes on with a genuine contract only.
LEMMA VerifyLiveKeeps ==
  ASSUME IndexInv, NEW p \in Page, \A q \in Page : q = p, VerifyLive(p)
  PROVE  IndexInv'
<1>1. PICK j : j = pass[p]
  OBVIOUS
<1>2. UNCHANGED <<chainVars, dbVars>> /\ j.start \in 1..dropped
  BY <1>1 DEF VerifyLive, At, IndexInv, PassInv, ReleaseInv
<1>3. CASE genuine
  <2>1. PICK here : here = [at |-> "sequence", start |-> j.start]
    OBVIOUS
  <2>2. here.at = "sequence" /\ here.start = j.start /\ Goto(p, here)
    BY <1>1, <1>3, <2>1 DEF VerifyLive
  <2>3. ReleaseInv(here)
    BY <1>2, <1>3, <2>2 DEF ReleaseInv
  <2> QED BY <1>2, <2>2, <2>3, OneAt, GotoStays
<1>4. CASE ~genuine
  <2>1. ReadForFatal(p)
    BY <1>4 DEF VerifyLive
  <2> QED BY <1>2, <1>4, <2>1, FatalKeeps
<1> QED BY <1>3, <1>4

\* The sequence of a copy is read before its sides.
LEMMA ReadSequenceKeeps ==
  ASSUME IndexInv, NEW p \in Page, \A q \in Page : q = p, ReadSequence(p)
  PROVE  IndexInv'
<1>1. PICK j : j = pass[p]
  OBVIOUS
<1>2. /\ UNCHANGED <<chainVars, dbVars>> /\ j.start \in 1..dropped /\ genuine
      /\ Len(log) \in Nat \ {0}
  BY <1>1, ChainFields DEF ReadSequence, At, IndexInv, PassInv, ReleaseInv
<1>3. PICK here : here = [at |-> "sides", start |-> j.start, last |-> Len(log) - 1, sides |-> NoSides]
  OBVIOUS
<1>4. Goto(p, here)
  BY <1>1, <1>3 DEF ReadSequence
<1>5. /\ here.at = "sides" /\ here.start = j.start /\ here.last = Len(log) - 1
      /\ here.sides = NoSides /\ DOMAIN NoSides = {}
  BY <1>3 DEF NoSides
<1>6. SidesInv(p, here)
  BY <1>2, <1>5 DEF SidesInv
<1> QED BY <1>2, <1>4, <1>5, <1>6, OneAt, GotoStays

\* In trusted mode the sides are read at once.
LEMMA BeginTrustedKeeps ==
  ASSUME IndexInv, NEW p \in Page, \A q \in Page : q = p, BeginTrusted(p)
  PROVE  IndexInv'
<1>1. PICK here : here = [at |-> "sides", start |-> 0, last |-> 0, sides |-> NoSides]
  OBVIOUS
<1>2. /\ UNCHANGED <<chainVars, dbVars>> /\ Goto(p, here) /\ storage[p] = "trusted"
      /\ Len(log) \in Nat \ {0}
  BY <1>1, ChainFields DEF BeginTrusted, IndexInv
<1>3. /\ here.at = "sides" /\ here.last = 0 /\ here.sides = NoSides /\ DOMAIN NoSides = {}
  BY <1>1 DEF NoSides
<1>4. SidesInv(p, here)
  BY <1>2, <1>3 DEF SidesInv
<1> QED BY <1>2, <1>3, <1>4, OneAt, GotoStays

\* A side is read as the contract has it.
LEMMA ReadSideKeeps ==
  ASSUME IndexInv, NEW p \in Page, \A q \in Page : q = p, NEW s \in Bookside, ReadSide(p, s)
  PROVE  IndexInv'
<1>1. PICK j : j = pass[p]
  OBVIOUS
<1>2. /\ UNCHANGED <<chainVars, dbVars>> /\ Len(log) \in Nat \ {0}
      /\ storage[p] = "trustless" => genuine /\ j.start \in 1..dropped
      /\ j.last \in 0..(Len(log) - 1) /\ DOMAIN j.sides \subseteq Bookside
      /\ \A r \in DOMAIN j.sides : \E n \in (j.last + 1)..Len(log) : j.sides[r] = books[n][r]
  BY <1>1, ChainFields DEF ReadSide, At, IndexInv, PassInv, SidesInv
<1>3. PICK sides : sides = [r \in DOMAIN j.sides \cup {s} |->
                              IF r = s THEN BookAfter(Len(log))[s] ELSE j.sides[r]]
  OBVIOUS
<1>4. PICK here : here = [at |-> "sides", start |-> j.start, last |-> j.last, sides |-> sides]
  OBVIOUS
<1>5. Goto(p, here)
  BY <1>1, <1>3, <1>4 DEF ReadSide
<1>6. /\ here.at = "sides" /\ here.start = j.start /\ here.last = j.last /\ here.sides = sides
  BY <1>4
<1>7. Len(log) \in (j.last + 1)..Len(log)
  BY <1>2
<1>8. /\ DOMAIN sides \subseteq Bookside
      /\ \A r \in DOMAIN sides : \E n \in (j.last + 1)..Len(log) : sides[r] = books[n][r]
  BY <1>2, <1>3, <1>7 DEF BookAfter
<1>9. SidesInv(p, here)
  BY <1>2, <1>6, <1>8 DEF SidesInv
<1> QED BY <1>2, <1>5, <1>6, <1>9, OneAt, GotoStays

\* A recovery replaces the database by what it has read.
LEMMA WriteLiveKeeps ==
  ASSUME IndexInv, NEW p \in Page, \A q \in Page : q = p, WriteLive(p)
  PROVE  IndexInv'
<1>1. PICK j : j = pass[p]
  OBVIOUS
<1>2. PICK last, sides : last = j.last /\ sides = j.sides
  OBVIOUS
<1>3. PICK rows : rows = RowsRead(sides)
  OBVIOUS
<1>4. /\ UNCHANGED chainVars /\ genuine /\ j.start \in 1..dropped /\ last \in 0..(Len(log) - 1)
      /\ \A s \in Bookside : \E n \in (last + 1)..Len(log) : sides[s] = books[n][s]
      /\ Len(log) \in Nat \ {0} /\ head \in Nat /\ dropped \in Nat
  BY <1>1, <1>2, ChainFields
  DEF WriteLive, At, IndexInv, PassInv, SidesInv, ChainInv, ChainType
<1>5. /\ Keyed(rows)
      /\ \A s \in Bookside : \E n \in (last + 1)..Len(log) :
           Mixed(rows, s, last + 1, n) /\ IsListing(books[n][s], rows, s)
  <2>1. ChainInv
    BY DEF IndexInv
  <2> QED BY <1>3, <1>4, <2>1, LiveListed
<1>6. PICK m : m = [InitialMeta EXCEPT !.initialized = TRUE, !.verified = TRUE,
                                       !.last = last, !.target = last]
  OBVIOUS
<1>7. /\ m.initialized /\ m.verified /\ ~m.fatal /\ m.last = last /\ m.target = last
      /\ m.cursor = NoCursor /\ IsMeta(m)
  <2>1. m = [initialized |-> TRUE, cursor |-> NoCursor, last |-> last, ledger |-> 0,
             target |-> last, verified |-> TRUE, fatal |-> FALSE]
    BY <1>6 DEF InitialMeta
  <2>2. last \in Nat
    BY <1>4
  <2> QED BY <2>1, <2>2 DEF IsMeta
<1>8. PICK here : here = [at |-> "fetch", cursor |-> NoCursor, start |-> j.start, live |-> TRUE]
  OBVIOUS
<1>9. meta' = m /\ orders' = rows /\ processed' = {} /\ Goto(p, here)
  BY <1>1, <1>2, <1>3, <1>6, <1>8 DEF WriteLive, RowsRead
<1>10. /\ log' = log /\ books' = books /\ head' = head /\ dropped' = dropped
       /\ genuine' = genuine /\ 1 \notin processed'
  BY <1>4, <1>9, ChainStays DEF IndexInv
<1>11. DbInv'
  <2>1. Content(TRUE, last, rows, {})
    <3>1. \A s \in Bookside : InStep(rows, s, last + 1, Len(log))
      BY <1>5 DEF InStep
    <3> QED BY <1>4, <1>5, <3>1 DEF Content
  <2>2. PICK done : done = {}
    OBVIOUS
  <2>3. Content(TRUE, last, rows, done)' /\ Whole(TRUE, last, rows, done, NoCursor)'
    <3>1. \A s \in Bookside : InStep(rows, s, last + 1, Len(log))'
      <4>1. \A s \in Bookside : InStep(rows, s, last + 1, Len(log))
        BY <1>5 DEF InStep
      <4> QED BY <1>10, <4>1 DEF InStep, Matches, Mixed
    <3>2. Content(TRUE, last, rows, done)'
      BY <1>4, <1>5, <1>10, <3>1 DEF Content
    <3> QED BY <2>2, <3>2 DEF Whole
  <2>4. /\ Content(meta.initialized, meta.last, orders, processed)'
        /\ Whole(meta.initialized, meta.last, orders, processed, meta.cursor)'
    BY <1>7, <1>9, <2>2, <2>3
  <2>5. IsMeta(meta)' /\ meta'.cursor <= head'
    BY <1>4, <1>7, <1>9, <1>10 DEF IsMeta, NoCursor
  <2>6. /\ (meta.initialized /\ 1 \notin processed => dropped >= 1 /\ meta.cursor # 0)'
        /\ (meta.verified => genuine)' /\ NeverWedged' /\ meta'.initialized
    BY <1>4, <1>7, <1>9, <1>10 DEF NoCursor, NeverWedged
  <2> QED BY <2>4, <2>5, <2>6 DEF DbInv
<1>12. FetchInv(here)'
  <2>1. /\ meta'.initialized /\ meta'.target = meta'.last /\ meta'.last = last
        /\ meta'.cursor = NoCursor
    BY <1>7, <1>9
  <2>2. Copied'
    BY <1>4, <1>5, <1>9, <1>10, <2>1 DEF Copied
  <2>3. here.live /\ here.cursor = NoCursor /\ here.start = j.start
    BY <1>8
  <2> QED BY <1>4, <1>10, <2>1, <2>2, <2>3 DEF FetchInv
<1>13. here.at = "fetch"
  BY <1>8
<1>14. PassInv(p, here)'
  BY <1>12, <1>13 DEF PassInv, FetchInv, ApplyInv, VerifyInv, PutInv, ReleaseInv, SidesInv
<1> QED BY <1>4, <1>9, <1>11, <1>14, GotoKeeps

\* In trusted mode the sides are displayed as they were read.
LEMMA ShowTrustedKeeps ==
  ASSUME IndexInv, NEW p \in Page, \A q \in Page : q = p, ShowTrusted(p)
  PROVE  IndexInv'
<1>1. PICK j : j = pass[p]
  OBVIOUS
<1>2. PICK sides : sides = j.sides
  OBVIOUS
<1>3. PICK rows : rows = RowsRead(sides)
  OBVIOUS
<1>4. /\ UNCHANGED <<chainVars, dbVars>> /\ storage[p] = "trusted" /\ Len(log) \in Nat \ {0}
      /\ \A s \in Bookside : \E n \in (0 + 1)..Len(log) : sides[s] = books[n][s]
  <2>1. /\ UNCHANGED <<chainVars, dbVars>> /\ storage[p] = "trusted" /\ Len(log) \in Nat \ {0}
        /\ j.last \in 0..(Len(log) - 1)
        /\ \A s \in Bookside : \E n \in (j.last + 1)..Len(log) : sides[s] = books[n][s]
    BY <1>1, <1>2, ChainFields DEF ShowTrusted, At, IndexInv, PassInv, SidesInv
  <2>2. \A n \in (j.last + 1)..Len(log) : n \in (0 + 1)..Len(log)
    BY <2>1
  <2> QED BY <2>1, <2>2
<1>5. \A s \in Bookside : \E n \in (0 + 1)..Len(log) : IsListing(books[n][s], rows, s)
  <2>1. PICK last : last = 0
    OBVIOUS
  <2>2. /\ ChainInv /\ last \in 0..(Len(log) - 1)
        /\ \A s \in Bookside : \E n \in (last + 1)..Len(log) : sides[s] = books[n][s]
    BY <1>4, <2>1 DEF IndexInv
  <2>3. \A s \in Bookside : \E n \in (last + 1)..Len(log) : IsListing(books[n][s], rows, s)
    BY <1>3, <2>2, LiveListed
  <2> QED BY <2>1, <2>3
<1>6. PICK answer : answer = [status |-> "synced", last |-> 0, orders |-> rows]
  OBVIOUS
<1>7. Return(p, answer)
  BY <1>1, <1>2, <1>3, <1>6 DEF ShowTrusted, RowsRead
<1>8. Real(p, answer)
  <2>1. answer.last = 0 /\ answer.orders = rows
    BY <1>6
  <2> QED BY <1>4, <1>5, <2>1 DEF Real
<1> QED BY <1>4, <1>7, <1>8, ReturnStays
-----------------------------------------------------------------------------
(***************************************************************************)
(* Failures and users.                                                     *)
(***************************************************************************)

\* What is displayed before and after a pass that could not read.
LEMMA EmptyIsReal ==
  ASSUME NEW p
  PROVE  Real(p, Empty) /\ Real(p, FailedSnapshot)
BY DEF Real, Empty, FailedSnapshot

\* A failed call ends the pass and leaves the database alone.
LEMMA FailKeeps ==
  ASSUME IndexInv, NEW p \in Page, \A q \in Page : q = p, Fail(p)
  PROVE  IndexInv'
<1>1. UNCHANGED <<chainVars, dbVars>>
  BY DEF Fail
<1>2. CASE storage[p] = "trusted"
  <2>1. Return(p, FailedSnapshot)
    BY <1>2 DEF Fail
  <2> QED BY <1>1, <2>1, EmptyIsReal, ReturnStays
<1>3. CASE storage[p] # "trusted"
  <2>1. Return(p, Transient(meta, orders))
    BY <1>3 DEF Fail
  <2> QED BY <1>1, <2>1, TransientKeeps
<1> QED BY <1>2, <1>3

\* So does a page that is loaded again.
LEMMA ReloadKeeps ==
  ASSUME IndexInv, NEW p \in Page, \A q \in Page : q = p, Reload(p)
  PROVE  IndexInv'
<1>1. UNCHANGED <<chainVars, dbVars>> /\ Return(p, Empty)
  BY DEF Reload
<1> QED BY <1>1, EmptyIsReal, ReturnStays

\* An empty database is right.
LEMMA EmptyKeeps ==
  ASSUME ChainInv, NEW m, m = InitialMeta
  PROVE  /\ IsMeta(m) /\ m.cursor = NoCursor /\ ~m.initialized /\ ~m.verified /\ ~m.fatal
         /\ m.last = 0 /\ Content(m.initialized, m.last, {}, {})
         /\ Whole(m.initialized, m.last, {}, {}, m.cursor) /\ head \in Nat
<1>1. IsMeta(m) /\ m.cursor = NoCursor /\ ~m.initialized /\ ~m.verified /\ ~m.fatal /\ m.last = 0
  BY DEF InitialMeta, IsMeta, NoCursor
<1>2. Len(log) \in Nat \ {0} /\ head \in Nat
  BY ChainFields DEF ChainInv, ChainType
<1>3. Content(m.initialized, m.last, {}, {}) /\ Whole(m.initialized, m.last, {}, {}, m.cursor)
  BY <1>1, <1>2 DEF Content, Whole, Keyed, IsMeta
<1> QED BY <1>1, <1>2, <1>3

\* A recheck starts over.
LEMMA RecheckKeeps ==
  ASSUME IndexInv, NEW p \in Page, \A q \in Page : q = p, Recheck(p)
  PROVE  IndexInv'
<1>1. PICK m, none : m = InitialMeta /\ none = {}
  OBVIOUS
<1>2. /\ UNCHANGED chainVars /\ meta' = m /\ orders' = none /\ processed' = none
      /\ Return(p, Empty)
  BY <1>1 DEF Recheck
<1>3. ChainInv' /\ head' = head
  BY <1>2, ChainStays DEF IndexInv
<1>4. /\ IsMeta(m) /\ m.cursor = NoCursor /\ ~m.initialized /\ ~m.verified /\ ~m.fatal
      /\ m.last = 0 /\ head \in Nat
  BY <1>1, EmptyKeeps DEF IndexInv
<1>5. Content(m.initialized, m.last, none, none)' /\ Whole(m.initialized, m.last, none, none, m.cursor)'
  <2>1. Len(log') \in Nat \ {0}
    BY <1>2, ChainFields DEF IndexInv, chainVars, contract
  <2> QED BY <1>1, <1>4, <2>1 DEF Content, Whole, Keyed, IsMeta
<1>6. DbInv'
  <2>1. /\ Content(meta.initialized, meta.last, orders, processed)'
        /\ Whole(meta.initialized, meta.last, orders, processed, meta.cursor)'
    BY <1>2, <1>5
  <2>2. IsMeta(meta)' /\ meta'.cursor <= head'
    BY <1>2, <1>3, <1>4 DEF IsMeta, NoCursor
  <2>3. /\ (~meta.initialized => meta.cursor \in {NoCursor, 0})'
        /\ (meta.initialized /\ 1 \notin processed => dropped >= 1 /\ meta.cursor # 0)'
        /\ (meta.verified => genuine)' /\ NeverWedged'
    BY <1>2, <1>4 DEF NeverWedged
  <2> QED BY <2>1, <2>2, <2>3 DEF DbInv
<1> QED BY <1>2, <1>6, EmptyIsReal, ReturnKeeps
-----------------------------------------------------------------------------
(***************************************************************************)
(* The theorems.                                                           *)
(***************************************************************************)

\* A deployed desk and an empty database.
LEMMA InitKeeps ==
  ASSUME IndexInit
  PROVE  IndexInv
<1>1. /\ log = <<BookInit>> /\ Len(log) = 1 /\ log[1] = BookInit /\ books = <<[s \in Bookside |-> <<>>]>>
      /\ Len(books) = 1 /\ \A s \in Bookside : books[1][s] = <<>>
  BY DEF IndexInit
<1>2. ChainInv
  <2>1. log \in Seq(BookEvent)
    BY <1>1 DEF BookEvent
  <2>2. books \in Seq([Bookside -> Seq(Entries)])
    BY <1>1
  <2>3. head \in 0..1 /\ dropped = 0
    BY DEF IndexInit
  <2>4. ChainType
    BY <1>1, <2>1, <2>2, <2>3 DEF ChainType
  <2>5. \A s \in Bookside : IsSide(books[1][s], s) /\ Len(books[1][s]) < 1
    BY <1>1 DEF IsSide
  <2>6. \A n \in 1..Len(log) : n = 1 /\ History(n)
    BY <1>1 DEF History
  <2>7. \A n \in 2..Len(log) : FALSE
    BY <1>1
  <2> QED BY <2>4, <2>5, <2>6, <2>7 DEF ChainInv
<1>3. DbInv
  <2>1. meta = InitialMeta /\ orders = {} /\ processed = {}
    BY DEF IndexInit
  <2>2. /\ IsMeta(meta) /\ meta.cursor = NoCursor /\ ~meta.initialized /\ ~meta.verified
        /\ Content(meta.initialized, meta.last, orders, processed)
        /\ Whole(meta.initialized, meta.last, orders, processed, meta.cursor) /\ head \in Nat
    BY <1>2, <2>1, EmptyKeeps
  <2> QED BY <2>2 DEF DbInv, NeverWedged, NoCursor
<1>4. /\ pass = [p \in Page |-> Idle] /\ shown = [p \in Page |-> Empty]
  BY DEF IndexInit
<1>5. ShownIsReal /\ \A p \in Page : shown[p].last \in Nat
  BY <1>4 DEF ShownIsReal, Empty
<1>6. \A p \in Page : PassInv(p, pass[p])
  BY <1>4, IdleInv
<1> QED BY <1>2, <1>3, <1>4, <1>5, <1>6 DEF IndexInv

\* Every step of the chain, of the one page's pass or of its user.
LEMMA NextKeeps ==
  ASSUME \A p, q \in Page : p = q, IndexInv, [IndexNext]_indexVars
  PROVE  IndexInv'
<1>1. CASE Chain
  BY <1>1, ChainStep, ForwardKeeps DEF IndexInv
<1>2. ASSUME NEW p \in Page, Local(p) PROVE IndexInv'
  BY <1>2, BeginKeeps, ApplyKeeps, ApplyFailsKeeps, PutMetaKeeps, WriteLiveKeeps,
     BeginTrustedKeeps, ShowTrustedKeeps DEF Local
<1>3. ASSUME NEW p \in Page, Remote(p) PROVE IndexInv'
  BY <1>3, FetchKeeps, ReadTargetKeeps, VerifyKeeps, VerifyLiveKeeps, ReadSequenceKeeps,
     ReadSideKeeps DEF Remote
<1>4. ASSUME NEW p \in Page, Fail(p) \/ Reload(p) \/ Recheck(p) PROVE IndexInv'
  BY <1>4, FailKeeps, ReloadKeeps, RecheckKeeps
<1>5. CASE UNCHANGED indexVars
  <2>1. UNCHANGED <<chainVars, dbVars>> /\ UNCHANGED <<pass, shown>>
    BY <1>5 DEF indexVars
  <2>2. Forward
    BY <2>1, AllStays DEF IndexInv, Forward
  <2> QED BY <2>2, ForwardKeeps
<1> QED BY <1>1, <1>2, <1>3, <1>4, <1>5 DEF IndexNext

\* The rows of a replayed database list the book at its sequence.
LEMMA ReplayedIsStored ==
  ASSUME IndexInv
  PROVE  StoredAsOne
<1> SUFFICES ASSUME Replayed, NEW s \in Bookside
             PROVE  IsListing(books[meta.last + 1][s], orders, s)
  BY DEF StoredAsOne, StoredIsBook, BookAfter
<1>1. PICK n : n = meta.last + 1
  OBVIOUS
<1>2. n \in 1..Len(log) /\ Keyed(orders) /\ Matches(orders, s, n)
  <2>1. Len(log) \in Nat \ {0} /\ meta.last \in 0..(Len(log) - 1) /\ Keyed(orders)
    BY ChainFields DEF IndexInv, DbInv, Content
  <2>2. CASE meta.initialized
    BY <1>1, <2>1, <2>2 DEF Replayed, IndexInv, DbInv, Whole
  <2>3. CASE ~meta.initialized
    <3>1. orders = {} /\ n = 1
      BY <1>1, <2>3 DEF IndexInv, DbInv, Content
    <3> QED BY <2>1, <3>1, NothingYet DEF IndexInv
  <2> QED BY <1>1, <2>1, <2>2, <2>3
<1>3. IsSide(books[n][s], s)
  BY <1>2, ChainFields DEF IndexInv
<1> QED BY <1>1, <1>2, <1>3, MatchesList DEF Matches

\* The inductive invariant.
THEOREM IndexIsInductive ==
  ASSUME \A p, q \in Page : p = q
  PROVE  IndexSpec => []IndexInv
<1>1. IndexInit => IndexInv
  BY InitKeeps
<1>2. IndexInv /\ [IndexNext]_indexVars => IndexInv'
  BY NextKeeps
<1> QED BY <1>1, <1>2, PTL DEF IndexSpec

\* What the stored sequence says is what is stored.
THEOREM StoredAsOneHolds ==
  ASSUME \A p, q \in Page : p = q
  PROVE  IndexSpec => []StoredAsOne
<1>1. IndexInv => StoredAsOne
  BY ReplayedIsStored
<1> QED BY <1>1, IndexIsInductive, PTL

\* No sequence of reloads, failures and dropped events leaves an error for good.
THEOREM NeverWedgedHolds ==
  ASSUME \A p, q \in Page : p = q
  PROVE  IndexSpec => []NeverWedged
<1>1. IndexInv => NeverWedged
  BY DEF IndexInv, DbInv
<1> QED BY <1>1, IndexIsInductive, PTL

\* A side displayed as synced is the contract's.
THEOREM ShownIsRealHolds ==
  ASSUME \A p, q \in Page : p = q
  PROVE  IndexSpec => []ShownIsReal
<1>1. IndexInv => ShownIsReal
  BY DEF IndexInv
<1> QED BY <1>1, IndexIsInductive, PTL
=============================================================================

---------------------------- MODULE WalletProofs ----------------------------
(***************************************************************************)
(* Theorems about a wallet's operations and its notes, for any number of   *)
(* tabs, browsers, operations and mishaps.                                 *)
(*                                                                         *)
(* That a succeeded operation landed is not inductive: it rests on what    *)
(* each executor holds at each of its steps and on what is in the action   *)
(* caches, which JobHonest and IInv say.                                   *)
(*                                                                         *)
(* That no copy of the notes loses what must be kept rests on what every   *)
(* copy may be, in a browser, in the backup and in a snapshot under way    *)
(* (NoteOk), on what the executors are about to do with their notes        *)
(* (JobOk), and on a snapshot that the server would accept losing nothing  *)
(* of the backup (SyncOk).  NInv says all three.  Every step comes to      *)
(* Proceeds: it keeps NInv, and what it does to the copies is safe.        *)
(*                                                                         *)
(* That outputs are uploaded before they are minted needs, besides, that   *)
(* an operation has one executor at a time (LInv), that pollers are right  *)
(* about what was given up (Listed), and that what was staged stays in the *)
(* browser, in the snapshots under way and in the backup (Pledges).        *)
(***************************************************************************)
EXTENDS Wallet, SequenceTheorems, FiniteSetTheorems, TLAPS

\* The record of an executor.
IsJob(j) ==
  j = [pc |-> j.pc, op |-> j.op, lease |-> j.lease, call |-> j.call, note |-> j.note,
       ins |-> j.ins, order |-> j.order, new |-> j.new, steps |-> j.steps, tx |-> j.tx]

\* A transaction that executes the operation is on the chain.
Done(o) ==
  \E i \in DOMAIN txs : txs[i].status = "landed" /\ txs[i].op = o /\ txs[i].method # "join"

\* The executor waits for a transaction of its own, and goes on to report only
\* what has landed.
JobHonest(j) ==
  /\ j.pc = "wait" =>
       j.tx \in DOMAIN txs /\ txs[j.tx].op = j.op /\ txs[j.tx].method = j.call
  /\ j.pc \in {"settle", "settling", "confirm"} /\ j.call # "join" => Done(j.op)
  /\ j.pc \in {"confirming", "finish", "complete"} => Done(j.op)

Records ==
  /\ operation = [o \in Op |-> operation[o]]
  /\ cached = [b \in Browser |-> cached[b]]
  /\ exec = [t \in Tab |-> exec[t]] /\ \A t \in Tab : IsJob(exec[t])
  /\ Len(txs) \in Nat /\ txs = [i \in 1..Len(txs) |-> txs[i]]
  /\ \A i \in DOMAIN txs :
       txs[i] = [op |-> txs[i].op, method |-> txs[i].method, ins |-> txs[i].ins,
                 outs |-> txs[i].outs, order |-> txs[i].order, status |-> txs[i].status]

Honest ==
  /\ \A o \in Op : operation[o] = "succeeded" => Done(o)
  /\ \A b \in Browser : \A o \in cached[b] : Done(o)
  /\ \A t \in Tab : JobHonest(exec[t])

IInv == Records /\ Honest

\* The steps of an executor at which it has nothing to show for its operation.
Quiet == {"idle", "begin", "add", "staging", "submit", "join", "reserve", "fail", "rollback",
          "rolling"}
-----------------------------------------------------------------------------
(***************************************************************************)
(* What steps have in common.                                              *)
(***************************************************************************)

\* Transactions are only added, and what has landed stays.
Grow ==
  \A i \in DOMAIN txs :
    /\ i \in DOMAIN txs' /\ txs'[i].op = txs[i].op /\ txs'[i].method = txs[i].method
    /\ txs[i].status = "landed" => txs'[i].status = "landed"

\* What is honest stays so while transactions are added and land.
LEMMA HonestStays ==
  ASSUME Grow, NEW o, NEW j
  PROVE  (Done(o) => Done(o)') /\ (JobHonest(j) => JobHonest(j)')
<1>1. \A p : Done(p) => Done(p)'
  BY DEF Grow, Done
<1>2. j.tx \in DOMAIN txs =>
        /\ j.tx \in DOMAIN txs' /\ txs'[j.tx].op = txs[j.tx].op
        /\ txs'[j.tx].method = txs[j.tx].method
  BY DEF Grow
<1> QED BY <1>1, <1>2 DEF JobHonest

\* Steps that are none of the executors' and of the queue's.
LEMMA Elsewhere == ASSUME IInv, UNCHANGED <<operation, cached, exec, txs>> PROVE IInv'
<1>1. \A o : Done(o)' <=> Done(o)
  BY DEF Done
<1>2. \A j : JobHonest(j)' <=> JobHonest(j)
  BY <1>1 DEF JobHonest
<1>3. Records'
  BY DEF IInv, Records
<1>4. Honest'
  BY <1>1, <1>2 DEF IInv, Honest
<1> QED BY <1>3, <1>4 DEF IInv

\* An executor goes on, and a cache and the status of operations with it.
LEMMA ExecTo ==
  ASSUME IInv, NEW t \in Tab, NEW j, exec' = [exec EXCEPT ![t] = j], IsJob(j), JobHonest(j),
         UNCHANGED txs,
         operation' = [o \in Op |-> operation'[o]],
         \A o \in Op : operation'[o] = "succeeded" => Done(o),
         cached' = [b \in Browser |-> cached'[b]],
         \A b \in Browser : \A o \in cached'[b] : Done(o)
  PROVE  IInv'
<1>1. /\ exec' = [u \in Tab |-> exec'[u]] /\ exec'[t] = j
      /\ \A u \in Tab : u # t => exec'[u] = exec[u]
  BY DEF IInv, Records
<1>2. \A u \in Tab : IsJob(exec'[u]) /\ JobHonest(exec'[u])
  BY <1>1 DEF IInv, Records, Honest
<1>3. \A o : Done(o)' <=> Done(o)
  BY DEF Done
<1>4. \A k : JobHonest(k)' <=> JobHonest(k)
  BY <1>3 DEF JobHonest
<1>5. \A k : IsJob(k)' <=> IsJob(k)
  OBVIOUS
<1>6. Records'
  BY <1>1, <1>2, <1>5 DEF IInv, Records
<1>7. Honest'
  BY <1>1, <1>2, <1>3, <1>4 DEF Honest
<1> QED BY <1>6, <1>7 DEF IInv

\* An executor goes on alone.
LEMMA ExecAlone ==
  ASSUME IInv, NEW t \in Tab, NEW j, exec' = [exec EXCEPT ![t] = j], IsJob(j), JobHonest(j),
         UNCHANGED <<txs, operation, cached>>
  PROVE  IInv'
<1>1. /\ operation' = [o \in Op |-> operation'[o]]
      /\ \A o \in Op : operation'[o] = "succeeded" => Done(o)
      /\ cached' = [b \in Browser |-> cached'[b]]
      /\ \A b \in Browser : \A o \in cached'[b] : Done(o)
  BY DEF IInv, Records, Honest
<1> QED BY <1>1, ExecTo

\* A quiet executor is honest.
LEMMA QuietIsHonest == ASSUME NEW j, j.pc \in Quiet PROVE JobHonest(j)
BY DEF Quiet, JobHonest

\* An executor whose step alone changes.
LEMMA JobAt ==
  ASSUME NEW j, IsJob(j), NEW p, NEW r, r = [j EXCEPT !.pc = p]
  PROVE  IsJob(r) /\ r.pc = p /\ r.op = j.op /\ r.call = j.call /\ r.tx = j.tx
BY DEF IsJob

\* An executor that keeps its operation and its lease only.
LEMMA JobKept ==
  ASSUME NEW j, NEW p
  PROVE  IsJob(Keep(j, p)) /\ Keep(j, p).pc = p /\ Keep(j, p).op = j.op
<1>1. ASSUME NEW k, k = [NoJob EXCEPT !.pc = p, !.op = j.op, !.lease = j.lease]
      PROVE  IsJob(k) /\ k.pc = p /\ k.op = j.op
  BY <1>1 DEF IsJob, NoJob
<1> QED BY <1>1 DEF Keep

\* An executor that has given up, or is gone.
LEMMA JobGone == IsJob(NoJob) /\ JobHonest(NoJob)
BY DEF IsJob, NoJob, JobHonest

\* What an executor throws leaves nothing to show.
LEMMA Throws ==
  ASSUME NEW j
  PROVE  IsJob(Keep(j, "fail")) /\ JobHonest(Keep(j, "fail"))
BY JobKept, QuietIsHonest DEF Quiet

\* Operations and caches that stay keep what they show.
LEMMA ShownStays ==
  ASSUME IInv
  PROVE  /\ operation = [o \in Op |-> operation[o]] /\ cached = [b \in Browser |-> cached[b]]
         /\ \A o \in Op : operation[o] = "succeeded" => Done(o)
         /\ \A b \in Browser : \A o \in cached[b] : Done(o)
BY DEF IInv, Records, Honest
-----------------------------------------------------------------------------
(***************************************************************************)
(* The executor.                                                           *)
(***************************************************************************)

\* Steps before a transaction is submitted, and those of a rollback.
LEMMA QuietStep ==
  ASSUME IInv, NEW t \in Tab,
         \/ ExecuteShield(t) \/ ExecuteCancel(t) \/ ExactInput(t) \/ ExecuteJoin(t)
         \/ ExecuteOrder(t) \/ ExecuteUnshield(t) \/ StageOutput(t) \/ SubmitRefused(t)
         \/ RollbackClientAction(t) \/ ConfirmJoin(t)
  PROVE  IInv'
<1> DEFINE e == exec[t]
<1>1. IsJob(e)
  BY DEF IInv, Records
<1>2. UNCHANGED <<txs, operation, cached>>
  BY DEF ExecuteShield, ExecuteCancel, ExactInput, ExecuteJoin, ExecuteOrder, ExecuteUnshield,
         StageOutput, SubmitRefused, RollbackClientAction, ConfirmJoin, queueVars, chain
<1>3. SUFFICES \E j : exec' = [exec EXCEPT ![t] = j] /\ IsJob(j) /\ j.pc \in Quiet
  BY <1>2, ExecAlone, QuietIsHonest
<1>4. ASSUME Throw(t) PROVE \E j : exec' = [exec EXCEPT ![t] = j] /\ IsJob(j) /\ j.pc \in Quiet
  <2>1. exec' = [exec EXCEPT ![t] = Keep(e, "fail")]
    BY <1>4 DEF Throw
  <2>2. ASSUME NEW j, j = Keep(e, "fail") PROVE IsJob(j) /\ j.pc \in Quiet
    BY <2>2, JobKept DEF Quiet
  <2> QED BY <2>1, <2>2
<1>5. ASSUME NEW p \in Quiet, Goto(t, p)
      PROVE  \E j : exec' = [exec EXCEPT ![t] = j] /\ IsJob(j) /\ j.pc \in Quiet
  <2>1. exec' = [exec EXCEPT ![t] = [e EXCEPT !.pc = p]]
    BY <1>5 DEF Goto
  <2>2. ASSUME NEW j, j = [e EXCEPT !.pc = p] PROVE IsJob(j) /\ j.pc \in Quiet
    BY <1>1, <2>2, JobAt
  <2> QED BY <2>1, <2>2
<1>6. ASSUME NEW p \in Quiet, NEW call, NEW ins, NEW order, NEW new,
             Prepare(t, p, call, ins, order, new)
      PROVE  \E j : exec' = [exec EXCEPT ![t] = j] /\ IsJob(j) /\ j.pc \in Quiet
  <2>1. exec' = [exec EXCEPT ![t] = [e EXCEPT !.pc = p, !.call = call, !.ins = ins,
                                              !.order = order, !.new = new]]
    BY <1>6 DEF Prepare
  <2>2. ASSUME NEW j, j = [e EXCEPT !.pc = p, !.call = call, !.ins = ins, !.order = order,
                                    !.new = new]
        PROVE  IsJob(j) /\ j.pc \in Quiet
    BY <1>1, <2>2 DEF IsJob
  <2> QED BY <2>1, <2>2
<1>7. CASE ExecuteShield(t)
  <2>1. \E new : Prepare(t, "staging", "shield", {}, {}, new)
    BY <1>7 DEF ExecuteShield
  <2> QED BY <1>6, <2>1 DEF Quiet
<1>8. CASE ExecuteCancel(t)
  <2>1. Throw(t) \/ \E n, new : Prepare(t, "add", "cancel_order", {}, {n}, new)
    BY <1>8 DEF ExecuteCancel
  <2> QED BY <1>4, <1>6, <2>1 DEF Quiet
<1>9. CASE ExactInput(t)
  <2>1. \/ Throw(t)
        \/ \E plan : exec' = [exec EXCEPT ![t] =
             [e EXCEPT !.pc = IF plan.steps = <<>> THEN "reserve" ELSE "join",
                       !.note = plan.note, !.steps = plan.steps]]
    BY <1>9 DEF ExactInput
  <2>2. ASSUME NEW plan, NEW j,
               j = [e EXCEPT !.pc = IF plan.steps = <<>> THEN "reserve" ELSE "join",
                             !.note = plan.note, !.steps = plan.steps]
        PROVE  IsJob(j) /\ j.pc \in Quiet
    BY <1>1, <2>2 DEF IsJob, Quiet
  <2> QED BY <1>4, <2>1, <2>2
<1>10. CASE ExecuteJoin(t)
  <2>1. \E note, ins, new : exec' = [exec EXCEPT ![t] =
          [e EXCEPT !.pc = "staging", !.call = "join", !.note = note, !.ins = ins, !.new = new]]
    BY <1>10 DEF ExecuteJoin
  <2>2. ASSUME NEW note, NEW ins, NEW new, NEW j,
               j = [e EXCEPT !.pc = "staging", !.call = "join", !.note = note, !.ins = ins,
                             !.new = new]
        PROVE  IsJob(j) /\ j.pc \in Quiet
    BY <1>1, <2>2 DEF IsJob, Quiet
  <2> QED BY <2>1, <2>2
<1>11. CASE ExecuteOrder(t)
  <2>1. \E n, new : Prepare(t, "add", "submit_order", {n}, {}, new)
    BY <1>11 DEF ExecuteOrder
  <2> QED BY <1>6, <2>1 DEF Quiet
<1>12. CASE ExecuteUnshield(t)
  <2>1. Prepare(t, "submit", "unshield", {e.note}, {}, <<>>)
    BY <1>12 DEF ExecuteUnshield
  <2> QED BY <1>6, <2>1 DEF Quiet
<1>13. CASE StageOutput(t) \/ RollbackClientAction(t)
  <2>1. Goto(t, "staging") \/ Goto(t, "rolling")
    BY <1>13 DEF StageOutput, RollbackClientAction
  <2> QED BY <1>5, <2>1 DEF Quiet
<1>14. CASE SubmitRefused(t)
  BY <1>4, <1>14 DEF SubmitRefused
<1>15. CASE ConfirmJoin(t)
  <2>1. \E steps : exec' = [exec EXCEPT ![t] =
          [e EXCEPT !.pc = IF steps = <<>> THEN "reserve" ELSE "join", !.steps = steps]]
    BY <1>15 DEF ConfirmJoin
  <2>2. ASSUME NEW steps, NEW j,
               j = [e EXCEPT !.pc = IF steps = <<>> THEN "reserve" ELSE "join", !.steps = steps]
        PROVE  IsJob(j) /\ j.pc \in Quiet
    BY <1>1, <2>2 DEF IsJob, Quiet
  <2> QED BY <2>1, <2>2
<1> QED BY <1>7, <1>8, <1>9, <1>10, <1>11, <1>12, <1>13, <1>14, <1>15

\* An operation is claimed: its result is in the cache, or it begins.
LEMMA ClaimStep == ASSUME IInv, NEW t \in Tab, Claim(t) PROVE IInv'
<1>1. UNCHANGED <<txs, operation, cached>>
  BY DEF Claim, ClaimAction, chain
<1>2. PICK o \in Op : exec' = [exec EXCEPT ![t] =
        [NoJob EXCEPT !.op = o, !.lease = action[o].lease + 1,
           !.pc = IF o \in cached[BrowserOf[t]] THEN "finish" ELSE "begin"]]
  BY DEF Claim
<1>3. BrowserOf[t] \in Browser
  BY WalletAssumption
<1>4. o \in cached[BrowserOf[t]] => Done(o)
  BY <1>3, ShownStays
<1>5. ASSUME NEW j, NEW lease,
             j = [NoJob EXCEPT !.op = o, !.lease = lease,
                    !.pc = IF o \in cached[BrowserOf[t]] THEN "finish" ELSE "begin"]
      PROVE  IsJob(j) /\ JobHonest(j)
  <2>1. IsJob(j) /\ j.op = o
    BY <1>5 DEF IsJob, NoJob
  <2>2. j.pc = IF o \in cached[BrowserOf[t]] THEN "finish" ELSE "begin"
    BY <1>5 DEF NoJob
  <2> QED BY <1>4, <2>1, <2>2 DEF JobHonest
<1> QED BY <1>1, <1>2, <1>5, ExecAlone

\* A transaction is submitted, and the executor waits for it.
\* A transaction that is sent.
LEMMA Sent ==
  ASSUME IInv, NEW x, txs' = Append(txs, x)
  PROVE  /\ Len(txs) \in Nat /\ DOMAIN txs = 1..Len(txs) /\ Len(txs') = Len(txs) + 1
         /\ txs' = [i \in 1..Len(txs') |-> txs'[i]] /\ txs'[Len(txs) + 1] = x
         /\ \A i \in DOMAIN txs : txs'[i] = txs[i]
<1> DEFINE S == {txs[i] : i \in 1..Len(txs)} \cup {x}
<1>1. Len(txs) \in Nat /\ txs = [i \in 1..Len(txs) |-> txs[i]]
  BY DEF IInv, Records
<1>2. \A i \in 1..Len(txs) : txs[i] \in S
  OBVIOUS
<1>3. x \in S
  OBVIOUS
<1> HIDE DEF S
<1>4. [i \in 1..Len(txs) |-> txs[i]] \in Seq(S)
  BY <1>1, <1>2, IsASeq
<1>5. txs \in Seq(S)
  BY <1>1, <1>4, Zenon
<1>6. /\ txs' \in Seq(S) /\ Len(txs') = Len(txs) + 1 /\ txs'[Len(txs) + 1] = x
      /\ \A i \in 1..Len(txs) : txs'[i] = txs[i]
  BY <1>3, <1>5, AppendProperties
<1>7. txs' \in [1..Len(txs') -> S]
  BY <1>6, LenProperties
<1> QED BY <1>1, <1>6, <1>7

\* An executor sends its transaction and waits for it.
LEMMA SubmitStep == ASSUME IInv, NEW t \in Tab, Submit(t) PROVE IInv'
<1> DEFINE e == exec[t]
           x == [op |-> e.op, method |-> e.call, ins |-> e.ins, outs |-> Outs(t),
                 order |-> e.order, status |-> "pending"]
<1>1. /\ UNCHANGED <<operation, cached>> /\ txs' = Append(txs, x)
      /\ exec' = [exec EXCEPT ![t] = [e EXCEPT !.pc = "wait", !.tx = Len(txs) + 1]]
  BY DEF Submit, SubmitContractCall, Relay, Send, queueVars
<1>2. x.op = e.op /\ x.method = e.call /\ IsJob(e)
      /\ x = [op |-> x.op, method |-> x.method, ins |-> x.ins, outs |-> x.outs,
              order |-> x.order, status |-> x.status]
  BY DEF IInv, Records
<1> HIDE DEF x
<1>3. /\ Len(txs) \in Nat /\ DOMAIN txs = 1..Len(txs) /\ Len(txs') = Len(txs) + 1
      /\ txs' = [i \in 1..Len(txs') |-> txs'[i]] /\ txs'[Len(txs) + 1] = x
      /\ \A i \in DOMAIN txs : txs'[i] = txs[i]
  BY <1>1, Sent
<1>4. DOMAIN txs' = 1..(Len(txs) + 1)
  BY <1>3
<1>5. Grow
  BY <1>3, <1>4 DEF Grow
<1>6. PICK j : j = [e EXCEPT !.pc = "wait", !.tx = Len(txs) + 1]
  OBVIOUS
<1>7. IsJob(j) /\ j.pc = "wait" /\ j.tx = Len(txs) + 1 /\ j.op = e.op /\ j.call = e.call
  BY <1>2, <1>6 DEF IsJob
<1>8. /\ exec' = [u \in Tab |-> exec'[u]] /\ exec'[t] = j
      /\ \A u \in Tab : u # t => exec'[u] = exec[u]
  BY <1>1, <1>6 DEF IInv, Records
<1>9. Records'
  <2>1. \A u \in Tab : IsJob(exec'[u])
    BY <1>7, <1>8 DEF IInv, Records
  <2>2. \A i \in DOMAIN txs' :
          txs'[i] = [op |-> txs'[i].op, method |-> txs'[i].method, ins |-> txs'[i].ins,
                     outs |-> txs'[i].outs, order |-> txs'[i].order, status |-> txs'[i].status]
    <3>1. ASSUME NEW i \in DOMAIN txs' PROVE i \in DOMAIN txs \/ i = Len(txs) + 1
      BY <1>3, <1>4
    <3> QED BY <1>2, <1>3, <3>1 DEF IInv, Records
  <2>3. \A k : IsJob(k)' <=> IsJob(k)
    OBVIOUS
  <2>4. operation' = [o \in Op |-> operation'[o]] /\ cached' = [b \in Browser |-> cached'[b]]
    BY <1>1 DEF IInv, Records
  <2>5. \A u \in Tab : IsJob(exec[u])'
    BY <2>1 DEF IsJob
  <2> QED BY <1>3, <1>8, <2>2, <2>4, <2>5 DEF Records
<1>10. Honest'
  <2>1. \A o : Done(o) => Done(o)'
    BY <1>5, HonestStays
  <2>2. \A k : JobHonest(k) => JobHonest(k)'
    BY <1>5, HonestStays
  <2>3. JobHonest(j)'
    <3>1. j.tx \in DOMAIN txs' /\ txs'[j.tx] = x
      BY <1>3, <1>4, <1>7
    <3> QED BY <1>2, <1>7, <3>1 DEF JobHonest
  <2>4. \A u \in Tab : u # t => JobHonest(exec[u])
    BY DEF IInv, Honest
  <2>5. ASSUME NEW u \in Tab, NEW k, k = exec'[u] PROVE JobHonest(k)'
    BY <1>8, <2>2, <2>3, <2>4, <2>5
  <2>6. \A u \in Tab : JobHonest(exec[u])'
    BY <2>5 DEF JobHonest
  <2> QED BY <1>1, <2>1, <2>6, ShownStays DEF Honest
<1> QED BY <1>9, <1>10 DEF IInv

\* A transaction that landed is what the executor settles.
LEMMA AwaitStep == ASSUME IInv, NEW t \in Tab, AwaitTransaction(t) PROVE IInv'
<1> DEFINE e == exec[t]
<1>1. UNCHANGED <<txs, operation, cached>> /\ e.pc = "wait"
  BY DEF AwaitTransaction, At, queueVars, chain
<1>2. IsJob(e) /\ JobHonest(e)
  BY DEF IInv, Records, Honest
<1>3. CASE Throw(t)
  BY <1>1, <1>3, Throws, ExecAlone DEF Throw
<1>4. CASE txs[e.tx].status = "landed" /\ Goto(t, "settle")
  <2>1. exec' = [exec EXCEPT ![t] = [e EXCEPT !.pc = "settle"]]
    BY <1>4 DEF Goto
  <2>2. e.call # "join" => Done(e.op)
    BY <1>1, <1>2, <1>4 DEF JobHonest, Done
  <2>3. ASSUME NEW j, j = [e EXCEPT !.pc = "settle"] PROVE IsJob(j) /\ JobHonest(j)
    <3>1. IsJob(j) /\ j.pc = "settle" /\ j.op = e.op /\ j.call = e.call
      BY <1>2, <2>3, JobAt
    <3> QED BY <2>2, <3>1 DEF JobHonest
  <2> QED BY <1>1, <2>1, <2>3, ExecAlone
<1> QED BY <1>3, <1>4 DEF AwaitTransaction

\* The settled notes are stored.
LEMMA SettleStep == ASSUME IInv, NEW t \in Tab, Settle(t) PROVE IInv'
<1> DEFINE e == exec[t]
<1>1. /\ UNCHANGED <<txs, operation, cached>> /\ e.pc = "settle"
      /\ exec' = [exec EXCEPT ![t] = [e EXCEPT !.pc = "settling"]]
  BY DEF Settle, At, Goto, queueVars, chain
<1>2. IsJob(e) /\ JobHonest(e)
  BY DEF IInv, Records, Honest
<1>3. ASSUME NEW j, j = [e EXCEPT !.pc = "settling"] PROVE IsJob(j) /\ JobHonest(j)
  <2>1. IsJob(j) /\ j.pc = "settling" /\ j.op = e.op /\ j.call = e.call
    BY <1>2, <1>3, JobAt
  <2> QED BY <1>1, <1>2, <2>1 DEF JobHonest
<1> QED BY <1>1, <1>3, ExecAlone

\* What follows a sync reports only what landed.
LEMMA AfterSyncIsHonest ==
  ASSUME NEW e, IsJob(e), JobHonest(e), NEW ok \in BOOLEAN,
         e.pc \in {"staging", "settling", "confirming", "rolling"}
  PROVE  IsJob(AfterSync(e, ok)) /\ JobHonest(AfterSync(e, ok))
<1>1. ASSUME NEW j, j = [e EXCEPT !.pc = "submit"] PROVE IsJob(j) /\ JobHonest(j)
  <2>1. IsJob(j) /\ j.pc = "submit"
    BY <1>1, JobAt
  <2> QED BY <2>1, QuietIsHonest DEF Quiet
<1>2. CASE e.pc = "rolling"
  BY <1>2, JobGone DEF AfterSync, AfterRollback
<1>3. CASE e.pc = "staging"
  <2>1. AfterSync(e, ok) = IF ok THEN [e EXCEPT !.pc = "submit"] ELSE Keep(e, "fail")
    BY <1>3 DEF AfterSync, AfterUpload
  <2> QED BY <1>1, <2>1, Throws
<1>4. ASSUME Done(e.op) PROVE IsJob(Keep(e, "finish")) /\ JobHonest(Keep(e, "finish"))
  <2>1. ASSUME NEW j, j = Keep(e, "finish") PROVE IsJob(j) /\ JobHonest(j)
    <3>1. IsJob(j) /\ j.pc = "finish" /\ j.op = e.op
      BY <2>1, JobKept
    <3> QED BY <1>4, <3>1 DEF JobHonest
  <2> QED BY <2>1
<1>5. CASE e.pc = "confirming"
  <2>1. AfterSync(e, ok) = Keep(e, "finish")
    BY <1>5 DEF AfterSync
  <2>2. Done(e.op)
    BY <1>5 DEF JobHonest
  <2> QED BY <1>4, <2>1, <2>2
<1>6. CASE e.pc = "settling" /\ ~ok
  <2>1. AfterSync(e, ok) = Keep(e, "fail")
    BY <1>6 DEF AfterSync
  <2> QED BY <2>1, Throws
<1>7. CASE e.pc = "settling" /\ ok /\ e.call \in {"join", "shield"}
  <2>1. AfterSync(e, ok) = [e EXCEPT !.pc = "confirm"]
    BY <1>7 DEF AfterSync
  <2>2. ASSUME NEW j, j = [e EXCEPT !.pc = "confirm"] PROVE IsJob(j) /\ JobHonest(j)
    <3>1. IsJob(j) /\ j.pc = "confirm" /\ j.op = e.op /\ j.call = e.call
      BY <2>2, JobAt
    <3> QED BY <1>7, <3>1 DEF JobHonest
  <2> QED BY <2>1, <2>2
<1>8. CASE e.pc = "settling" /\ ok /\ e.call = "unshield"
  <2>1. AfterSync(e, ok) = [e EXCEPT !.pc = "settle", !.call = "unshielded"]
    BY <1>8 DEF AfterSync
  <2>2. ASSUME NEW j, j = [e EXCEPT !.pc = "settle", !.call = "unshielded"]
        PROVE  IsJob(j) /\ JobHonest(j)
    <3>1. IsJob(j) /\ j.pc = "settle" /\ j.op = e.op
      BY <2>2 DEF IsJob
    <3>2. Done(e.op)
      BY <1>8 DEF JobHonest
    <3> QED BY <3>1, <3>2 DEF JobHonest
  <2> QED BY <2>1, <2>2
<1>9. CASE e.pc = "settling" /\ ok /\ e.call \notin {"join", "shield", "unshield"}
  <2>1. AfterSync(e, ok) = Keep(e, "finish")
    BY <1>9 DEF AfterSync
  <2>2. Done(e.op)
    BY <1>9 DEF JobHonest
  <2> QED BY <1>4, <2>1, <2>2
<1> QED BY <1>2, <1>3, <1>5, <1>6, <1>7, <1>8, <1>9

\* An executor whose sync has ended.
LEMMA ResumeStep == ASSUME IInv, NEW t \in Tab, ResumeAfterSync(t) PROVE IInv'
<1> DEFINE e == exec[t]
           ok == Synced(t, "exec")
<1>1. /\ UNCHANGED <<txs, operation, cached>>
      /\ e.pc \in {"staging", "settling", "confirming", "rolling"}
      /\ exec' = [exec EXCEPT ![t] = AfterSync(e, ok)]
  BY DEF ResumeAfterSync, queueVars, chain
<1>2. IsJob(e) /\ JobHonest(e)
  BY DEF IInv, Records, Honest
<1>3. ok \in BOOLEAN
  BY DEF Synced
<1> HIDE DEF ok
<1>4. IsJob(AfterSync(e, ok)) /\ JobHonest(AfterSync(e, ok))
  BY <1>1, <1>2, <1>3, AfterSyncIsHonest
<1>5. ASSUME NEW j, j = AfterSync(e, ok) PROVE IsJob(j) /\ JobHonest(j)
  BY <1>4, <1>5
<1> QED BY <1>1, <1>5, ExecAlone

\* A shield is confirmed, or its confirmation not waited for any longer.
LEMMA ConfirmStep == ASSUME IInv, NEW t \in Tab, ConfirmShield(t) PROVE IInv'
<1> DEFINE e == exec[t]
<1>1. UNCHANGED <<txs, operation, cached>> /\ e.pc = "confirm" /\ e.call = "shield"
  BY DEF ConfirmShield, At, queueVars, chain
<1>2. IsJob(e) /\ Done(e.op)
  BY <1>1 DEF IInv, Records, Honest, JobHonest
<1>3. CASE Goto(t, "confirming")
  <2>1. exec' = [exec EXCEPT ![t] = [e EXCEPT !.pc = "confirming"]]
    BY <1>3 DEF Goto
  <2>2. ASSUME NEW j, j = [e EXCEPT !.pc = "confirming"] PROVE IsJob(j) /\ JobHonest(j)
    <3>1. IsJob(j) /\ j.pc = "confirming" /\ j.op = e.op
      BY <1>2, <2>2, JobAt
    <3> QED BY <1>2, <3>1 DEF JobHonest
  <2> QED BY <1>1, <2>1, <2>2, ExecAlone
<1>4. CASE exec' = [exec EXCEPT ![t] = Keep(e, "finish")]
  <2>1. ASSUME NEW j, j = Keep(e, "finish") PROVE IsJob(j) /\ JobHonest(j)
    <3>1. IsJob(j) /\ j.pc = "finish" /\ j.op = e.op
      BY <2>1, JobKept
    <3> QED BY <1>2, <3>1 DEF JobHonest
  <2> QED BY <1>1, <1>4, <2>1, ExecAlone
<1> QED BY <1>3, <1>4 DEF ConfirmShield

\* The result is cached before it is reported.
LEMMA CacheStep == ASSUME IInv, NEW t \in Tab, CacheActionResult(t) PROVE IInv'
<1> DEFINE e == exec[t]
<1>1. /\ UNCHANGED <<txs, operation>> /\ e.pc = "finish"
      /\ exec' = [exec EXCEPT ![t] = [e EXCEPT !.pc = "complete"]]
      /\ cached' = [cached EXCEPT ![BrowserOf[t]] = @ \cup {e.op}]
  BY DEF CacheActionResult, At, Goto, queueVars, chain
<1>2. IsJob(e) /\ Done(e.op)
  BY <1>1 DEF IInv, Records, Honest, JobHonest
<1>3. ASSUME NEW j, j = [e EXCEPT !.pc = "complete"] PROVE IsJob(j) /\ JobHonest(j)
  <2>1. IsJob(j) /\ j.pc = "complete" /\ j.op = e.op
    BY <1>2, <1>3, JobAt
  <2> QED BY <1>2, <2>1 DEF JobHonest
<1>4. /\ cached' = [b \in Browser |-> cached'[b]]
      /\ \A b \in Browser : cached'[b] \subseteq cached[b] \cup {e.op}
  BY <1>1, ShownStays
<1>5. \A b \in Browser : \A o \in cached'[b] : Done(o)
  BY <1>2, <1>4, ShownStays
<1> QED BY <1>1, <1>3, <1>4, <1>5, ShownStays, ExecTo

\* The queue ends the operation as the executor says.
LEMMA EndStep ==
  ASSUME IInv, NEW t \in Tab, Complete(t) \/ Fail(t) \/ ExecFault(t)
  PROVE  IInv'
<1> DEFINE e == exec[t]
<1>1. IsJob(e) /\ JobHonest(e) /\ UNCHANGED txs
  BY DEF IInv, Records, Honest, Complete, Fail, ExecFault, chain
<1>2. ASSUME UNCHANGED operation \/ (e.pc = "complete" /\ CompleteAction(e.op, e.lease))
               \/ FailAction(e.op, e.lease, FALSE)
      PROVE  /\ operation' = [o \in Op |-> operation'[o]]
             /\ \A o \in Op : operation'[o] = "succeeded" => Done(o)
  <2>1. CASE UNCHANGED operation
    BY <2>1, ShownStays
  <2>2. CASE e.pc = "complete" /\ CompleteAction(e.op, e.lease)
    <3>1. operation' = [operation EXCEPT ![e.op] = "succeeded"] /\ Done(e.op)
      BY <1>1, <2>2 DEF CompleteAction, JobHonest
    <3> QED BY <3>1, ShownStays
  <2>3. CASE FailAction(e.op, e.lease, FALSE)
    <3>1. operation' = [operation EXCEPT ![e.op] = "failed"]
      BY <2>3 DEF FailAction
    <3> QED BY <3>1, ShownStays
  <2> QED BY <1>2, <2>1, <2>2, <2>3
<1>3. \/ UNCHANGED operation
      \/ e.pc = "complete" /\ CompleteAction(e.op, e.lease)
      \/ FailAction(e.op, e.lease, FALSE)
  BY DEF Complete, Fail, ExecFault, At, queueVars
<1>4. \/ UNCHANGED cached
      \/ cached' = [cached EXCEPT ![BrowserOf[t]] = @ \ {e.op}]
  BY DEF Complete, Fail, ExecFault
<1>5. /\ cached' = [b \in Browser |-> cached'[b]]
      /\ \A b \in Browser : \A o \in cached'[b] : Done(o)
  BY <1>4, ShownStays
<1>6. \/ exec' = [exec EXCEPT ![t] = NoJob] \/ Throw(t) \/ Goto(t, "rollback")
  BY DEF Complete, Fail, ExecFault
<1>7. \E j : exec' = [exec EXCEPT ![t] = j] /\ IsJob(j) /\ JobHonest(j)
  <2>1. CASE exec' = [exec EXCEPT ![t] = NoJob]
    <3>1. ASSUME NEW j, j = NoJob PROVE IsJob(j) /\ JobHonest(j)
      BY <3>1, JobGone
    <3> QED BY <2>1, <3>1
  <2>2. CASE Throw(t)
    <3>1. exec' = [exec EXCEPT ![t] = Keep(e, "fail")]
      BY <2>2 DEF Throw
    <3>2. ASSUME NEW j, j = Keep(e, "fail") PROVE IsJob(j) /\ JobHonest(j)
      BY <3>2, Throws
    <3> QED BY <3>1, <3>2
  <2>3. CASE Goto(t, "rollback")
    <3>1. exec' = [exec EXCEPT ![t] = [e EXCEPT !.pc = "rollback"]]
      BY <2>3 DEF Goto
    <3>2. ASSUME NEW j, j = [e EXCEPT !.pc = "rollback"] PROVE IsJob(j) /\ JobHonest(j)
      <4>1. IsJob(j) /\ j.pc = "rollback"
        BY <1>1, <3>2, JobAt
      <4> QED BY <4>1, QuietIsHonest DEF Quiet
    <3> QED BY <3>1, <3>2
  <2> QED BY <1>6, <2>1, <2>2, <2>3
<1> QED BY <1>1, <1>2, <1>3, <1>5, <1>7, ExecTo
-----------------------------------------------------------------------------
(***************************************************************************)
(* The chain, the queue, and the rest.                                     *)
(***************************************************************************)

\* A tab is reloaded.
LEMMA ReloadStep == ASSUME IInv, NEW t \in Tab, Reload(t) PROVE IInv'
<1>1. exec' = [exec EXCEPT ![t] = NoJob] /\ UNCHANGED <<txs, operation, cached>>
  BY DEF Reload, queueVars, chain
<1>2. ASSUME NEW j, j = NoJob PROVE IsJob(j) /\ JobHonest(j)
  BY <1>2, JobGone
<1> QED BY <1>1, <1>2, ExecAlone

\* A transaction lands or fails.
LEMMA ChainIsHonest == ASSUME IInv, ChainStep PROVE IInv'
<1>1. PICK i \in DOMAIN txs : TxLands(i) \/ TxFails(i)
  BY DEF ChainStep
<1>2. PICK s : txs' = [txs EXCEPT ![i].status = s] /\ txs[i].status = "pending"
  BY <1>1 DEF TxLands, TxFails
<1>3. UNCHANGED <<operation, cached, exec>>
  BY <1>1 DEF TxLands, TxFails, queueVars
<1>4. PICK x : x = [txs[i] EXCEPT !.status = s]
  OBVIOUS
<1>5. /\ x.op = txs[i].op /\ x.method = txs[i].method
      /\ x = [op |-> x.op, method |-> x.method, ins |-> x.ins, outs |-> x.outs,
              order |-> x.order, status |-> x.status]
  <2>1. txs[i] = [op |-> txs[i].op, method |-> txs[i].method, ins |-> txs[i].ins,
                  outs |-> txs[i].outs, order |-> txs[i].order, status |-> txs[i].status]
    BY DEF IInv, Records
  <2> QED BY <1>4, <2>1
<1>6. /\ Len(txs) \in Nat /\ DOMAIN txs = 1..Len(txs) /\ DOMAIN txs' = 1..Len(txs)
      /\ txs' = [k \in 1..Len(txs) |-> IF k = i THEN x ELSE txs[k]]
  BY <1>2, <1>4 DEF IInv, Records
<1>7. Len(txs') = Len(txs)
  <2> DEFINE S == {txs'[k] : k \in 1..Len(txs)}
  <2>1. \A k \in 1..Len(txs) : (IF k = i THEN x ELSE txs[k]) \in S
    BY <1>6
  <2> HIDE DEF S
  <2>2. [k \in 1..Len(txs) |-> IF k = i THEN x ELSE txs[k]] \in Seq(S)
    BY <1>6, <2>1, IsASeq
  <2>3. txs' \in Seq(S)
    BY <1>6, <2>2, Zenon
  <2>4. Len(txs') \in Nat /\ DOMAIN txs' = 1..Len(txs')
    BY <2>3, LenProperties
  <2> QED BY <1>6, <2>4
<1>8. \A k \in DOMAIN txs : txs'[k] = IF k = i THEN x ELSE txs[k]
  BY <1>6
<1>9. Grow
  BY <1>2, <1>5, <1>6, <1>8 DEF Grow
<1>10. Records'
  <2>1. \A k \in DOMAIN txs' :
          txs'[k] = [op |-> txs'[k].op, method |-> txs'[k].method, ins |-> txs'[k].ins,
                     outs |-> txs'[k].outs, order |-> txs'[k].order, status |-> txs'[k].status]
    BY <1>5, <1>6, <1>8 DEF IInv, Records
  <2>2. txs' = [k \in 1..Len(txs') |-> txs'[k]] /\ Len(txs') \in Nat
    BY <1>6, <1>7
  <2>3. \A u \in Tab : IsJob(exec'[u])
    BY <1>3 DEF IInv, Records
  <2>4. \A u \in Tab : IsJob(exec[u])'
    BY <2>3 DEF IsJob
  <2> QED BY <1>3, <2>1, <2>2, <2>4 DEF IInv, Records
<1>11. Honest'
  <2>1. \A o : Done(o) => Done(o)'
    BY <1>9, HonestStays
  <2>2. \A k : JobHonest(k) => JobHonest(k)'
    BY <1>9, HonestStays
  <2>3. \A u \in Tab : JobHonest(exec[u])
    BY DEF IInv, Honest
  <2>4. ASSUME NEW u \in Tab, NEW k, k = exec'[u] PROVE JobHonest(k)'
    BY <1>3, <2>2, <2>3, <2>4
  <2>5. \A u \in Tab : JobHonest(exec[u])'
    BY <2>4 DEF JobHonest
  <2> QED BY <1>3, <2>1, <2>5, ShownStays DEF Honest
<1> QED BY <1>10, <1>11 DEF IInv

\* The queue makes and cancels operations, and answers late heartbeats.
LEMMA QueueStep ==
  ASSUME IInv, UNCHANGED <<cached, exec, txs>>,
         \/ \E t \in Tab, o \in Op : UserEnqueues(t, o)
         \/ \E o \in Op : UserCancels(o) \/ LateHeartbeat(o) \/ LeaseLapses(o)
  PROVE  IInv'
<1>1. CASE UNCHANGED operation
  BY <1>1, Elsewhere
<1>2. CASE \E o \in Op, s \in {"waiting_for_client", "cancelled"} :
             operation' = [operation EXCEPT ![o] = s]
  <2>1. /\ operation' = [o \in Op |-> operation'[o]]
        /\ \A o \in Op : operation'[o] = "succeeded" => Done(o)
    BY <1>2, ShownStays
  <2>2. \A o : Done(o)' <=> Done(o)
    BY DEF Done
  <2>3. \A j : JobHonest(j)' <=> JobHonest(j)
    BY <2>2 DEF JobHonest
  <2>4. Honest'
    BY <2>1, <2>2, <2>3 DEF IInv, Honest
  <2>5. Records'
    BY <2>1 DEF IInv, Records
  <2> QED BY <2>4, <2>5 DEF IInv
<1> QED BY <1>1, <1>2 DEF UserEnqueues, CreateOperation, UserCancels, CancelOperation,
                          LateHeartbeat, HeartbeatAction, LeaseLapses, LeaseExpires

\* Before anything is asked for, nothing is shown.
LEMMA InitIsHonest == ASSUME Init PROVE IInv
<1>1. Len(txs) = 0 /\ DOMAIN txs = 1..0 /\ txs = [i \in 1..Len(txs) |-> txs[i]]
  <2>1. txs = <<>> /\ txs \in Seq({})
    BY EmptySeq DEF Init
  <2>2. Len(txs) = 0 /\ txs \in [1..Len(txs) -> {}] /\ DOMAIN txs = 1..Len(txs)
    BY <2>1, EmptySeq, LenProperties
  <2> QED BY <2>2
<1>2. \A t \in Tab : exec[t] = NoJob
  BY DEF Init
<1>3. \A t \in Tab : IsJob(exec[t]) /\ JobHonest(exec[t])
  BY <1>2, JobGone
<1>4. Records
  BY <1>1, <1>3 DEF Init, QueueInit, Records
<1>5. Honest
  BY <1>3 DEF Init, QueueInit, Honest
<1> QED BY <1>4, <1>5 DEF IInv

\* Every step of the wallet and its server.
LEMMA WalletStep == ASSUME IInv, [Next]_vars PROVE IInv'
<1>1. CASE \E t \in Tab : Claim(t) \/ ExecStep(t)
  BY <1>1, ClaimStep, QuietStep, SubmitStep, AwaitStep, SettleStep, ResumeStep, ConfirmStep,
     CacheStep, EndStep DEF ExecStep
<1>2. CASE \E t \in Tab : SyncStep(t)
  <2>1. UNCHANGED <<operation, cached, exec, txs>>
    BY <1>2 DEF SyncStep, SyncMerge, SyncEncrypt, SyncPut, SyncConflict, queueVars
  <2> QED BY <2>1, Elsewhere
<1>3. CASE \E t \in Tab : PollStep(t)
  <2>1. UNCHANGED <<operation, cached, exec, txs>>
    BY <1>3 DEF PollStep, RefreshList, ReconcileOperationJournals, PollNotes, PollDone,
                queueVars, chain
  <2> QED BY <2>1, Elsewhere
<1>4. CASE ChainStep
  BY <1>4, ChainIsHonest
<1>5. CASE \E n \in NoteId : OrderFills(n)
  <2>1. UNCHANGED <<operation, cached, exec, txs>>
    BY <1>5 DEF OrderFills, queueVars
  <2> QED BY <2>1, Elsewhere
<1>6. CASE \/ \E t \in Tab, o \in Op : UserEnqueues(t, o)
           \/ \E o \in Op : UserCancels(o) \/ LateHeartbeat(o) \/ LeaseLapses(o)
  <2>1. UNCHANGED <<cached, exec, txs>>
    BY <1>6 DEF UserEnqueues, UserCancels, LateHeartbeat, LeaseLapses, wallet, chain
  <2> QED BY <1>6, <2>1, QueueStep
<1>7. CASE \E t \in Tab : ExecFault(t) \/ Reload(t)
  BY <1>7, EndStep, ReloadStep
<1>8. CASE \E t \in Tab, c \in Caller : SyncFault(t, c)
  <2>1. UNCHANGED <<operation, cached, exec, txs>>
    BY <1>8 DEF SyncFault, queueVars
  <2> QED BY <2>1, Elsewhere
<1>9. CASE UNCHANGED vars
  <2>1. UNCHANGED <<operation, cached, exec, txs>>
    BY <1>9 DEF vars, queueVars, wallet
  <2> QED BY <2>1, Elsewhere
<1> QED BY <1>1, <1>2, <1>3, <1>4, <1>5, <1>6, <1>7, <1>8, <1>9 DEF Next, Mishap

\* An operation is reported as succeeded only if a transaction that executes it
\* is on the chain (operationExecutor.ts, actionCache.ts, store.ts): with any
\* number of tabs and browsers, through lapsed leases, reloads, lost answers,
\* results from the cache and operations that are cancelled meanwhile.
THEOREM SucceededStaysLanded == Spec => []SucceededLanded
<1>1. Init => IInv
  BY InitIsHonest
<1>2. IInv /\ [Next]_vars => IInv'
  BY WalletStep
<1>3. IInv => SucceededLanded
  BY DEF IInv, Honest, Done, SucceededLanded, Executions, Landed
<1> QED BY <1>1, <1>2, <1>3, PTL DEF Spec
-----------------------------------------------------------------------------
(***************************************************************************)
(* What every copy of a note is, in a browser, in the backup or in a       *)
(* snapshot on its way there.                                              *)
(***************************************************************************)

\* The record of a note.
IsNote(x) ==
  /\ x = [asset |-> x.asset, amount |-> x.amount, cancel |-> x.cancel, status |-> x.status,
          indexed |-> x.indexed, op |-> x.op, rev |-> x.rev, state |-> x.state]
  /\ x.indexed \in BOOLEAN /\ x.status \in {"active", "spent", "cancelled"}

\* The executor of a tab makes a split or a join, or has just made one.
Joining(t) == exec[t].call = "join"
Unjoined(n) == \A t \in Tab : Joining(t) => n \notin Outs(t)

\* The notes no rollback takes back, before their transaction is submitted and after.
Firm(n) == n \in Owned \/ ~Unjoined(n)

\* A copy of a note the executor of a tab is making.
CopyOk(t, x) ==
  /\ exec[t].pc # "add"
  /\ x.state = "pending-output" => x.op = exec[t].op
  /\ Joining(t) => /\ x.cancel = 0 /\ x.status # "cancelled"
                   /\ x.state = "reserved" => request[x.op].kind # "cancel_order"

\* Only a note that can be rolled back is journaled as an output, and only a note
\* that is on the chain is reserved for spending or spent.
NoteOk(n, x) ==
  /\ IsNote(x)
  /\ x.state = "pending-output" => ~Firm(n)
  /\ x.state = "reserved" => /\ x.op \in Op /\ operation[x.op] # "none"
                             /\ request[x.op].kind # "cancel_order" => x.indexed
  /\ x.status = "spent" => x.indexed
  /\ \A t \in Tab : n \in Outs(t) => CopyOk(t, x)

StoreOk(notes) == \A n \in DOMAIN notes : n \in 1..used /\ NoteOk(n, notes[n])

\* What one write of a note may change.
Patched(n, x, y) ==
  /\ IsNote(y) /\ y.cancel = x.cancel
  /\ x.indexed => y.indexed
  /\ \/ y.status = x.status
     \/ y.status = "spent" /\ y.indexed
     \/ y.status = "cancelled" /\ Unjoined(n)
  /\ \/ y.state = x.state /\ y.op = x.op
     \/ y.state \notin {"reserved", "pending-output"}
     \/ /\ y.state = "reserved" /\ y.op \in Op /\ operation[y.op] # "none"
        /\ IF request[y.op].kind = "cancel_order" THEN Unjoined(n) ELSE y.indexed

\* What the writes of one step may change in a browser.
Advances(old, new) ==
  /\ DOMAIN new \subseteq DOMAIN old
  /\ \A n \in DOMAIN old \ DOMAIN new : old[n].state = "pending-output" /\ ~old[n].indexed
  /\ \A n \in DOMAIN new : Patched(n, old[n], new[n])

\* A copy that is as it should be stays so through a write.
LEMMA PatchedIsOk == ASSUME NEW n, NEW x, NEW y, NoteOk(n, x), Patched(n, x, y) PROVE NoteOk(n, y)
<1>1. IsNote(y) /\ (y.status = "spent" => y.indexed)
  BY DEF Patched, NoteOk
<1>2. y.state = "pending-output" => ~Firm(n)
  BY DEF Patched, NoteOk
<1>3. y.state = "reserved" => /\ y.op \in Op /\ operation[y.op] # "none"
                              /\ request[y.op].kind # "cancel_order" => y.indexed
  BY DEF Patched, NoteOk
<1>4. ASSUME NEW t \in Tab, n \in Outs(t) PROVE CopyOk(t, y)
  <2>1. CopyOk(t, x) /\ (Joining(t) => ~Unjoined(n))
    BY <1>4 DEF NoteOk, Unjoined
  <2> QED BY <2>1 DEF Patched, CopyOk
<1> QED BY <1>1, <1>2, <1>3, <1>4 DEF NoteOk

\* Two writes of a note are as good as one.
LEMMA PatchedAgain ==
  ASSUME NEW n, NEW x, NEW y, NEW z, Patched(n, x, y), Patched(n, y, z)
  PROVE  Patched(n, x, z)
<1>1. IsNote(z) /\ z.cancel = x.cancel /\ (x.indexed => z.indexed)
  BY DEF Patched
<1>2. z.status = x.status \/ (z.status = "spent" /\ z.indexed)
        \/ (z.status = "cancelled" /\ Unjoined(n))
  BY DEF Patched
<1>3. \/ z.state = x.state /\ z.op = x.op
      \/ z.state \notin {"reserved", "pending-output"}
      \/ /\ z.state = "reserved" /\ z.op \in Op /\ operation[z.op] # "none"
         /\ IF request[z.op].kind = "cancel_order" THEN Unjoined(n) ELSE z.indexed
  BY DEF Patched
<1> QED BY <1>1, <1>2, <1>3 DEF Patched

\* A store that is as it should be stays so through what a step writes.
LEMMA AdvancesIsOk ==
  ASSUME NEW old, NEW new, StoreOk(old), Advances(old, new) PROVE StoreOk(new)
<1>1. ASSUME NEW n \in DOMAIN new PROVE n \in 1..used /\ NoteOk(n, new[n])
  <2>1. n \in DOMAIN old /\ Patched(n, old[n], new[n])
    BY DEF Advances
  <2>2. n \in 1..used /\ NoteOk(n, old[n])
    BY <2>1 DEF StoreOk
  <2> QED BY <2>1, <2>2, PatchedIsOk
<1> QED BY <1>1 DEF StoreOk

\* What two steps write is what one may.
LEMMA AdvancesAgain ==
  ASSUME NEW a, NEW b, NEW c, Advances(a, b), Advances(b, c) PROVE Advances(a, c)
<1>1. DOMAIN c \subseteq DOMAIN a
  BY DEF Advances
<1>2. ASSUME NEW n \in DOMAIN a \ DOMAIN c
      PROVE  a[n].state = "pending-output" /\ ~a[n].indexed
  <2>1. CASE n \in DOMAIN b
    <3>1. b[n].state = "pending-output" /\ ~b[n].indexed /\ Patched(n, a[n], b[n])
      BY <1>2, <2>1 DEF Advances
    <3> QED BY <3>1 DEF Patched
  <2> QED BY <1>2, <2>1 DEF Advances
<1>3. ASSUME NEW n \in DOMAIN c PROVE Patched(n, a[n], c[n])
  <2>1. Patched(n, a[n], b[n]) /\ Patched(n, b[n], c[n])
    BY DEF Advances
  <2> QED BY <2>1, PatchedAgain
<1> QED BY <1>1, <1>2, <1>3 DEF Advances

\* The single writes of NoteManager.
LEMMA Writes ==
  ASSUME NEW n, NEW x, IsNote(x)
  PROVE  /\ Patched(n, x, x) /\ Patched(n, x, Revised(x, x))
         /\ Patched(n, x, Revised(x, Commit(x))) /\ Patched(n, x, Revised(x, Release(x)))
         /\ Patched(n, x, Revised(x, [x EXCEPT !.indexed = TRUE]))
         /\ x.indexed => /\ Patched(n, x, Revised(x, [x EXCEPT !.status = "spent"]))
                         /\ Patched(n, x, Revised(x, Commit([x EXCEPT !.status = "spent"])))
         /\ Unjoined(n) => Patched(n, x, Revised(x, Commit([x EXCEPT !.status = "cancelled"])))
         /\ \A o \in Op :
              /\ operation[o] # "none"
              /\ IF request[o].kind = "cancel_order" THEN Unjoined(n) ELSE x.indexed
              => Patched(n, x, Revised(x, Reserve(x, o)))
<1>1. Patched(n, x, x)
  BY DEF Patched
<1>2. ASSUME NEW y, y = Revised(x, x) PROVE Patched(n, x, y)
  BY <1>2 DEF Patched, IsNote, Revised
<1>3. ASSUME NEW y, y = Revised(x, Commit(x)) PROVE Patched(n, x, y)
  BY <1>3 DEF Patched, IsNote, Revised, Commit
<1>4. ASSUME NEW y, y = Revised(x, Release(x)) PROVE Patched(n, x, y)
  BY <1>4 DEF Patched, IsNote, Revised, Release
<1>5. ASSUME NEW y, y = Revised(x, [x EXCEPT !.indexed = TRUE]) PROVE Patched(n, x, y)
  BY <1>5 DEF Patched, IsNote, Revised
<1>6. ASSUME x.indexed, NEW y, y = Revised(x, [x EXCEPT !.status = "spent"])
      PROVE  Patched(n, x, y)
  BY <1>6 DEF Patched, IsNote, Revised
<1>7. ASSUME x.indexed, NEW y, y = Revised(x, Commit([x EXCEPT !.status = "spent"]))
      PROVE  Patched(n, x, y)
  BY <1>7 DEF Patched, IsNote, Revised, Commit
<1>8. ASSUME Unjoined(n), NEW y, y = Revised(x, Commit([x EXCEPT !.status = "cancelled"]))
      PROVE  Patched(n, x, y)
  BY <1>8 DEF Patched, IsNote, Revised, Commit
<1>9. ASSUME NEW o \in Op, operation[o] # "none",
             IF request[o].kind = "cancel_order" THEN Unjoined(n) ELSE x.indexed,
             NEW y, y = Revised(x, Reserve(x, o))
      PROVE  Patched(n, x, y)
  BY <1>9 DEF Patched, IsNote, Revised, Reserve
<1> QED BY <1>1, <1>2, <1>3, <1>4, <1>5, <1>6, <1>7, <1>8, <1>9

\* The notes an executor may spend: they are known to be on the chain.
Known(notes) == {0} \cup {n \in DOMAIN notes : notes[n].indexed}

\* Writes leave what is known to be on the chain.
LEMMA KnownStays ==
  ASSUME NEW old, NEW new, Advances(old, new) PROVE Known(old) \subseteq Known(new)
<1>1. ASSUME NEW n \in DOMAIN old, old[n].indexed PROVE n \in DOMAIN new /\ new[n].indexed
  <2>1. n \in DOMAIN new
    BY <1>1 DEF Advances
  <2> QED BY <1>1, <2>1 DEF Advances, Patched
<1> QED BY <1>1 DEF Known

\* NoteManager.update of some notes, the patch of each being one it may take.
LEMMA UpdateAdvances ==
  ASSUME NEW notes, NEW ids, NEW new, NEW y,
         new = [n \in DOMAIN notes |-> IF n \in ids THEN y[n] ELSE notes[n]],
         StoreOk(notes), \A n \in ids \cap DOMAIN notes : Patched(n, notes[n], y[n])
  PROVE  Advances(notes, new)
<1>1. DOMAIN new = DOMAIN notes
  OBVIOUS
<1>2. ASSUME NEW n \in DOMAIN new PROVE Patched(n, notes[n], new[n])
  <2>1. new[n] = IF n \in ids THEN y[n] ELSE notes[n]
    OBVIOUS
  <2>2. IsNote(notes[n])
    BY <1>1 DEF StoreOk, NoteOk
  <2>3. Patched(n, notes[n], notes[n])
    BY <2>2, Writes
  <2> QED BY <1>1, <2>1, <2>3
<1> QED BY <1>1, <1>2 DEF Advances

\* A stored note is a record of a note.
LEMMA StoredIsNote ==
  ASSUME NEW notes, StoreOk(notes), NEW n \in DOMAIN notes
  PROVE  IsNote(notes[n]) /\ NoteOk(n, notes[n]) /\ n \in 1..used
BY DEF StoreOk, NoteOk

\* Notes that are seen on the chain.
LEMMA ReconcileAdvances ==
  ASSUME NEW notes, StoreOk(notes) PROVE Advances(notes, Reconcile(notes))
<1> DEFINE ids == Unseen(notes)
           y == [n \in DOMAIN notes |-> Revised(notes[n], [notes[n] EXCEPT !.indexed = TRUE])]
<1>1. \A n \in ids \cap DOMAIN notes : Patched(n, notes[n], y[n])
  BY StoredIsNote, Writes
<1>2. Reconcile(notes) = [n \in DOMAIN notes |-> IF n \in ids THEN y[n] ELSE notes[n]]
  BY DEF Reconcile, Update
<1> HIDE DEF ids, y
<1> QED BY <1>1, <1>2, UpdateAdvances

\* Notes that take the next revision, are committed, released or reserved.
LEMMA UpdatesAdvance ==
  ASSUME NEW notes, NEW ids, StoreOk(notes)
  PROVE  /\ Advances(notes, Update(notes, ids, LAMBDA x : x))
         /\ Advances(notes, Update(notes, ids, Commit))
         /\ Advances(notes, Update(notes, ids, Release))
<1>1. ASSUME NEW y, y = [n \in DOMAIN notes |-> Revised(notes[n], notes[n])]
      PROVE  Advances(notes, Update(notes, ids, LAMBDA x : x))
  <2>1. \A n \in ids \cap DOMAIN notes : Patched(n, notes[n], y[n])
    BY <1>1, StoredIsNote, Writes
  <2>2. Update(notes, ids, LAMBDA x : x) =
          [n \in DOMAIN notes |-> IF n \in ids THEN y[n] ELSE notes[n]]
    BY <1>1 DEF Update
  <2> QED BY <2>1, <2>2, UpdateAdvances
<1>2. ASSUME NEW y, y = [n \in DOMAIN notes |-> Revised(notes[n], Commit(notes[n]))]
      PROVE  Advances(notes, Update(notes, ids, Commit))
  <2>1. \A n \in ids \cap DOMAIN notes : Patched(n, notes[n], y[n])
    BY <1>2, StoredIsNote, Writes
  <2>2. Update(notes, ids, Commit) =
          [n \in DOMAIN notes |-> IF n \in ids THEN y[n] ELSE notes[n]]
    BY <1>2 DEF Update
  <2> QED BY <2>1, <2>2, UpdateAdvances
<1>3. ASSUME NEW y, y = [n \in DOMAIN notes |-> Revised(notes[n], Release(notes[n]))]
      PROVE  Advances(notes, Update(notes, ids, Release))
  <2>1. \A n \in ids \cap DOMAIN notes : Patched(n, notes[n], y[n])
    BY <1>3, StoredIsNote, Writes
  <2>2. Update(notes, ids, Release) =
          [n \in DOMAIN notes |-> IF n \in ids THEN y[n] ELSE notes[n]]
    BY <1>3 DEF Update
  <2> QED BY <2>1, <2>2, UpdateAdvances
<1> QED BY <1>1, <1>2, <1>3

\* Notes on the chain that are written off as spent.
LEMMA SpendsAdvance ==
  ASSUME NEW notes, NEW ids, StoreOk(notes), ids \subseteq Known(notes)
  PROVE  /\ Advances(notes, Update(notes, ids, LAMBDA x : [x EXCEPT !.status = "spent"]))
         /\ Advances(notes, Update(notes, ids,
                                   LAMBDA x : Commit([x EXCEPT !.status = "spent"])))
<1>1. \A n \in ids \cap DOMAIN notes : notes[n].indexed
  <2>1. 0 \notin DOMAIN notes
    BY DEF StoreOk
  <2> QED BY <2>1 DEF Known
<1>2. ASSUME NEW y,
             y = [n \in DOMAIN notes |-> Revised(notes[n], [notes[n] EXCEPT !.status = "spent"])]
      PROVE  Advances(notes, Update(notes, ids, LAMBDA x : [x EXCEPT !.status = "spent"]))
  <2>1. \A n \in ids \cap DOMAIN notes : Patched(n, notes[n], y[n])
    BY <1>1, <1>2, StoredIsNote, Writes
  <2>2. Update(notes, ids, LAMBDA x : [x EXCEPT !.status = "spent"]) =
          [n \in DOMAIN notes |-> IF n \in ids THEN y[n] ELSE notes[n]]
    BY <1>2 DEF Update
  <2> QED BY <2>1, <2>2, UpdateAdvances
<1>3. ASSUME NEW y,
             y = [n \in DOMAIN notes |->
                    Revised(notes[n], Commit([notes[n] EXCEPT !.status = "spent"]))]
      PROVE  Advances(notes, Update(notes, ids,
                                    LAMBDA x : Commit([x EXCEPT !.status = "spent"])))
  <2>1. \A n \in ids \cap DOMAIN notes : Patched(n, notes[n], y[n])
    BY <1>1, <1>3, StoredIsNote, Writes
  <2>2. Update(notes, ids, LAMBDA x : Commit([x EXCEPT !.status = "spent"])) =
          [n \in DOMAIN notes |-> IF n \in ids THEN y[n] ELSE notes[n]]
    BY <1>3 DEF Update
  <2> QED BY <2>1, <2>2, UpdateAdvances
<1> QED BY <1>2, <1>3

\* An order that is written off as cancelled.
LEMMA CancelsAdvance ==
  ASSUME NEW notes, NEW ids, StoreOk(notes), \A n \in ids : Unjoined(n)
  PROVE  Advances(notes, Update(notes, ids,
                                LAMBDA x : Commit([x EXCEPT !.status = "cancelled"])))
<1>1. ASSUME NEW y,
             y = [n \in DOMAIN notes |->
                    Revised(notes[n], Commit([notes[n] EXCEPT !.status = "cancelled"]))]
      PROVE  Advances(notes, Update(notes, ids,
                                    LAMBDA x : Commit([x EXCEPT !.status = "cancelled"])))
  <2>1. \A n \in ids \cap DOMAIN notes : Patched(n, notes[n], y[n])
    BY <1>1, StoredIsNote, Writes
  <2>2. Update(notes, ids, LAMBDA x : Commit([x EXCEPT !.status = "cancelled"])) =
          [n \in DOMAIN notes |-> IF n \in ids THEN y[n] ELSE notes[n]]
    BY <1>1 DEF Update
  <2> QED BY <2>1, <2>2, UpdateAdvances
<1> QED BY <1>1

\* A note is reserved for an operation that may spend or cancel it.
LEMMA ReserveAdvances ==
  ASSUME NEW notes, NEW n, NEW o \in Op, StoreOk(notes), operation[o] # "none",
         IF request[o].kind = "cancel_order" THEN Unjoined(n) ELSE n \in Known(notes)
  PROVE  Advances(notes, Update(notes, {n}, LAMBDA x : Reserve(x, o)))
<1>1. ASSUME NEW y, y = [m \in DOMAIN notes |-> Revised(notes[m], Reserve(notes[m], o))]
      PROVE  Advances(notes, Update(notes, {n}, LAMBDA x : Reserve(x, o)))
  <2>1. 0 \notin DOMAIN notes
    BY DEF StoreOk
  <2>2. ASSUME NEW m \in {n} \cap DOMAIN notes PROVE Patched(m, notes[m], y[m])
    <3>1. IF request[o].kind = "cancel_order" THEN Unjoined(m) ELSE notes[m].indexed
      BY <2>1 DEF Known
    <3> QED BY <1>1, <3>1, StoredIsNote, Writes
  <2>3. Update(notes, {n}, LAMBDA x : Reserve(x, o)) =
          [m \in DOMAIN notes |-> IF m \in {n} THEN y[m] ELSE notes[m]]
    BY <1>1 DEF Update
  <2> QED BY <2>2, <2>3, UpdateAdvances
<1> QED BY <1>1

Calls == {"shield", "join", "submit_order", "cancel_order", "unshield", "unshielded"}

\* What is written once a transaction has succeeded.
LEMMA SettledAdvances ==
  ASSUME NEW notes, StoreOk(notes), NEW j, j.call \in Calls, j.ins \subseteq Known(notes),
         \A n \in j.order : Unjoined(n)
  PROVE  Advances(notes, SettledNotes(notes, j))
<1> DEFINE outs == DOMAIN j.new
           spend(x) == [x EXCEPT !.status = "spent"]
<1>1. CASE j.call = "shield"
  BY <1>1, UpdatesAdvance DEF SettledNotes
<1>2. CASE j.call = "join"
  <2> DEFINE a == Update(notes, outs, LAMBDA x : x)
             b == Update(a, j.ins, spend)
  <2>1. Advances(notes, a) /\ SettledNotes(notes, j) = b
    BY <1>2, UpdatesAdvance DEF SettledNotes
  <2> HIDE DEF a
  <2>2. StoreOk(a) /\ j.ins \subseteq Known(a)
    BY <2>1, AdvancesIsOk, KnownStays
  <2>3. Advances(a, b)
    BY <2>2, SpendsAdvance
  <2> HIDE DEF b
  <2> QED BY <2>1, <2>3, AdvancesAgain
<1>3. CASE j.call = "submit_order"
  <2> DEFINE a == Update(notes, j.ins, LAMBDA x : Commit(spend(x)))
             b == Update(a, outs, Commit)
  <2>1. Advances(notes, a) /\ SettledNotes(notes, j) = b
    BY <1>3, SpendsAdvance DEF SettledNotes
  <2> HIDE DEF a
  <2>2. StoreOk(a)
    BY <2>1, AdvancesIsOk
  <2>3. Advances(a, b)
    BY <2>2, UpdatesAdvance
  <2> HIDE DEF b
  <2> QED BY <2>1, <2>3, AdvancesAgain
<1>4. CASE j.call = "cancel_order"
  <2> DEFINE a == Update(notes, j.order, LAMBDA x : Commit([x EXCEPT !.status = "cancelled"]))
             b == Update(a, outs, Commit)
  <2>1. Advances(notes, a) /\ SettledNotes(notes, j) = b
    BY <1>4, CancelsAdvance DEF SettledNotes
  <2> HIDE DEF a
  <2>2. StoreOk(a)
    BY <2>1, AdvancesIsOk
  <2>3. Advances(a, b)
    BY <2>2, UpdatesAdvance
  <2> HIDE DEF b
  <2> QED BY <2>1, <2>3, AdvancesAgain
<1>5. CASE j.call = "unshield"
  BY <1>5, SpendsAdvance DEF SettledNotes
<1>6. CASE j.call = "unshielded"
  BY <1>6, UpdatesAdvance DEF SettledNotes
<1> QED BY <1>1, <1>2, <1>3, <1>4, <1>5, <1>6 DEF Calls

\* Outputs that are removed.
LEMMA WithoutAdvances ==
  ASSUME NEW notes, StoreOk(notes), NEW gone,
         \A n \in gone \cap DOMAIN notes : notes[n].state = "pending-output" /\ ~notes[n].indexed,
         NEW new, new = Without(notes, gone)
  PROVE  Advances(notes, new)
<1>1. DOMAIN new = DOMAIN notes \ gone /\ \A n \in DOMAIN new : new[n] = notes[n]
  BY DEF Without
<1>2. ASSUME NEW n \in DOMAIN new PROVE Patched(n, notes[n], new[n])
  BY <1>1, StoredIsNote, Writes
<1> QED BY <1>1, <1>2 DEF Advances

\* The rollback of an operation.
LEMMA RollbackAdvances ==
  ASSUME NEW notes, StoreOk(notes), NEW o, NEW kept, kept = Without(notes, Abandoned(notes, o)),
         NEW ids
  PROVE  Advances(notes, Update(kept, ids, Release))
<1>1. Advances(notes, kept)
  BY WithoutAdvances DEF Abandoned
<1>2. StoreOk(kept)
  BY <1>1, AdvancesIsOk
<1>3. Advances(kept, Update(kept, ids, Release))
  BY <1>2, UpdatesAdvance
<1>4. ASSUME NEW new, new = Update(kept, ids, Release) PROVE Advances(notes, new)
  BY <1>1, <1>3, <1>4, AdvancesAgain
<1> QED BY <1>4

\* The journals of a browser follow a list of the operations.
LEMMA JournalsAdvance ==
  ASSUME NEW notes, StoreOk(notes), NEW seen
  PROVE  Advances(notes, JournalsReconciled(notes, seen))
<1> DEFINE open == {n \in DOMAIN notes : /\ notes[n].op \in Op
                                         /\ notes[n].state \in {"reserved", "pending-output"}}
           done == {n \in open : seen[notes[n].op] = "succeeded"}
           dead == {n \in open : seen[notes[n].op] \in GivenUp}
           gone == {n \in dead : notes[n].state = "pending-output" /\ ~notes[n].indexed}
           kept == Without(notes, gone)
           finish(x) ==
             IF x.state # "reserved" THEN Commit(x)
             ELSE Commit([x EXCEPT !.status = IF request[x.op].kind = "cancel_order"
                                              THEN "cancelled" ELSE "spent"])
           settled == Update(kept, done, finish)
<1>1. JournalsReconciled(notes, seen) = Update(settled, dead \ gone, Release)
  BY DEF JournalsReconciled
<1>2. /\ done \subseteq DOMAIN notes
      /\ \A n \in gone : notes[n].state = "pending-output" /\ ~notes[n].indexed
  OBVIOUS
<1>3. Advances(notes, kept)
  BY <1>2, WithoutAdvances
<1> HIDE DEF kept
<1>4. StoreOk(kept)
  BY <1>3, AdvancesIsOk
<1>5. Advances(kept, settled)
  <2>1. ASSUME NEW y, y = [n \in DOMAIN kept |-> Revised(kept[n], finish(kept[n]))]
        PROVE  Advances(kept, settled)
    <3>1. settled = [n \in DOMAIN kept |-> IF n \in done THEN y[n] ELSE kept[n]]
      BY <2>1 DEF Update
    <3>2. ASSUME NEW n \in done \cap DOMAIN kept, NEW x, x = kept[n] PROVE Patched(n, x, y[n])
      <4>1. IsNote(x) /\ NoteOk(n, x)
        BY <1>4, <3>2, StoredIsNote
      <4>2. CASE x.state # "reserved"
        <5>1. y[n] = Revised(x, Commit(x))
          BY <2>1, <3>2, <4>2
        <5> QED BY <4>1, <5>1, Writes
      <4>3. CASE x.state = "reserved" /\ request[x.op].kind = "cancel_order"
        <5>1. y[n] = Revised(x, Commit([x EXCEPT !.status = "cancelled"]))
          BY <2>1, <3>2, <4>3
        <5>2. Unjoined(n)
          BY <4>1, <4>3 DEF NoteOk, CopyOk, Unjoined
        <5>3. Patched(n, x, Revised(x, Commit([x EXCEPT !.status = "cancelled"])))
          BY <4>1, <5>2, Writes
        <5> QED BY <5>1, <5>3
      <4>4. CASE x.state = "reserved" /\ request[x.op].kind # "cancel_order"
        <5>1. y[n] = Revised(x, Commit([x EXCEPT !.status = "spent"]))
          BY <2>1, <3>2, <4>4
        <5>2. x.indexed
          BY <4>1, <4>4 DEF NoteOk
        <5>3. Patched(n, x, Revised(x, Commit([x EXCEPT !.status = "spent"])))
          BY <4>1, <5>2, Writes
        <5> QED BY <5>1, <5>3
      <4> QED BY <4>2, <4>3, <4>4
    <3> HIDE DEF settled, done
    <3> QED BY <1>4, <3>1, <3>2, UpdateAdvances
  <2> QED BY <2>1
<1> HIDE DEF settled
<1>6. StoreOk(settled)
  BY <1>4, <1>5, AdvancesIsOk
<1>7. Advances(settled, Update(settled, dead \ gone, Release))
  BY <1>6, UpdatesAdvance
<1>8. ASSUME NEW new, new = Update(settled, dead \ gone, Release) PROVE Advances(notes, new)
  <2>1. Advances(notes, settled)
    BY <1>3, <1>5, AdvancesAgain
  <2> QED BY <1>7, <1>8, <2>1, AdvancesAgain
<1> QED BY <1>1, <1>8

\* What a snapshot says of a note.
LEMMA SnapshotAdvances ==
  ASSUME NEW notes, StoreOk(notes), NEW new, new = Snapshot(notes)
  PROVE  /\ Advances(notes, new) /\ DOMAIN new = DOMAIN notes
         /\ \A n \in DOMAIN notes : /\ new[n].indexed = notes[n].indexed
                                     /\ new[n].status = notes[n].status
<1>1. DOMAIN new = DOMAIN notes
  BY DEF Snapshot
<1>2. ASSUME NEW n \in DOMAIN notes, NEW x, x = notes[n]
      PROVE  /\ Patched(n, x, new[n]) /\ new[n].indexed = x.indexed
             /\ new[n].status = x.status
  <2>1. IsNote(x) /\ new[n] = IF x.state = "released" THEN [x EXCEPT !.state = "none"] ELSE x
    BY <1>2, StoredIsNote DEF Snapshot
  <2>2. CASE x.state = "released"
    <3>1. ASSUME NEW z, z = [x EXCEPT !.state = "none"]
          PROVE  /\ Patched(n, x, z) /\ z.indexed = x.indexed /\ z.status = x.status
      BY <2>1, <3>1 DEF IsNote, Patched
    <3> QED BY <2>1, <2>2, <3>1
  <2>3. CASE x.state # "released"
    BY <2>1, <2>3, Writes
  <2> QED BY <2>2, <2>3
<1> QED BY <1>1, <1>2 DEF Advances

\* Two copies of a note become one that is as good as both.
LEMMA MergedNote ==
  ASSUME NEW n, NEW a, NEW b, NEW later, NoteOk(n, a), NoteOk(n, b),
         NEW m, m = MergeNote(a, b, later)
  PROVE  /\ NoteOk(n, m) /\ (a.indexed \/ b.indexed => m.indexed)
         /\ a.status # "active" \/ b.status # "active" => m.status # "active"
<1> DEFINE bIsNewer == b.rev > a.rev \/ (b.rev = a.rev /\ later)
           newer0 == IF bIsNewer THEN b ELSE a
           other0 == IF bIsNewer THEN a ELSE b
           journal0 == IF newer0.state = "none" THEN other0 ELSE newer0
<1>1. m = [newer0 EXCEPT !.status = MergedStatus(a, b, newer0),
                         !.indexed = (a.indexed \/ b.indexed),
                         !.op = journal0.op, !.state = journal0.state]
  BY DEF MergeNote
<1>2. newer0 \in {a, b} /\ journal0 \in {a, b}
  OBVIOUS
<1> HIDE DEF newer0, journal0
<1>3. PICK newer : newer = newer0
  OBVIOUS
<1>4. PICK journal : journal = journal0
  OBVIOUS
<1>5. PICK s : s = MergedStatus(a, b, newer)
  OBVIOUS
<1>6. PICK i : i = (a.indexed \/ b.indexed)
  OBVIOUS
<1>7. /\ newer \in {a, b} /\ journal \in {a, b}
      /\ s = MergedStatus(a, b, newer) /\ (i <=> a.indexed \/ b.indexed) /\ i \in BOOLEAN
      /\ m = [newer EXCEPT !.status = s, !.indexed = i, !.op = journal.op,
                           !.state = journal.state]
  <2>1. (i <=> a.indexed \/ b.indexed) /\ i \in BOOLEAN
    BY <1>6, Zenon
  <2>2. m = [newer EXCEPT !.status = s, !.indexed = i, !.op = journal.op,
                          !.state = journal.state]
    BY <1>1, <1>3, <1>4, <1>5, <1>6
  <2> QED BY <1>2, <1>3, <1>4, <1>5, <2>1, <2>2
<1>8. IsNote(a) /\ IsNote(b) /\ IsNote(newer)
  BY <1>7 DEF NoteOk
<1>9. /\ s \in {a.status, b.status}
      /\ a.status # "active" \/ b.status # "active" => s # "active"
      /\ s = a.status \/ (s = b.status)
  BY <1>7 DEF MergedStatus
<1>10. /\ IsNote(m) /\ m.status = s /\ m.indexed = i /\ m.op = journal.op
       /\ m.state = journal.state /\ m.cancel = newer.cancel
  <2>1. s \in {"active", "spent", "cancelled"}
    BY <1>8, <1>9 DEF IsNote
  <2> QED BY <1>7, <1>8, <2>1 DEF IsNote
<1>11. m.state = "pending-output" => ~Firm(n)
  BY <1>7, <1>10 DEF NoteOk
<1>12. m.state = "reserved" => /\ m.op \in Op /\ operation[m.op] # "none"
                               /\ request[m.op].kind # "cancel_order" => m.indexed
  BY <1>7, <1>10 DEF NoteOk
<1>13. m.status = "spent" => m.indexed
  BY <1>7, <1>10, <1>9 DEF NoteOk
<1>14. ASSUME NEW t \in Tab, n \in Outs(t) PROVE CopyOk(t, m)
  <2>1. CopyOk(t, a) /\ CopyOk(t, b) /\ CopyOk(t, newer) /\ CopyOk(t, journal)
    BY <1>7, <1>14 DEF NoteOk
  <2> QED BY <1>10, <1>9, <2>1 DEF CopyOk
<1> QED BY <1>7, <1>10, <1>9, <1>11, <1>12, <1>13, <1>14 DEF NoteOk

\* What a browser keeps through a step: all that a rollback may not take back, and
\* what it adds is as good as the backup's copy.
Kept(old, new, saved) ==
  /\ \A n \in DOMAIN old \ DOMAIN new : old[n].state = "pending-output" /\ ~old[n].indexed
  /\ \A n \in DOMAIN old \cap DOMAIN new :
       /\ old[n].indexed => new[n].indexed
       /\ old[n].status # "active" => new[n].status # "active"
  /\ \A n \in (DOMAIN new \cap DOMAIN saved) \ DOMAIN old :
       /\ saved[n].indexed => new[n].indexed
       /\ saved[n].status # "active" => new[n].status # "active"

\* A copy of the notes that loses nothing of another one.
Covers(notes, others) ==
  \A n \in DOMAIN others :
    /\ others[n].indexed \/ Firm(n) => n \in DOMAIN notes
    /\ n \in DOMAIN notes =>
         /\ others[n].indexed => notes[n].indexed
         /\ others[n].status # "active" => notes[n].status # "active"

\* Writes keep what a step has to keep.
LEMMA AdvancesIsKept ==
  ASSUME NEW old, NEW new, Advances(old, new), NEW saved
  PROVE  Kept(old, new, saved)
BY DEF Advances, Kept, Patched

\* So does a merge: what is known to be on the chain stays known.
LEMMA KeptKnown ==
  ASSUME NEW old, NEW new, NEW saved, Kept(old, new, saved) PROVE Known(old) \subseteq Known(new)
BY DEF Kept, Known

\* A browser that loses nothing of the backup still loses nothing of it.
LEMMA KeptCovers ==
  ASSUME NEW old, NEW new, NEW saved, Kept(old, new, saved), StoreOk(old), Covers(old, saved)
  PROVE  Covers(new, saved)
<1> SUFFICES ASSUME NEW n \in DOMAIN saved
             PROVE  /\ saved[n].indexed \/ Firm(n) => n \in DOMAIN new
                    /\ n \in DOMAIN new =>
                         /\ saved[n].indexed => new[n].indexed
                         /\ saved[n].status # "active" => new[n].status # "active"
  BY DEF Covers
<1>1. /\ saved[n].indexed \/ Firm(n) => n \in DOMAIN old
      /\ n \in DOMAIN old => /\ saved[n].indexed => old[n].indexed
                             /\ saved[n].status # "active" => old[n].status # "active"
  BY DEF Covers
<1>2. n \in DOMAIN old \ DOMAIN new => old[n].state = "pending-output" /\ ~old[n].indexed
  BY DEF Kept
<1>3. n \in DOMAIN old /\ old[n].state = "pending-output" => ~Firm(n)
  BY DEF StoreOk, NoteOk
<1> QED BY <1>1, <1>2, <1>3 DEF Kept

\* A merge with the backup.
LEMMA MergedStore ==
  ASSUME NEW old, NEW saved, StoreOk(old), StoreOk(saved), NEW later,
         NEW new, new = MergeRecoveryNotes(old, saved, later)
  PROVE  StoreOk(new) /\ Kept(old, new, saved) /\ Covers(new, saved)
<1>1. DOMAIN new = DOMAIN old \cup DOMAIN saved
  BY DEF MergeRecoveryNotes
<1>2. ASSUME NEW n \in DOMAIN new
      PROVE  /\ n \in 1..used /\ NoteOk(n, new[n])
             /\ n \in DOMAIN old => /\ old[n].indexed => new[n].indexed
                                    /\ old[n].status # "active" => new[n].status # "active"
             /\ n \in DOMAIN saved => /\ saved[n].indexed => new[n].indexed
                                      /\ saved[n].status # "active" => new[n].status # "active"
  <2>1. new[n] = IF n \notin DOMAIN saved THEN old[n]
                 ELSE IF n \notin DOMAIN old THEN saved[n]
                 ELSE MergeNote(old[n], saved[n], later)
    BY <1>1 DEF MergeRecoveryNotes
  <2>2. n \in DOMAIN old => n \in 1..used /\ NoteOk(n, old[n])
    BY DEF StoreOk
  <2>3. n \in DOMAIN saved => n \in 1..used /\ NoteOk(n, saved[n])
    BY DEF StoreOk
  <2>4. CASE n \in DOMAIN saved /\ n \in DOMAIN old
    <3>1. new[n] = MergeNote(old[n], saved[n], later)
      BY <2>1, <2>4
    <3>2. ASSUME NEW m, m = MergeNote(old[n], saved[n], later)
          PROVE  /\ NoteOk(n, m) /\ (old[n].indexed \/ saved[n].indexed => m.indexed)
                 /\ old[n].status # "active" \/ saved[n].status # "active" => m.status # "active"
      BY <2>2, <2>3, <2>4, <3>2, MergedNote
    <3> QED BY <2>2, <2>4, <3>1, <3>2
  <2>5. CASE n \notin DOMAIN saved
    BY <1>1, <2>1, <2>2, <2>5
  <2>6. CASE n \notin DOMAIN old
    BY <1>1, <2>1, <2>3, <2>6
  <2> QED BY <2>4, <2>5, <2>6
<1>3. StoreOk(new)
  BY <1>2 DEF StoreOk
<1>4. Kept(old, new, saved)
  BY <1>1, <1>2 DEF Kept
<1>5. Covers(new, saved)
  BY <1>1, <1>2 DEF Covers
<1> QED BY <1>3, <1>4, <1>5
-----------------------------------------------------------------------------
(***************************************************************************)
(* What executors and backup syncs hold.                                   *)
(***************************************************************************)

\* The steps of a plan, whose inputs may be spent.
IsPlan(steps, known) ==
  /\ Len(steps) \in Nat /\ steps = [i \in 1..Len(steps) |-> steps[i]]
  /\ \A i \in 1..Len(steps) : steps[i].a \in known /\ steps[i].b \in known

\* Nobody else makes the notes an executor makes, and the order it cancels is
\* not one of them.
Apart(t) ==
  /\ Outs(t) \subseteq 1..used /\ exec[t].order \subseteq 1..used
  /\ \A u \in Tab \ {t} : Outs(t) \cap Outs(u) = {}
  /\ \A u \in Tab : Joining(u) => exec[t].order \cap Outs(u) = {}
  /\ ~Joining(t) => Outs(t) \cap Owned = {}

\* What an executor consumes and plans to consume is on the chain.
Inputs(t) ==
  /\ exec[t].ins \subseteq Known(Notes(t)) /\ IsPlan(exec[t].steps, Known(Notes(t)))
  /\ exec[t].pc = "join" \/ (Joining(t) /\ exec[t].pc # "reserve") => exec[t].steps # <<>>
  /\ IF Joining(t) THEN exec[t].note \in Outs(t) ELSE exec[t].note \in Known(Notes(t))
  /\ exec[t].pc \in {"join", "reserve"} => exec[t].note \in Known(Notes(t))

\* The step an executor has reached.
Reached(t) ==
  /\ exec[t].pc # "idle" => exec[t].op \in Op /\ operation[exec[t].op] # "none"
  /\ exec[t].pc \in {"add", "staging", "submit", "wait", "settle", "settling"} =>
       exec[t].call \in Calls
  /\ exec[t].pc \in {"begin", "add"} => ~Joining(t)
  /\ exec[t].pc = "add" =>
       \A n \in Outs(t) : /\ IsNote(exec[t].new[n]) /\ exec[t].new[n].status = "active"
                          /\ exec[t].new[n].op = exec[t].op
                          /\ exec[t].new[n].state = "pending-output"
  /\ exec[t].pc = "wait" => txs[exec[t].tx].outs = Outs(t)
  /\ Joining(t) /\ exec[t].pc \in {"settle", "settling", "confirm"} => exec[t].note \in Minted

JobOk(t) == Apart(t) /\ Inputs(t) /\ Reached(t)

\* A snapshot that the server would accept loses nothing it has.
SyncOk(t, c) ==
  /\ sync[t][c].pc = "encrypted" => StoreOk(sync[t][c].notes)
  /\ sync[t][c].current => /\ sync[t][c].pc = "merged" => Covers(Notes(t), backup)
                           /\ sync[t][c].pc = "encrypted" => Covers(sync[t][c].notes, backup)

Stored == (\A b \in Browser : StoreOk(db[b])) /\ StoreOk(backup)
NotesInv ==
  /\ Stored /\ Owned \subseteq 1..used
  /\ \A t \in Tab : JobOk(t)
  /\ \A t \in Tab, c \in Caller : SyncOk(t, c)

IsSync(s) == s = [pc |-> s.pc, current |-> s.current, tries |-> s.tries, notes |-> s.notes]
Shapes ==
  /\ db = [b \in Browser |-> db[b]] /\ used \in Nat
  /\ sync = [t \in Tab |-> sync[t]]
  /\ \A t \in Tab : sync[t] = [c \in Caller |-> sync[t][c]]
  /\ \A t \in Tab, c \in Caller : IsSync(sync[t][c]) /\ sync[t][c].current \in BOOLEAN
  /\ request = [o \in Op |-> request[o]]

NInv == IInv /\ Shapes /\ NotesInv

\* What every step leaves of what a copy of a note depends on.
Later ==
  /\ used' \in Nat /\ used <= used'
  /\ \A o \in Op : operation[o] # "none" => operation'[o] # "none" /\ request'[o] = request[o]
  /\ \A n \in Owned' : n \in Owned \/ ~Unjoined(n)
  /\ \A t \in Tab : \A n \in Outs(t)' \cap 1..used :
       /\ n \in Outs(t) /\ exec'[t].op = exec[t].op
       /\ Joining(t)' => Joining(t)
       /\ exec'[t].pc = "add" => exec[t].pc = "add"

\* A note that may be rolled back before a step is one that may be after it.
LEMMA FirmStays == ASSUME Later, NEW n \in 1..used, Firm(n)' PROVE Firm(n)
<1>1. CASE n \in Owned'
  BY <1>1 DEF Later, Firm
<1>2. CASE ~Unjoined(n)'
  <2>1. PICK t \in Tab : Joining(t)' /\ n \in Outs(t)'
    BY <1>2 DEF Unjoined
  <2>2. Joining(t) /\ n \in Outs(t)
    BY <2>1 DEF Later
  <2> QED BY <2>2 DEF Firm, Unjoined
<1> QED BY <1>1, <1>2 DEF Firm

\* A copy of a note that is as it should be stays so.
LEMMA NoteStays ==
  ASSUME Later, NEW n \in 1..used, NEW x, NoteOk(n, x) PROVE NoteOk(n, x)'
<1>1. x.state = "pending-output" => ~Firm(n)'
  BY FirmStays DEF NoteOk
<1>2. x.state = "reserved" => /\ x.op \in Op /\ operation'[x.op] # "none"
                              /\ request'[x.op] = request[x.op]
                              /\ request'[x.op].kind # "cancel_order" => x.indexed
  BY DEF NoteOk, Later
<1>3. ASSUME NEW t \in Tab, n \in Outs(t)' PROVE CopyOk(t, x)'
  <2>1. /\ n \in Outs(t) /\ exec'[t].op = exec[t].op /\ (Joining(t)' => Joining(t))
        /\ exec'[t].pc = "add" => exec[t].pc = "add"
    BY <1>3 DEF Later
  <2>2. CopyOk(t, x)
    BY <2>1 DEF NoteOk
  <2> QED BY <1>2, <2>1, <2>2 DEF CopyOk
<1>4. IsNote(x) /\ (x.status = "spent" => x.indexed)
  BY DEF NoteOk
<1> QED BY <1>1, <1>2, <1>3, <1>4 DEF NoteOk, IsNote

\* So does a store.
LEMMA StoreStays ==
  ASSUME Later, used \in Nat, NEW notes, StoreOk(notes) PROVE StoreOk(notes)'
<1>1. ASSUME NEW n \in DOMAIN notes PROVE n \in 1..used' /\ NoteOk(n, notes[n])'
  <2>1. n \in 1..used /\ NoteOk(n, notes[n])
    BY DEF StoreOk
  <2>2. n \in 1..used'
    BY <2>1 DEF Later
  <2> QED BY <2>1, <2>2, NoteStays
<1> QED BY <1>1 DEF StoreOk

\* A copy that loses nothing of another one still does not.
LEMMA CoversStays ==
  ASSUME Later, NEW notes, NEW saved, StoreOk(saved), Covers(notes, saved)
  PROVE  Covers(notes, saved)'
<1>1. \A n \in DOMAIN saved : Firm(n)' => Firm(n)
  BY FirmStays DEF StoreOk
<1> QED BY <1>1 DEF Covers
-----------------------------------------------------------------------------
(***************************************************************************)
(* What steps have in common that touch the notes.                         *)
(***************************************************************************)

\* A step adds to the browsers and takes back only what may be rolled back.
DbKept == \A b \in Browser : db'[b] = db[b] \/ Kept(db[b], db'[b], backup)
DbStays == \A b \in Browser : db'[b] = db[b] \/ (Kept(db[b], db'[b], backup) /\ StoreOk(db[b])')
SyncsStay ==
  \A t \in Tab, c \in Caller :
    sync'[t][c] = sync[t][c] \/ sync'[t][c].pc \notin {"merged", "encrypted"}
ChainGrows ==
  /\ \A i \in DOMAIN txs : i \in DOMAIN txs' /\ txs'[i].outs = txs[i].outs
  /\ \A n \in Minted : n \in Minted'
Safe == DbKept /\ (backup' = backup \/ Covers(backup', backup))

\* A tab goes on knowing what it knows to be on the chain.
LEMMA KnownGrows ==
  ASSUME DbKept, NEW t \in Tab PROVE Known(Notes(t)) \subseteq Known(Notes(t))'
<1>1. BrowserOf[t] \in Browser
  BY WalletAssumption
<1>2. PICK old : old = Notes(t)
  OBVIOUS
<1>3. PICK new : new = Notes(t)'
  OBVIOUS
<1>4. new = old \/ Kept(old, new, backup)
  BY <1>1, <1>2, <1>3 DEF DbKept, Notes
<1>5. Known(old) \subseteq Known(new)
  BY <1>4, KeptKnown
<1>6. Known(old) = Known(Notes(t)) /\ Known(new) = Known(Notes(t))'
  BY <1>2, <1>3 DEF Known
<1> QED BY <1>5, <1>6

\* A plan stays good while more is known.
LEMMA PlanStays ==
  ASSUME NEW steps, NEW a, NEW b, a \subseteq b, IsPlan(steps, a) PROVE IsPlan(steps, b)
BY DEF IsPlan

\* An executor whose notes and order stay.
LEMMA ApartStays ==
  ASSUME NInv, Later, NEW t \in Tab, exec'[t].new = exec[t].new, exec'[t].order = exec[t].order,
         Joining(t) => Joining(t)'
  PROVE  Apart(t)'
<1>1. Apart(t) /\ used \in Nat /\ used' \in Nat /\ used <= used'
  BY DEF NInv, NotesInv, JobOk, Shapes, Later
<1>2. Outs(t)' = Outs(t)
  BY DEF Outs
<1>3. Outs(t)' \subseteq 1..used' /\ exec'[t].order \subseteq 1..used'
  BY <1>1, <1>2 DEF Apart
<1>4. ASSUME NEW u \in Tab \ {t} PROVE Outs(t)' \cap Outs(u)' = {}
  <2>1. ASSUME NEW n \in Outs(t)' \cap Outs(u)' PROVE FALSE
    <3>1. n \in 1..used /\ n \in Outs(t)
      BY <1>1, <1>2, <2>1 DEF Apart
    <3>2. n \in Outs(u)
      BY <2>1, <3>1 DEF Later
    <3> QED BY <1>1, <3>1, <3>2 DEF Apart
  <2> QED BY <2>1
<1>5. ASSUME NEW u \in Tab, Joining(u)' PROVE exec'[t].order \cap Outs(u)' = {}
  <2>1. ASSUME NEW n \in exec'[t].order \cap Outs(u)' PROVE FALSE
    <3>1. n \in 1..used /\ n \in exec[t].order
      BY <1>1, <2>1 DEF Apart
    <3>2. n \in Outs(u) /\ Joining(u)
      BY <1>5, <2>1, <3>1 DEF Later
    <3> QED BY <1>1, <3>1, <3>2 DEF Apart
  <2> QED BY <2>1
<1>6. ASSUME ~Joining(t)' PROVE Outs(t)' \cap Owned' = {}
  <2>1. ASSUME NEW n \in Outs(t)' \cap Owned' PROVE FALSE
    <3>1. n \in Outs(t) /\ ~Joining(t)
      BY <1>2, <1>6, <2>1
    <3>2. n \notin Owned
      BY <1>1, <3>1 DEF Apart
    <3>3. ~Unjoined(n)
      BY <2>1, <3>2 DEF Later
    <3>4. PICK u \in Tab : Joining(u) /\ n \in Outs(u)
      BY <3>3 DEF Unjoined
    <3> QED BY <1>1, <3>1, <3>4 DEF Apart
  <2> QED BY <2>1
<1> QED BY <1>3, <1>4, <1>5, <1>6 DEF Apart

\* An executor that has no notes and no order.
LEMMA ApartGone ==
  ASSUME NEW t \in Tab, DOMAIN exec'[t].new = {}, exec'[t].order = {} PROVE Apart(t)'
<1>1. Outs(t)' = {}
  BY DEF Outs
<1> QED BY <1>1 DEF Apart

\* An executor with new notes.
LEMMA ApartFresh ==
  ASSUME NInv, Later, NEW t \in Tab, \A u \in Tab \ {t} : exec'[u] = exec[u],
         UNCHANGED txs, \A n \in Outs(t)' : n \in 1..used' /\ n \notin 1..used,
         \A n \in exec'[t].order : n \in 1..used /\ Unjoined(n)
  PROVE  Apart(t)'
<1>1. used \in Nat /\ used' \in Nat /\ used <= used' /\ \A u \in Tab : Apart(u)
  BY DEF NInv, NotesInv, JobOk, Shapes, Later
<1>2. Outs(t)' \subseteq 1..used' /\ exec'[t].order \subseteq 1..used'
  BY <1>1
<1>3. ASSUME NEW u \in Tab \ {t} PROVE Outs(u)' = Outs(u) /\ Joining(u)' = Joining(u)
  BY <1>3 DEF Outs, Joining
<1>4. ASSUME NEW u \in Tab \ {t} PROVE Outs(t)' \cap Outs(u)' = {}
  BY <1>1, <1>3 DEF Apart
<1>5. ASSUME NEW u \in Tab, Joining(u)' PROVE exec'[t].order \cap Outs(u)' = {}
  BY <1>3, <1>5 DEF Unjoined
<1>6. Outs(t)' \cap Owned' = {}
  <2>1. Owned' = Owned /\ Owned \subseteq 1..used
    BY DEF Owned, NInv, NotesInv
  <2> QED BY <2>1
<1> QED BY <1>2, <1>4, <1>5, <1>6 DEF Apart

\* An executor that does nothing.
LEMMA JobStays ==
  ASSUME NInv, Later, DbKept, ChainGrows, NEW t \in Tab, exec'[t] = exec[t] PROVE JobOk(t)'
<1>1. JobOk(t) /\ JobHonest(exec[t])
  BY DEF NInv, IInv, Honest, NotesInv
<1>2. Apart(t)'
  BY ApartStays DEF Joining
<1>3. Known(Notes(t)) \subseteq Known(Notes(t))'
  BY KnownGrows
<1>4. Inputs(t)'
  <2>1. IsPlan(exec'[t].steps, Known(Notes(t)))
    BY <1>1 DEF JobOk, Inputs
  <2>2. IsPlan(exec[t].steps, Known(Notes(t)))'
    BY <1>3, <2>1, PlanStays DEF IsPlan
  <2>3. Outs(t)' = Outs(t) /\ Joining(t)' = Joining(t)
    BY DEF Outs, Joining
  <2> QED BY <1>1, <1>3, <2>2, <2>3 DEF JobOk, Inputs
<1>5. Reached(t)'
  <2>1. Outs(t)' = Outs(t) /\ Joining(t)' = Joining(t)
    BY DEF Outs, Joining
  <2>2. Reached(t)
    BY <1>1 DEF JobOk
  <2>3. exec[t].pc # "idle" => exec[t].op \in Op /\ operation'[exec[t].op] # "none"
    BY <2>2 DEF Reached, Later
  <2>4. exec[t].pc = "wait" => txs'[exec[t].tx].outs = Outs(t)
    BY <1>1, <2>2 DEF Reached, JobHonest, ChainGrows
  <2>5. Joining(t) /\ exec[t].pc \in {"settle", "settling", "confirm"} => exec[t].note \in Minted'
    BY <2>2 DEF Reached, ChainGrows
  <2> QED BY <2>1, <2>2, <2>3, <2>4, <2>5 DEF Reached, IsNote
<1> QED BY <1>2, <1>4, <1>5 DEF JobOk

\* The browsers and the backup.
LEMMA StoredStays ==
  ASSUME NInv, Later, DbStays, backup' = backup \/ StoreOk(backup)' PROVE Stored'
<1>1. Stored /\ used \in Nat
  BY DEF NInv, NotesInv, Shapes
<1>2. ASSUME NEW b \in Browser PROVE StoreOk(db[b])'
  <2>1. CASE db'[b] = db[b]
    <3>1. PICK notes : notes = db[b]
      OBVIOUS
    <3>2. StoreOk(notes)
      BY <1>1, <3>1 DEF Stored
    <3>3. StoreOk(notes)'
      BY <1>1, <3>2, StoreStays
    <3> QED BY <2>1, <3>1, <3>3 DEF StoreOk
  <2> QED BY <2>1 DEF DbStays
<1>3. StoreOk(backup)'
  <2>1. CASE backup' = backup
    <3>1. PICK notes : notes = backup
      OBVIOUS
    <3>2. StoreOk(notes)
      BY <1>1, <3>1 DEF Stored
    <3>3. StoreOk(notes)'
      BY <1>1, <3>2, StoreStays
    <3> QED BY <2>1, <3>1, <3>3 DEF StoreOk
  <2> QED BY <2>1
<1> QED BY <1>2, <1>3 DEF Stored

\* Another sync, which is stale when the backup is replaced.
LEMMA SyncCarried ==
  ASSUME NInv, Later, DbKept, NEW t \in Tab, NEW c \in Caller,
         sync'[t][c].pc = sync[t][c].pc, sync'[t][c].notes = sync[t][c].notes,
         sync'[t][c].current => sync[t][c].current /\ backup' = backup
  PROVE  SyncOk(t, c)'
<1>1. PICK s : s = sync[t][c]
  OBVIOUS
<1>2. PICK notes : notes = s.notes
  OBVIOUS
<1>3. PICK saved : saved = backup
  OBVIOUS
<1>4. StoreOk(saved) /\ used \in Nat /\ BrowserOf[t] \in Browser
  BY <1>3, WalletAssumption DEF NInv, NotesInv, Stored, Shapes
<1>5. /\ s.pc = "encrypted" => StoreOk(notes)
      /\ s.current => /\ s.pc = "merged" => Covers(Notes(t), saved)
                      /\ s.pc = "encrypted" => Covers(notes, saved)
  BY <1>1, <1>2, <1>3 DEF NInv, NotesInv, SyncOk
<1>6. s.pc = "encrypted" => StoreOk(notes)'
  BY <1>4, <1>5, StoreStays
<1>7. s.current /\ s.pc = "encrypted" => Covers(notes, saved)'
  BY <1>4, <1>5, CoversStays
<1>8. ASSUME s.current, s.pc = "merged" PROVE Covers(Notes(t), saved)'
  <2>1. PICK old : old = Notes(t)
    OBVIOUS
  <2>2. PICK new : new = Notes(t)'
    OBVIOUS
  <2>3. Covers(old, saved) /\ StoreOk(old)
    BY <1>4, <1>5, <1>8, <2>1 DEF NInv, NotesInv, Stored, Notes
  <2>4. new = old \/ Kept(old, new, saved)
    BY <1>3, <1>4, <2>1, <2>2 DEF DbKept, Notes
  <2>5. Covers(new, saved)
    BY <2>3, <2>4, KeptCovers
  <2>6. Covers(new, saved)'
    BY <1>4, <2>5, CoversStays
  <2> QED BY <2>2, <2>6 DEF Covers
<1>9. sync'[t][c].pc = s.pc /\ sync'[t][c].notes = notes
      /\ (sync'[t][c].current => s.current /\ backup' = saved)
  BY <1>1, <1>2, <1>3
<1>10. s.pc = "encrypted" => StoreOk(sync[t][c].notes)'
  BY <1>6, <1>9 DEF StoreOk
<1>11. sync'[t][c].current => /\ s.pc = "merged" => Covers(Notes(t), backup)'
                              /\ s.pc = "encrypted" => Covers(sync[t][c].notes, backup)'
  BY <1>7, <1>8, <1>9 DEF Covers
<1> QED BY <1>9, <1>10, <1>11 DEF SyncOk

\* A backup sync in the making stays good while the backup does not change.
LEMMA SyncStays ==
  ASSUME NInv, Later, DbKept, UNCHANGED backup, NEW t \in Tab, NEW c \in Caller,
         sync'[t][c] = sync[t][c] \/ sync'[t][c].pc \notin {"merged", "encrypted"}
  PROVE  SyncOk(t, c)'
<1>1. CASE sync'[t][c].pc \notin {"merged", "encrypted"}
  BY <1>1 DEF SyncOk
<1>2. CASE sync'[t][c] = sync[t][c]
  BY <1>2, SyncCarried
<1> QED BY <1>1, <1>2

\* What a wallet owns has been handed out.
LEMMA OwnedStays == ASSUME NInv, Later PROVE (Owned \subseteq 1..used)'
<1>1. used \in Nat /\ used' \in Nat /\ used <= used' /\ Owned \subseteq 1..used
      /\ \A t \in Tab : Outs(t) \subseteq 1..used
  BY DEF NInv, NotesInv, JobOk, Apart, Shapes, Later
<1>2. ASSUME NEW n \in Owned' PROVE n \in 1..used'
  <2>1. n \in Owned \/ \E t \in Tab : n \in Outs(t)
    BY DEF Later, Unjoined
  <2>2. n \in 1..used
    BY <1>1, <2>1
  <2> QED BY <1>1, <2>2
<1> QED BY <1>2

\* Steps that leave the backup alone.
LEMMA Ordinary ==
  ASSUME NInv, Later, DbStays, SyncsStay, ChainGrows, UNCHANGED backup,
         \A t \in Tab : exec'[t] = exec[t] \/ JobOk(t)'
  PROVE  NotesInv' /\ Safe
<1>1. DbKept
  BY DEF DbStays, DbKept
<1>2. Stored'
  BY StoredStays
<1>3. \A t \in Tab : JobOk(t)'
  BY <1>1, JobStays
<1>4. \A t \in Tab, c \in Caller : SyncOk(t, c)'
  BY <1>1, SyncStays DEF SyncsStay
<1>5. (Owned \subseteq 1..used)'
  BY OwnedStays
<1> QED BY <1>1, <1>2, <1>3, <1>4, <1>5 DEF NotesInv, Safe

\* A sync that is asked for, or over.
LEMMA SyncBegins ==
  ASSUME NEW s, s \in {Wanted, NoSync}
  PROVE  /\ IsSync(s) /\ s.current \in BOOLEAN /\ s.pc \notin {"merged", "encrypted"}
<1>1. CASE s = NoSync
  BY <1>1 DEF IsSync, NoSync
<1>2. CASE s = Wanted
  BY <1>2 DEF IsSync, NoSync, Wanted
<1> QED BY <1>1, <1>2

\* The records of the backup syncs.
SyncShape ==
  /\ sync = [t \in Tab |-> sync[t]]
  /\ \A t \in Tab : sync[t] = [c \in Caller |-> sync[t][c]]
  /\ \A t \in Tab, c \in Caller : IsSync(sync[t][c]) /\ sync[t][c].current \in BOOLEAN

\* A sync goes on.
LEMMA SyncSet ==
  ASSUME NInv, NEW t \in Tab, NEW c \in Caller, NEW s, IsSync(s), s.current \in BOOLEAN,
         sync' = [sync EXCEPT ![t][c] = s]
  PROVE  /\ SyncShape' /\ sync'[t][c] = s
         /\ \A u \in Tab, d \in Caller : u # t \/ d # c => sync'[u][d] = sync[u][d]
<1>1. /\ sync' = [u \in Tab |-> sync'[u]]
      /\ \A u \in Tab : sync'[u] = IF u = t THEN [sync[t] EXCEPT ![c] = s] ELSE sync[u]
  BY DEF NInv, Shapes
<1>2. ASSUME NEW u \in Tab
      PROVE  /\ sync'[u] = [d \in Caller |-> sync'[u][d]]
             /\ \A d \in Caller : sync'[u][d] = IF u = t /\ d = c THEN s ELSE sync[u][d]
  BY <1>1 DEF NInv, Shapes
<1>3. \A u \in Tab, d \in Caller : IsSync(sync'[u][d]) /\ sync'[u][d].current \in BOOLEAN
  BY <1>2 DEF NInv, Shapes
<1>4. SyncShape'
  BY <1>1, <1>2, <1>3 DEF SyncShape, IsSync
<1>5. sync'[t][c] = s
  BY <1>2
<1>6. ASSUME NEW u \in Tab, NEW d \in Caller, u # t \/ d # c PROVE sync'[u][d] = sync[u][d]
  BY <1>2, <1>6
<1> QED BY <1>4, <1>5, <1>6

\* The notes of a browser are replaced.
LEMMA DbSet ==
  ASSUME NInv, NEW t \in Tab, NEW new, db' = [db EXCEPT ![BrowserOf[t]] = new],
         Kept(Notes(t), new, backup), StoreOk(new)'
  PROVE  DbStays /\ db' = [b \in Browser |-> db'[b]] /\ Notes(t)' = new
<1>1. BrowserOf[t] \in Browser
  BY WalletAssumption
<1>2. /\ db' = [b \in Browser |-> db'[b]] /\ db'[BrowserOf[t]] = new
      /\ \A b \in Browser : b # BrowserOf[t] => db'[b] = db[b]
  BY <1>1 DEF NInv, Shapes
<1>3. StoreOk(db[BrowserOf[t]])'
  BY <1>2 DEF StoreOk
<1> QED BY <1>2, <1>3 DEF DbStays, Notes

\* What a tab stores, and the syncs it asks for.
LEMMA TabWrites ==
  ASSUME NInv, Later, NEW t \in Tab,
         UNCHANGED db \/ \E new : /\ SetNotes(t, new) /\ Kept(Notes(t), new, backup)
                                 /\ StoreOk(new)',
         UNCHANGED sync \/ \E c \in Caller : WantSync(t, c) \/ SyncReturns(t, c),
         request' = [o \in Op |-> request'[o]]
  PROVE  DbStays /\ SyncsStay /\ Shapes'
<1>1. Shapes /\ BrowserOf[t] \in Browser /\ used' \in Nat
  BY WalletAssumption DEF NInv, Later
<1>2. DbStays /\ db' = [b \in Browser |-> db'[b]]
  <2>1. CASE UNCHANGED db
    BY <1>1, <2>1 DEF DbStays, Shapes
  <2>2. CASE \E new : SetNotes(t, new) /\ Kept(Notes(t), new, backup) /\ StoreOk(new)'
    <3>1. PICK new : SetNotes(t, new) /\ Kept(Notes(t), new, backup) /\ StoreOk(new)'
      BY <2>2
    <3>2. db' = [db EXCEPT ![BrowserOf[t]] = new]
      BY <3>1 DEF SetNotes
    <3> QED BY <3>1, <3>2, DbSet
  <2> QED BY <2>1, <2>2
<1>3. SyncsStay /\ SyncShape'
  <2>1. CASE UNCHANGED sync
    BY <1>1, <2>1 DEF SyncsStay, SyncShape, Shapes, IsSync
  <2>2. CASE \E c \in Caller : WantSync(t, c) \/ SyncReturns(t, c)
    <3>1. PICK c \in Caller : WantSync(t, c) \/ SyncReturns(t, c)
      BY <2>2
    <3>2. PICK s : s \in {Wanted, NoSync} /\ sync' = [sync EXCEPT ![t][c] = s]
      BY <3>1 DEF WantSync, SyncReturns
    <3>3. IsSync(s) /\ s.current \in BOOLEAN /\ s.pc \notin {"merged", "encrypted"}
      BY <3>2, SyncBegins
    <3>4. /\ SyncShape' /\ sync'[t][c] = s
          /\ \A u \in Tab, d \in Caller : u # t \/ d # c => sync'[u][d] = sync[u][d]
      BY <3>2, <3>3, SyncSet
    <3> QED BY <3>3, <3>4 DEF SyncsStay
  <2> QED BY <2>1, <2>2
<1> QED BY <1>1, <1>2, <1>3 DEF Shapes, SyncShape

\* What an executor or a poller writes is what a step may.
LEMMA AdvanceIsWrite ==
  ASSUME NInv, Later, NEW t \in Tab, NEW new, Advances(Notes(t), new)
  PROVE  Kept(Notes(t), new, backup) /\ StoreOk(new)'
<1>1. StoreOk(Notes(t)) /\ used \in Nat
  BY WalletAssumption DEF NInv, NotesInv, Stored, Shapes, Notes
<1>2. StoreOk(new)
  BY <1>1, AdvancesIsOk
<1> QED BY <1>1, <1>2, AdvancesIsKept, StoreStays

\* A step of one executor.
LEMMA LaterJob ==
  ASSUME NInv, NEW t \in Tab, \A u \in Tab \ {t} : exec'[u] = exec[u],
         used' \in Nat, used <= used',
         \A o \in Op : operation[o] # "none" => operation'[o] # "none" /\ request'[o] = request[o],
         UNCHANGED txs,
         \/ exec'[t].new = exec[t].new /\ exec'[t].op = exec[t].op
              /\ (Joining(t)' => Joining(t)) /\ exec'[t].pc # "add"
         \/ \A n \in Outs(t)' : n \notin 1..used
  PROVE  Later
<1>1. Owned' = Owned
  BY DEF Owned
<1>2. ASSUME NEW u \in Tab, NEW n \in Outs(u)' \cap 1..used
      PROVE  /\ n \in Outs(u) /\ exec'[u].op = exec[u].op
             /\ Joining(u)' => Joining(u)
             /\ exec'[u].pc = "add" => exec[u].pc = "add"
  BY DEF Outs, Joining
<1> QED BY <1>1, <1>2 DEF Later

\* Steps of no executor.
LEMMA LaterElse ==
  ASSUME UNCHANGED <<exec, used>>, used \in Nat,
         \A n \in Owned' : n \in Owned,
         \A o \in Op : operation[o] # "none" => operation'[o] # "none" /\ request'[o] = request[o]
  PROVE  Later
BY DEF Later, Outs, Joining

\* A step that has nothing to do with the chain.
LEMMA ChainSame == ASSUME UNCHANGED chain PROVE ChainGrows
BY DEF chain, ChainGrows, Minted, Landed

\* An executor goes on with the same transaction.
LEMMA JobGoes ==
  ASSUME NInv, Later, DbKept, ChainGrows, NEW t \in Tab, NEW p, exec[t].pc # "idle",
         exec'[t] = [exec[t] EXCEPT !.pc = p],
         p \in {"staging", "submit", "settle", "settling", "confirm", "confirming", "complete",
                "rollback", "rolling"},
         Joining(t) => exec[t].steps # <<>>,
         p \in {"staging", "submit", "settle", "settling"} => exec[t].call \in Calls,
         Joining(t) /\ p \in {"settle", "settling", "confirm"} => exec[t].note \in Minted
  PROVE  JobOk(t)'
<1> DEFINE e == exec[t]
           j == exec'[t]
<1>1. JobOk(t) /\ IsJob(e)
  BY DEF NInv, IInv, Records, NotesInv
<1>2. /\ j.pc = p /\ j.op = e.op /\ j.call = e.call /\ j.note = e.note /\ j.ins = e.ins
      /\ j.order = e.order /\ j.new = e.new /\ j.steps = e.steps
  BY <1>1 DEF IsJob
<1>3. Apart(t)'
  BY <1>2, ApartStays DEF Joining
<1>4. Outs(t)' = Outs(t) /\ Joining(t)' = Joining(t)
  BY <1>2 DEF Outs, Joining
<1>5. Inputs(t)'
  <2>1. Known(Notes(t)) \subseteq Known(Notes(t))'
    BY KnownGrows
  <2>2. IsPlan(e.steps, Known(Notes(t))) /\ Inputs(t)
    BY <1>1 DEF JobOk, Inputs
  <2>3. IsPlan(exec[t].steps, Known(Notes(t)))'
    BY <1>2, <2>1, <2>2, PlanStays DEF IsPlan
  <2> QED BY <1>2, <1>4, <2>1, <2>2, <2>3 DEF Inputs
<1>6. Reached(t)'
  <2>1. e.op \in Op /\ operation'[e.op] # "none"
    BY <1>1 DEF JobOk, Reached, Later
  <2>2. e.note \in Minted => e.note \in Minted'
    BY DEF ChainGrows
  <2> QED BY <1>2, <1>4, <2>1, <2>2 DEF Reached
<1> QED BY <1>3, <1>5, <1>6 DEF JobOk

\* Nothing to do is a plan.
LEMMA NoPlan == ASSUME NEW known PROVE IsPlan(<<>>, known)
BY DEF IsPlan

\* An executor that has nothing in hand.
LEMMA JobEmpty ==
  ASSUME Later, NEW t \in Tab, NEW j, exec'[t] = j, j.new = <<>>, j.order = {}, j.ins = {},
         j.steps = <<>>, j.note = 0, j.call = "none",
         j.pc \in {"idle", "fail", "finish", "begin"},
         j.pc # "idle" => j.op \in Op /\ operation'[j.op] # "none"
  PROVE  JobOk(t)'
<1>1. Apart(t)'
  <2>1. DOMAIN exec'[t].new = {}
    OBVIOUS
  <2> QED BY <2>1, ApartGone
<1>2. Inputs(t)'
  <2>1. IsPlan(exec[t].steps, Known(Notes(t)))'
    <3>1. PICK known : known = Known(Notes(t))'
      OBVIOUS
    <3>2. IsPlan(j.steps, known)
      BY NoPlan
    <3> QED BY <3>1, <3>2 DEF IsPlan
  <2>2. ~Joining(t)' /\ 0 \in Known(Notes(t))'
    BY DEF Joining, Known
  <2> QED BY <2>1, <2>2 DEF Inputs
<1>3. Reached(t)'
  BY DEF Reached, Joining
<1> QED BY <1>1, <1>2, <1>3 DEF JobOk

\* An executor that keeps its operation and its lease has nothing else in hand.
LEMMA KeepIsEmpty ==
  ASSUME NEW e, NEW p, NEW j, j = Keep(e, p)
  PROVE  /\ j.new = <<>> /\ j.order = {} /\ j.ins = {} /\ j.steps = <<>> /\ j.note = 0
         /\ j.call = "none" /\ j.pc = p /\ j.op = e.op
BY DEF Keep, NoJob

\* An executor that fails or is done.
LEMMA JobThrown ==
  ASSUME NInv, Later, NEW t \in Tab, exec[t].pc # "idle", NEW p \in {"fail", "finish"},
         exec'[t] = Keep(exec[t], p)
  PROVE  JobOk(t)'
<1>1. PICK j : j = Keep(exec[t], p)
  OBVIOUS
<1>2. exec[t].op \in Op /\ operation'[exec[t].op] # "none"
  BY DEF NInv, NotesInv, JobOk, Reached, Later
<1>3. /\ j.new = <<>> /\ j.order = {} /\ j.ins = {} /\ j.steps = <<>> /\ j.note = 0
      /\ j.call = "none" /\ j.pc = p /\ j.op = exec[t].op
  BY <1>1, KeepIsEmpty
<1> QED BY <1>1, <1>2, <1>3, JobEmpty

\* An executor that has given up its operation.
LEMMA JobEnds ==
  ASSUME Later, NEW t \in Tab, exec'[t] = NoJob PROVE JobOk(t)'
BY JobEmpty DEF NoJob

\* What an executor leaves when it has nothing more in hand.
LEMMA LaterEmpty ==
  ASSUME NInv, NEW t \in Tab, \A u \in Tab \ {t} : exec'[u] = exec[u], UNCHANGED <<used, txs>>,
         \A o \in Op : operation[o] # "none" => operation'[o] # "none" /\ request'[o] = request[o],
         exec'[t] = NoJob \/ \E p : exec'[t] = Keep(exec[t], p)
  PROVE  Later
<1>1. used \in Nat /\ used <= used
  BY DEF NInv, Shapes
<1>2. exec'[t].new = <<>>
  BY KeepIsEmpty DEF NoJob
<1>3. Outs(t)' = {}
  BY <1>2 DEF Outs
<1> QED BY <1>1, <1>3, LaterJob

\* What every step comes to.
Proceeds == Shapes' /\ NotesInv' /\ Safe

\* A step of one executor comes to what every step does.
LEMMA Proceed ==
  ASSUME NInv, Later, DbStays, SyncsStay, Shapes', ChainGrows, UNCHANGED backup,
         NEW t \in Tab, \A u \in Tab \ {t} : exec'[u] = exec[u], JobOk(t)'
  PROVE  Proceeds
<1>1. \A u \in Tab : exec'[u] = exec[u] \/ JobOk(u)'
  OBVIOUS
<1> QED BY <1>1, Ordinary DEF Proceeds

\* So does a step of no executor.
LEMMA ProceedElse ==
  ASSUME NInv, Later, DbStays, SyncsStay, Shapes', ChainGrows, UNCHANGED <<backup, exec>>
  PROVE  Proceeds
BY Ordinary DEF Proceeds

\* A step of one executor leaves the others alone.
LEMMA ExecSet ==
  ASSUME NInv, NEW t \in Tab, NEW j, exec' = [exec EXCEPT ![t] = j]
  PROVE  exec'[t] = j /\ \A u \in Tab \ {t} : exec'[u] = exec[u]
BY DEF NInv, IInv, Records

Requested ==
  /\ request' = [o \in Op |-> request'[o]]
  /\ \A o \in Op : operation[o] # "none" => operation'[o] # "none" /\ request'[o] = request[o]

\* A step that has nothing to do with the queue.
LEMMA RequestedSame == ASSUME NInv, UNCHANGED queueVars PROVE Requested
BY DEF NInv, Shapes, Requested, queueVars

\* Stores that stay as they should be are kept.
LEMMA KeptMeans == DbStays => DbKept
BY DEF DbStays, DbKept

\* An executor's step that writes what a note may take.
LEMMA WriteProceeds ==
  ASSUME NInv, Later, Requested, ChainGrows, UNCHANGED backup, NEW t \in Tab,
         \A u \in Tab \ {t} : exec'[u] = exec[u],
         UNCHANGED db \/ \E new : SetNotes(t, new) /\ Advances(Notes(t), new),
         UNCHANGED sync \/ \E c \in Caller : WantSync(t, c) \/ SyncReturns(t, c),
         DbKept => JobOk(t)'
  PROVE  Proceeds
<1>1. UNCHANGED db \/ \E new : /\ SetNotes(t, new) /\ Kept(Notes(t), new, backup)
                              /\ StoreOk(new)'
  BY AdvanceIsWrite
<1>2. DbStays /\ SyncsStay /\ Shapes'
  BY <1>1, TabWrites DEF Requested
<1> QED BY <1>2, KeptMeans, Proceed

\* An executor goes on, fails or ends.
LEMMA JobWrites ==
  ASSUME NInv, NEW t \in Tab, exec[t].pc # "idle", Requested, UNCHANGED <<backup, used, chain>>,
         UNCHANGED db \/ \E new : SetNotes(t, new) /\ Advances(Notes(t), new),
         UNCHANGED sync \/ \E c \in Caller : WantSync(t, c) \/ SyncReturns(t, c),
         NEW j, exec' = [exec EXCEPT ![t] = j],
         \/ j = NoJob
         \/ \E p \in {"fail", "finish"} : j = Keep(exec[t], p)
         \/ \E p \in {"staging", "submit", "settle", "settling", "confirm", "confirming",
                      "complete", "rollback", "rolling"} :
              /\ j = [exec[t] EXCEPT !.pc = p]
              /\ Joining(t) => exec[t].steps # <<>>
              /\ p \in {"staging", "submit", "settle", "settling"} => exec[t].call \in Calls
              /\ Joining(t) /\ p \in {"settle", "settling", "confirm"} => exec[t].note \in Minted
  PROVE  Proceeds
<1>1. used \in Nat /\ used <= used /\ UNCHANGED txs
  BY DEF NInv, Shapes, chain
<1>2. exec'[t] = j /\ \A u \in Tab \ {t} : exec'[u] = exec[u]
  BY ExecSet
<1>3. ChainGrows
  BY ChainSame
<1>4. Later
  <2>1. CASE j = NoJob \/ \E p : j = Keep(exec[t], p)
    BY <1>1, <1>2, <1>3, <2>1, LaterEmpty DEF Requested
  <2>2. CASE \E p : j = [exec[t] EXCEPT !.pc = p] /\ p # "add"
    <3>1. exec'[t].new = exec[t].new /\ exec'[t].op = exec[t].op /\ exec'[t].pc # "add"
          /\ exec'[t].call = exec[t].call
      BY <1>2, <2>2 DEF NInv, IInv, Records, IsJob
    <3> QED BY <1>1, <1>2, <1>3, <3>1, LaterJob DEF Requested, Joining
  <2> QED BY <2>1, <2>2
<1>5. DbKept => JobOk(t)'
  BY <1>2, <1>3, <1>4, JobEnds, JobThrown, JobGoes
<1> QED BY <1>2, <1>3, <1>4, <1>5, WriteProceeds

\* An executor goes on, fails or ends and writes nothing.
LEMMA QuietJob ==
  ASSUME NInv, NEW t \in Tab, exec[t].pc # "idle", Requested,
         UNCHANGED <<db, sync, backup, used, chain>>,
         \/ exec' = [exec EXCEPT ![t] = NoJob]
         \/ \E p \in {"fail", "finish"} : exec' = [exec EXCEPT ![t] = Keep(exec[t], p)]
         \/ \E p \in {"staging", "submit", "settle", "settling", "confirm", "confirming",
                      "complete", "rollback", "rolling"} :
              /\ exec' = [exec EXCEPT ![t] = [exec[t] EXCEPT !.pc = p]]
              /\ Joining(t) => exec[t].steps # <<>>
              /\ p \in {"staging", "submit", "settle", "settling"} => exec[t].call \in Calls
              /\ Joining(t) /\ p \in {"settle", "settling", "confirm"} => exec[t].note \in Minted
  PROVE  Proceeds
<1>1. PICK j : /\ exec' = [exec EXCEPT ![t] = j]
               /\ \/ j = NoJob
                  \/ \E p \in {"fail", "finish"} : j = Keep(exec[t], p)
                  \/ \E p \in {"staging", "submit", "settle", "settling", "confirm", "confirming",
                               "complete", "rollback", "rolling"} :
                       /\ j = [exec[t] EXCEPT !.pc = p]
                       /\ Joining(t) => exec[t].steps # <<>>
                       /\ p \in {"staging", "submit", "settle", "settling"} =>
                            exec[t].call \in Calls
                       /\ Joining(t) /\ p \in {"settle", "settling", "confirm"} =>
                            exec[t].note \in Minted
  OBVIOUS
<1> QED BY <1>1, JobWrites

\* A signature refused, a transaction refused or seen to fail, an answer lost.
LEMMA ThrowProceeds ==
  ASSUME NInv, NEW t \in Tab, exec[t].pc # "idle", Throw(t), Requested,
         UNCHANGED <<db, sync, backup, used, chain>>
  PROVE  Proceeds
<1>1. \E p \in {"fail", "finish"} : exec' = [exec EXCEPT ![t] = Keep(exec[t], p)]
  BY DEF Throw
<1> QED BY <1>1, QuietJob

\* An executor that goes on to report or to roll back.
LEMMA GotoProceeds ==
  ASSUME NInv, NEW t \in Tab, exec[t].pc # "idle",
         exec[t].pc # "reserve",
         NEW p \in {"complete", "rollback"}, Goto(t, p), Requested,
         UNCHANGED <<db, sync, backup, used, chain>>
  PROVE  Proceeds
<1>1. \E q \in {"staging", "submit", "settle", "settling", "confirm", "confirming",
                "complete", "rollback", "rolling"} :
        /\ exec' = [exec EXCEPT ![t] = [exec[t] EXCEPT !.pc = q]]
        /\ Joining(t) => exec[t].steps # <<>>
        /\ q \in {"staging", "submit", "settle", "settling"} => exec[t].call \in Calls
        /\ Joining(t) /\ q \in {"settle", "settling", "confirm"} => exec[t].note \in Minted
  BY DEF Goto, NInv, NotesInv, JobOk, Inputs
<1> QED BY <1>1, QuietJob
-----------------------------------------------------------------------------
(***************************************************************************)
(* The executor and the notes, step by step.                               *)
(***************************************************************************)

\* A transaction that is not taken.
LEMMA RefusedProceeds == ASSUME NInv, NEW t \in Tab, SubmitRefused(t) PROVE Proceeds
<1>1. exec[t].pc # "idle" /\ Requested
  BY RequestedSame DEF SubmitRefused, At
<1> QED BY <1>1, ThrowProceeds DEF SubmitRefused

\* A transaction that lands or fails.
LEMMA AwaitProceeds == ASSUME NInv, NEW t \in Tab, AwaitTransaction(t) PROVE Proceeds
<1>1. exec[t].pc = "wait" /\ Requested
  BY RequestedSame DEF AwaitTransaction, At
<1>2. UNCHANGED <<db, sync, backup, used, chain>>
  BY DEF AwaitTransaction, chain
<1>3. CASE Throw(t)
  BY <1>1, <1>2, <1>3, ThrowProceeds
<1>4. CASE txs[exec[t].tx].status = "landed" /\ Goto(t, "settle")
  <2>1. exec' = [exec EXCEPT ![t] = [exec[t] EXCEPT !.pc = "settle"]]
    BY <1>4 DEF Goto
  <2>2. Joining(t) => exec[t].steps # <<>>
    BY <1>1 DEF NInv, NotesInv, JobOk, Inputs
  <2>3. exec[t].call \in Calls
    BY <1>1 DEF NInv, NotesInv, JobOk, Reached
  <2>4. ASSUME Joining(t) PROVE exec[t].note \in Minted
    <3> DEFINE i == exec[t].tx
    <3>1. i \in DOMAIN txs /\ txs[i].method = "join" /\ txs[i].outs = Outs(t)
      BY <1>1, <2>4 DEF NInv, NotesInv, JobOk, Reached, IInv, Honest, JobHonest, Joining
    <3>2. exec[t].note \in Outs(t)
      BY <2>4 DEF NInv, NotesInv, JobOk, Inputs
    <3> QED BY <1>4, <3>1, <3>2 DEF Minted, Landed
  <2>5. \E p \in {"staging", "submit", "settle", "settling", "confirm", "confirming",
                  "complete", "rollback", "rolling"} :
          /\ exec' = [exec EXCEPT ![t] = [exec[t] EXCEPT !.pc = p]]
          /\ Joining(t) => exec[t].steps # <<>>
          /\ p \in {"staging", "submit", "settle", "settling"} => exec[t].call \in Calls
          /\ Joining(t) /\ p \in {"settle", "settling", "confirm"} => exec[t].note \in Minted
    BY <2>1, <2>2, <2>3, <2>4
  <2> QED BY <1>1, <1>2, <2>5, QuietJob
<1> QED BY <1>3, <1>4 DEF AwaitTransaction

\* A result is cached.
LEMMA CacheProceeds == ASSUME NInv, NEW t \in Tab, CacheActionResult(t) PROVE Proceeds
<1>1. /\ exec[t].pc = "finish" /\ Requested /\ Goto(t, "complete")
      /\ UNCHANGED <<db, sync, backup, used, chain>>
  BY RequestedSame DEF CacheActionResult, At, chain
<1> QED BY <1>1, GotoProceeds

\* The queue takes an answer and forgets no operation.
LEMMA RequestedAnswer ==
  ASSUME NInv, NEW o, NEW lease,
         CompleteAction(o, lease) \/ FailAction(o, lease, FALSE) \/ HeartbeatAction(o, lease)
           \/ CancelOperation(o) \/ LeaseExpires(o) \/ ClaimAction(o)
  PROVE  Requested
<1>1. /\ UNCHANGED request /\ request = [p \in Op |-> request[p]]
      /\ operation = [p \in Op |-> operation[p]]
  BY DEF NInv, Shapes, IInv, Records, CompleteAction, FailAction, HeartbeatAction,
         CancelOperation, LeaseExpires, ClaimAction
<1>2. \/ UNCHANGED operation
      \/ \E s \in {"succeeded", "failed", "cancelled"} : operation' = [operation EXCEPT ![o] = s]
  BY DEF CompleteAction, FailAction, HeartbeatAction, CancelOperation, LeaseExpires, ClaimAction
<1> QED BY <1>1, <1>2 DEF Requested

\* A result is reported, a failure is, or a call fails.
LEMMA EndProceeds ==
  ASSUME NInv, NEW t \in Tab, Complete(t) \/ Fail(t) \/ ExecFault(t) PROVE Proceeds
<1>1. UNCHANGED <<db, sync, backup, used, chain>>
  BY DEF Complete, Fail, ExecFault, chain
<1>2. exec[t].pc # "idle"
  BY DEF Complete, Fail, ExecFault, At
<1>3. Requested
  <2>1. \/ UNCHANGED queueVars \/ CompleteAction(exec[t].op, exec[t].lease)
        \/ FailAction(exec[t].op, exec[t].lease, FALSE)
    BY DEF Complete, Fail, ExecFault
  <2> QED BY <2>1, RequestedSame, RequestedAnswer
<1>4. \/ exec' = [exec EXCEPT ![t] = NoJob] \/ Throw(t)
      \/ exec[t].pc = "fail" /\ Goto(t, "rollback")
  BY DEF Complete, Fail, ExecFault, At
<1>5. CASE exec' = [exec EXCEPT ![t] = NoJob]
  BY <1>1, <1>2, <1>3, <1>5, QuietJob
<1> QED BY <1>1, <1>2, <1>3, <1>4, <1>5, ThrowProceeds, GotoProceeds

\* An action is claimed.
LEMMA ClaimProceeds == ASSUME NInv, NEW t \in Tab, Claim(t) PROVE Proceeds
<1>1. /\ UNCHANGED <<db, sync, backup, used, chain>> /\ exec[t].pc = "idle"
      /\ UNCHANGED <<operation, request>>
  BY DEF Claim, ClaimAction, At
<1>2. PICK o \in Op : /\ ClaimAction(o)
                      /\ exec' = [exec EXCEPT ![t] =
                           [NoJob EXCEPT !.op = o, !.lease = action[o].lease + 1,
                              !.pc = IF o \in cached[BrowserOf[t]] THEN "finish" ELSE "begin"]]
  BY DEF Claim
<1>3. operation[o] # "none"
  BY <1>2 DEF ClaimAction, ActionClaimable
<1>4. PICK j, l, p : /\ exec' = [exec EXCEPT ![t] = j] /\ p \in {"finish", "begin"}
                     /\ j = [NoJob EXCEPT !.op = o, !.lease = l, !.pc = p]
  BY <1>2
<1>5. /\ j.new = <<>> /\ j.order = {} /\ j.ins = {} /\ j.steps = <<>> /\ j.note = 0
      /\ j.call = "none" /\ j.pc \in {"begin", "finish"} /\ j.op = o
  BY <1>4 DEF NoJob
<1>6. exec'[t] = j /\ \A u \in Tab \ {t} : exec'[u] = exec[u]
  BY <1>4, ExecSet
<1>7. Requested
  BY <1>2, RequestedAnswer
<1>8. Later
  <2>1. Outs(t)' = {}
    BY <1>5, <1>6 DEF Outs
  <2>2. used \in Nat /\ used <= used /\ UNCHANGED <<txs, used>>
    BY <1>1 DEF NInv, Shapes, chain
  <2> QED BY <1>6, <1>7, <2>1, <2>2, LaterJob DEF Requested
<1>9. DbStays /\ SyncsStay /\ Shapes' /\ ChainGrows
  BY <1>1, <1>7, <1>8, TabWrites, ChainSame DEF Requested
<1>10. JobOk(t)'
  BY <1>1, <1>3, <1>5, <1>6, <1>8, JobEmpty
<1> QED BY <1>1, <1>6, <1>8, <1>9, <1>10, Proceed

\* What a new note is.
LEMMA NewNoteIs ==
  ASSUME NEW x, NEW asset, NEW amount, NEW cancel, NEW o, NEW state,
         x = NewNote(asset, amount, cancel, o, state)
  PROVE  IsNote(x) /\ x.status = "active" /\ x.cancel = cancel /\ x.op = o /\ x.state = state
BY DEF NewNote, IsNote

\* A note that an executor makes and nobody else has.
LEMMA NewIsOk ==
  ASSUME NEW t \in Tab, \A u \in Tab \ {t} : exec'[u] = exec[u], UNCHANGED txs,
         NEW n, n \notin Owned, \A u \in Tab \ {t} : n \notin Outs(u),
         NEW x, IsNote(x), x.status = "active", x.state \in {"none", "pending-output"},
         exec'[t].pc # "add", Joining(t)' => x.cancel = 0,
         x.state = "pending-output" => x.op = exec'[t].op /\ ~Joining(t)'
  PROVE  NoteOk(n, x)'
<1>1. \A u \in Tab \ {t} : n \notin Outs(u)'
  BY DEF Outs
<1>2. Owned' = Owned
  BY DEF Owned
<1>3. x.state = "pending-output" => ~Firm(n)'
  BY <1>1, <1>2 DEF Firm, Unjoined
<1>4. ASSUME NEW u \in Tab, n \in Outs(u)' PROVE CopyOk(u, x)'
  <2>1. u = t
    BY <1>1, <1>4
  <2> QED BY <2>1 DEF CopyOk
<1> QED BY <1>3, <1>4 DEF NoteOk, IsNote

\* New notes are stored beside those there are.
LEMMA PutIsWrite ==
  ASSUME NInv, Later, NEW t \in Tab, NEW new,
         \A n \in DOMAIN new : /\ n \notin DOMAIN Notes(t) /\ n \notin DOMAIN backup
                               /\ n \in 1..used' /\ NoteOk(n, new[n])',
         NEW put, put = Put(Notes(t), new)
  PROVE  Kept(Notes(t), put, backup) /\ StoreOk(put)'
<1>1. PICK old : old = Notes(t)
  OBVIOUS
<1>2. StoreOk(old) /\ used \in Nat
  BY <1>1, WalletAssumption DEF NInv, NotesInv, Stored, Shapes, Notes
<1>3. StoreOk(old)'
  BY <1>2, StoreStays
<1>4. /\ DOMAIN put = DOMAIN old \cup DOMAIN new
      /\ \A n \in DOMAIN put : put[n] = IF n \in DOMAIN new THEN new[n] ELSE old[n]
  BY <1>1 DEF Put
<1>5. Kept(old, put, backup)
  BY <1>1, <1>4 DEF Kept
<1>6. StoreOk(put)'
  <2>1. ASSUME NEW n \in DOMAIN put PROVE n \in 1..used' /\ NoteOk(n, put[n])'
    <3>1. CASE n \in DOMAIN new
      <4>1. put[n] = new[n] /\ n \in 1..used' /\ NoteOk(n, new[n])'
        BY <1>4, <3>1
      <4> QED BY <4>1 DEF NoteOk, CopyOk
    <3>2. CASE n \notin DOMAIN new
      <4>1. put[n] = old[n] /\ n \in DOMAIN old
        BY <1>4, <3>2
      <4>2. n \in 1..used' /\ NoteOk(n, old[n])'
        BY <1>3, <4>1 DEF StoreOk
      <4> QED BY <4>1, <4>2 DEF NoteOk, CopyOk
    <3> QED BY <3>1, <3>2
  <2> QED BY <2>1 DEF StoreOk
<1> QED BY <1>1, <1>5, <1>6

\* A transaction to come that is not a join.
LEMMA JobPrepared ==
  ASSUME NInv, Later, DbKept, NEW t \in Tab, \A u \in Tab \ {t} : exec'[u] = exec[u],
         UNCHANGED txs, exec[t].pc # "idle", exec[t].note \in Known(Notes(t)),
         NEW j, exec'[t] = j, j.pc \in {"add", "staging", "submit"},
         j.call \in Calls \ {"join"}, j.ins \subseteq Known(Notes(t)),
         j.op = exec[t].op, j.note = exec[t].note, j.steps = exec[t].steps,
         \A n \in j.order : n \in 1..used /\ Unjoined(n),
         \A n \in DOMAIN j.new : n \in 1..used' /\ n \notin 1..used,
         j.pc = "add" => \A n \in DOMAIN j.new :
                           /\ IsNote(j.new[n]) /\ j.new[n].status = "active"
                           /\ j.new[n].op = j.op /\ j.new[n].state = "pending-output"
  PROVE  JobOk(t)'
<1> DEFINE e == exec[t]
<1>1. JobOk(t)
  BY DEF NInv, NotesInv
<1>2. Outs(t)' = DOMAIN j.new /\ ~Joining(t)'
  BY DEF Outs, Joining, Calls
<1>3. Apart(t)'
  BY <1>2, ApartFresh
<1>4. Known(Notes(t)) \subseteq Known(Notes(t))'
  BY KnownGrows
<1>5. Inputs(t)'
  <2>1. IsPlan(e.steps, Known(Notes(t)))
    BY <1>1 DEF JobOk, Inputs
  <2>2. IsPlan(exec[t].steps, Known(Notes(t)))'
    BY <1>4, <2>1, PlanStays DEF IsPlan
  <2> QED BY <1>2, <1>4, <2>2 DEF Inputs
<1>6. Reached(t)'
  <2>1. e.op \in Op /\ operation'[e.op] # "none"
    BY <1>1 DEF JobOk, Reached, Later
  <2> QED BY <1>2, <2>1 DEF Reached, IsNote
<1> QED BY <1>3, <1>5, <1>6 DEF JobOk

\* The notes an executor makes next are nobody's.
LEMMA FreshNotes ==
  ASSUME NInv, NEW k \in Nat, used' = used + k, NEW n \in (used + 1)..(used + k)
  PROVE  /\ used \in Nat /\ used' \in Nat /\ used <= used'
         /\ n \in 1..used' /\ n \notin 1..used /\ n \notin Owned
         /\ \A u \in Tab : n \notin Outs(u)
         /\ n \notin DOMAIN backup /\ \A t \in Tab : n \notin DOMAIN Notes(t)
<1>1. used \in Nat /\ used' \in Nat /\ n \in 1..used' /\ n \notin 1..used /\ used <= used'
  BY DEF NInv, Shapes
<1>2. n \notin Owned /\ \A u \in Tab : n \notin Outs(u)
  BY <1>1 DEF NInv, NotesInv, JobOk, Apart
<1>3. StoreOk(backup) /\ \A t \in Tab : StoreOk(Notes(t))
  BY WalletAssumption DEF NInv, NotesInv, Stored, Notes
<1> QED BY <1>1, <1>2, <1>3 DEF StoreOk

\* The one note an executor makes next.
LEMMA FreshNote ==
  ASSUME NInv, NEW n, n = used + 1, used' = used + 1
  PROVE  /\ used \in Nat /\ used' \in Nat /\ used <= used'
         /\ n \in 1..used' /\ n \notin 1..used /\ n \notin Owned
         /\ \A u \in Tab : n \notin Outs(u)
         /\ n \notin DOMAIN backup /\ \A t \in Tab : n \notin DOMAIN Notes(t)
<1>1. used \in Nat
  BY DEF NInv, Shapes
<1>2. PICK k \in Nat : k = 1
  OBVIOUS
<1>3. used' = used + k /\ n \in (used + 1)..(used + k)
  BY <1>1, <1>2
<1> QED BY <1>3, FreshNotes

\* A deposit is prepared and its note stored.
LEMMA ShieldProceeds == ASSUME NInv, NEW t \in Tab, ExecuteShield(t) PROVE Proceeds
<1> DEFINE e == exec[t]
<1>1. PICK x : x = NewNote(RequestOf(t).asset, RequestOf(t).amount, 0, e.op, "pending-output")
  OBVIOUS
<1>2. PICK n : n = used + 1
  OBVIOUS
<1>3. PICK new : new = [m \in {n} |-> x]
  OBVIOUS
<1>4. PICK put : put = Put(Notes(t), new)
  OBVIOUS
<1>5. /\ e.pc = "begin" /\ used' = used + 1
      /\ SetNotes(t, put) /\ WantSync(t, "exec")
      /\ Prepare(t, "staging", "shield", {}, {}, new)
      /\ UNCHANGED <<queueVars, backup, chain>>
  BY <1>1, <1>2, <1>3, <1>4 DEF ExecuteShield, Fresh, Stage, At
<1>6. PICK j : exec' = [exec EXCEPT ![t] = j]
               /\ j = [e EXCEPT !.pc = "staging", !.call = "shield", !.ins = {}, !.order = {},
                                !.new = new]
  BY <1>5 DEF Prepare
<1>7. exec'[t] = j /\ \A u \in Tab \ {t} : exec'[u] = exec[u]
  BY <1>6, ExecSet
<1>8. /\ j.new = new /\ j.pc = "staging" /\ j.op = e.op /\ j.call = "shield" /\ j.ins = {}
      /\ j.order = {} /\ j.steps = e.steps /\ j.note = e.note
  BY <1>6 DEF NInv, IInv, Records, IsJob
<1>9. /\ used \in Nat /\ used' \in Nat /\ used <= used'
      /\ n \in 1..used' /\ n \notin 1..used /\ n \notin Owned
      /\ \A u \in Tab : n \notin Outs(u)
      /\ n \notin DOMAIN backup /\ \A u \in Tab : n \notin DOMAIN Notes(u)
  BY <1>2, <1>5, FreshNote
<1>10. DOMAIN new = {n} /\ new[n] = x /\ UNCHANGED txs
  BY <1>3, <1>5 DEF chain
<1>11. Requested
  BY <1>5, RequestedSame
<1>12. Later
  <2>1. Outs(t)' = {n}
    BY <1>7, <1>8, <1>10 DEF Outs
  <2> QED BY <1>7, <1>9, <1>10, <1>11, <2>1, LaterJob DEF Requested
<1>13. NoteOk(n, x)'
  <2>1. IsNote(x) /\ x.status = "active" /\ x.op = e.op /\ x.state = "pending-output"
    BY <1>1, NewNoteIs
  <2>2. ~Joining(t)'
    BY <1>7, <1>8 DEF Joining
  <2> QED BY <1>7, <1>8, <1>9, <1>10, <2>1, <2>2, NewIsOk
<1>14. DbStays /\ SyncsStay /\ Shapes'
  <2>1. NoteOk(n, new[n])'
    BY <1>10, <1>13 DEF NoteOk, CopyOk
  <2>2. Kept(Notes(t), put, backup) /\ StoreOk(put)'
    BY <1>4, <1>9, <1>10, <1>12, <2>1, PutIsWrite
  <2>3. "exec" \in Caller
    BY DEF Caller
  <2> QED BY <1>5, <1>11, <1>12, <2>2, <2>3, TabWrites DEF Requested
<1>15. JobOk(t)'
  <2>1. e.note \in Known(Notes(t))
    BY <1>5 DEF NInv, NotesInv, JobOk, Inputs, Reached
  <2>2. j.call \in Calls \ {"join"}
    BY <1>8 DEF Calls
  <2>3. DbKept
    BY <1>14, KeptMeans
  <2> QED BY <1>5, <1>7, <1>8, <1>9, <1>10, <1>12, <2>1, <2>2, <2>3, JobPrepared
<1> QED BY <1>5, <1>7, <1>12, <1>14, <1>15, ChainSame, Proceed

\* A note is reserved and its transaction prepared.
LEMMA ReserveProceeds ==
  ASSUME NInv, NEW t \in Tab, exec[t].pc \in {"begin", "reserve"},
         UNCHANGED <<queueVars, sync, backup, chain>>, used' \in Nat, used <= used',
         NEW n, SetNotes(t, Update(Notes(t), {n}, LAMBDA x : Reserve(x, exec[t].op))),
         IF RequestOf(t).kind = "cancel_order" THEN Unjoined(n) ELSE n \in Known(Notes(t)),
         NEW j, exec' = [exec EXCEPT ![t] = j], j.pc \in {"add", "submit"},
         j.call \in Calls \ {"join"}, j.ins \subseteq Known(Notes(t)),
         j.op = exec[t].op, j.note = exec[t].note, j.steps = exec[t].steps,
         \A m \in j.order : m \in 1..used /\ Unjoined(m),
         \A m \in DOMAIN j.new : m \in 1..used' /\ m \notin 1..used,
         \A m \in DOMAIN j.new : /\ IsNote(j.new[m]) /\ j.new[m].status = "active"
                                 /\ j.new[m].op = j.op /\ j.new[m].state = "pending-output"
  PROVE  Proceeds
<1> DEFINE e == exec[t]
<1>1. exec'[t] = j /\ \A u \in Tab \ {t} : exec'[u] = exec[u]
  BY ExecSet
<1>2. Requested /\ UNCHANGED txs
  BY RequestedSame DEF chain
<1>3. Later
  <2>1. Outs(t)' = DOMAIN j.new
    BY <1>1 DEF Outs
  <2>2. \A m \in Outs(t)' : m \notin 1..used
    BY <2>1
  <2> QED BY <1>1, <1>2, <2>2, LaterJob DEF Requested
<1>4. StoreOk(Notes(t))
  BY WalletAssumption DEF NInv, NotesInv, Stored, Notes
<1>5. e.op \in Op /\ operation[e.op] # "none"
  BY DEF NInv, NotesInv, JobOk, Reached
<1>6. PICK old : old = Notes(t)
  OBVIOUS
<1>7. PICK o : o = e.op
  OBVIOUS
<1>8. PICK new : new = Update(old, {n}, LAMBDA x : Reserve(x, o))
  OBVIOUS
<1>9. SetNotes(t, new)
  BY <1>6, <1>7, <1>8
<1>10. Advances(old, new)
  <2>1. /\ o \in Op /\ operation[o] # "none" /\ StoreOk(old)
        /\ IF request[o].kind = "cancel_order" THEN Unjoined(n) ELSE n \in Known(old)
    BY <1>4, <1>5, <1>6, <1>7 DEF RequestOf
  <2>2. Advances(old, Update(old, {n}, LAMBDA x : Reserve(x, o)))
    BY <2>1, ReserveAdvances
  <2> QED BY <1>8, <2>2
<1>11. DbStays /\ SyncsStay /\ Shapes'
  <2>1. Kept(Notes(t), new, backup) /\ StoreOk(new)'
    BY <1>3, <1>6, <1>10, AdvanceIsWrite
  <2> QED BY <1>2, <1>3, <1>9, <2>1, TabWrites DEF Requested
<1>12. JobOk(t)'
  <2>1. e.note \in Known(Notes(t))
    BY DEF NInv, NotesInv, JobOk, Inputs, Reached
  <2>2. DbKept
    BY <1>11, KeptMeans
  <2> QED BY <1>1, <1>2, <1>3, <2>1, <2>2, JobPrepared
<1> QED BY <1>1, <1>3, <1>11, <1>12, ChainSame, Proceed

\* The cancellation of an order that no join makes.
LEMMA CancelProceeds == ASSUME NInv, NEW t \in Tab, ExecuteCancel(t) PROVE Proceeds
<1> DEFINE e == exec[t]
           n == RequestOf(t).note
<1>1. /\ e.pc = "begin" /\ RequestOf(t).kind = "cancel_order" /\ IsJob(e)
      /\ UNCHANGED <<queueVars, sync, backup, chain>>
  BY DEF ExecuteCancel, At, NInv, IInv, Records
<1>2. CASE Throw(t) /\ UNCHANGED <<db, used>>
  <2>1. Requested
    BY <1>1, RequestedSame
  <2> QED BY <1>1, <1>2, <2>1, ThrowProceeds
<1>3. CASE /\ n \in DOMAIN Notes(t) /\ Notes(t)[n].cancel > 0 /\ Fresh(1)
           /\ SetNotes(t, Update(Notes(t), {n}, LAMBDA x : Reserve(x, e.op)))
           /\ Prepare(t, "add", "cancel_order", {}, {n},
                [m \in {used + 1} |->
                   NewNote(OtherAsset(Notes(t)[n].asset), Notes(t)[n].cancel, 0, e.op,
                           "pending-output")])
  <2>1. PICK x : x = NewNote(OtherAsset(Notes(t)[n].asset), Notes(t)[n].cancel, 0, e.op,
                             "pending-output")
    OBVIOUS
  <2>2. PICK new : new = [m \in {used + 1} |-> x]
    OBVIOUS
  <2>3. PICK j : exec' = [exec EXCEPT ![t] = j]
                 /\ j = [e EXCEPT !.pc = "add", !.call = "cancel_order", !.ins = {},
                                  !.order = {n}, !.new = new]
    BY <1>3, <2>1, <2>2 DEF Prepare
  <2>4. /\ j.new = new /\ j.pc = "add" /\ j.op = e.op /\ j.call = "cancel_order" /\ j.ins = {}
        /\ j.order = {n} /\ j.steps = e.steps /\ j.note = e.note
    BY <1>1, <2>3 DEF IsJob
  <2>5. n \in 1..used /\ Unjoined(n)
    <3>1. n \in 1..used /\ NoteOk(n, Notes(t)[n])
      BY <1>3, WalletAssumption DEF NInv, NotesInv, Stored, StoreOk, Notes
    <3> QED BY <1>3, <3>1 DEF NoteOk, CopyOk, Unjoined
  <2>6. used \in Nat /\ used' = used + 1 /\ used' \in Nat /\ used <= used'
    BY <1>3 DEF Fresh, NInv, Shapes
  <2>7. IsNote(x) /\ x.status = "active" /\ x.op = e.op /\ x.state = "pending-output"
    BY <2>1, NewNoteIs
  <2>8. /\ \A m \in DOMAIN j.new : m \in 1..used' /\ m \notin 1..used
        /\ \A m \in DOMAIN j.new :
             /\ IsNote(j.new[m]) /\ j.new[m].status = "active"
             /\ j.new[m].op = j.op /\ j.new[m].state = "pending-output"
    BY <2>2, <2>4, <2>6, <2>7
  <2>9. j.call \in Calls \ {"join"} /\ \A m \in j.order : m \in 1..used /\ Unjoined(m)
    BY <2>4, <2>5 DEF Calls
  <2>10. PICK k : k = n
    OBVIOUS
  <2>11. /\ SetNotes(t, Update(Notes(t), {k}, LAMBDA z : Reserve(z, exec[t].op)))
         /\ IF RequestOf(t).kind = "cancel_order" THEN Unjoined(k) ELSE k \in Known(Notes(t))
    BY <1>1, <1>3, <2>5, <2>10
  <2> QED BY <1>1, <2>3, <2>4, <2>6, <2>8, <2>9, <2>11, ReserveProceeds
<1> QED BY <1>2, <1>3 DEF ExecuteCancel

\* An order whose offer is on the chain.
LEMMA OrderProceeds == ASSUME NInv, NEW t \in Tab, ExecuteOrder(t) PROVE Proceeds
<1> DEFINE e == exec[t]
<1>1. /\ e.pc = "reserve" /\ RequestOf(t).kind = "place_order" /\ IsJob(e) /\ Fresh(1)
      /\ UNCHANGED <<queueVars, sync, backup, chain>>
  BY DEF ExecuteOrder, At, NInv, IInv, Records
<1>2. PICK x : x = NewNote(OtherAsset(RequestOf(t).asset), RequestOf(t).amount,
                           RequestOf(t).amount, e.op, "pending-output")
  OBVIOUS
<1>3. PICK new : new = [m \in {used + 1} |-> x]
  OBVIOUS
<1>4. PICK j : exec' = [exec EXCEPT ![t] = j]
               /\ j = [e EXCEPT !.pc = "add", !.call = "submit_order", !.ins = {e.note},
                                !.order = {}, !.new = new]
  BY <1>2, <1>3 DEF Prepare, ExecuteOrder
<1>5. /\ j.new = new /\ j.pc = "add" /\ j.op = e.op /\ j.call = "submit_order"
      /\ j.ins = {e.note} /\ j.order = {} /\ j.steps = e.steps /\ j.note = e.note
  BY <1>1, <1>4 DEF IsJob
<1>6. used \in Nat /\ used' = used + 1 /\ used' \in Nat /\ used <= used'
  BY <1>1 DEF Fresh, NInv, Shapes
<1>7. IsNote(x) /\ x.status = "active" /\ x.op = e.op /\ x.state = "pending-output"
  BY <1>2, NewNoteIs
<1>8. /\ \A m \in DOMAIN j.new : m \in 1..used' /\ m \notin 1..used
      /\ \A m \in DOMAIN j.new :
           /\ IsNote(j.new[m]) /\ j.new[m].status = "active"
           /\ j.new[m].op = j.op /\ j.new[m].state = "pending-output"
  BY <1>3, <1>5, <1>6, <1>7
<1>9. e.note \in Known(Notes(t))
  BY <1>1 DEF NInv, NotesInv, JobOk, Inputs
<1>10. /\ j.call \in Calls \ {"join"} /\ j.ins \subseteq Known(Notes(t))
       /\ \A m \in j.order : m \in 1..used /\ Unjoined(m)
  BY <1>5, <1>9 DEF Calls
<1>11. PICK k : k = e.note
  OBVIOUS
<1>12. /\ SetNotes(t, Update(Notes(t), {k}, LAMBDA z : Reserve(z, exec[t].op)))
       /\ IF RequestOf(t).kind = "cancel_order" THEN Unjoined(k) ELSE k \in Known(Notes(t))
  BY <1>1, <1>9, <1>11 DEF ExecuteOrder
<1> QED BY <1>1, <1>4, <1>5, <1>6, <1>8, <1>10, <1>12, ReserveProceeds

\* A withdrawal of a note that is on the chain.
LEMMA UnshieldProceeds == ASSUME NInv, NEW t \in Tab, ExecuteUnshield(t) PROVE Proceeds
<1> DEFINE e == exec[t]
<1>1. /\ e.pc = "reserve" /\ RequestOf(t).kind = "unshield" /\ IsJob(e)
      /\ UNCHANGED <<queueVars, sync, backup, chain, used>>
  BY DEF ExecuteUnshield, At, NInv, IInv, Records
<1>2. PICK j : exec' = [exec EXCEPT ![t] = j]
               /\ j = [e EXCEPT !.pc = "submit", !.call = "unshield", !.ins = {e.note},
                                !.order = {}, !.new = <<>>]
  BY DEF Prepare, ExecuteUnshield
<1>3. /\ j.new = <<>> /\ j.pc = "submit" /\ j.op = e.op /\ j.call = "unshield"
      /\ j.ins = {e.note} /\ j.order = {} /\ j.steps = e.steps /\ j.note = e.note
  BY <1>1, <1>2 DEF IsJob
<1>4. used \in Nat /\ used' \in Nat /\ used <= used'
  BY <1>1 DEF NInv, Shapes
<1>5. DOMAIN j.new = {}
  BY <1>3
<1>6. e.note \in Known(Notes(t))
  BY <1>1 DEF NInv, NotesInv, JobOk, Inputs
<1>7. /\ j.call \in Calls \ {"join"} /\ j.ins \subseteq Known(Notes(t))
      /\ \A m \in j.order : m \in 1..used /\ Unjoined(m)
  BY <1>3, <1>6 DEF Calls
<1>8. PICK k : k = e.note
  OBVIOUS
<1>9. /\ SetNotes(t, Update(Notes(t), {k}, LAMBDA z : Reserve(z, exec[t].op)))
      /\ IF RequestOf(t).kind = "cancel_order" THEN Unjoined(k) ELSE k \in Known(Notes(t))
  BY <1>1, <1>6, <1>8 DEF ExecuteUnshield
<1> QED BY <1>1, <1>2, <1>3, <1>4, <1>5, <1>7, <1>9, ReserveProceeds

\* A function on 1..k is a sequence of k elements.
LEMMA LenOfSeq ==
  ASSUME NEW k \in Nat, NEW s, s = [i \in 1..k |-> s[i]] PROVE Len(s) = k
<1> DEFINE S == {s[i] : i \in 1..k}
<1>1. \A i \in 1..k : s[i] \in S
  OBVIOUS
<1> HIDE DEF S
<1>2. [i \in 1..k |-> s[i]] \in Seq(S)
  BY <1>1, IsASeq
<1>3. s \in Seq(S)
  BY <1>2, Zenon
<1>4. Len(s) \in Nat /\ DOMAIN s = 1..Len(s)
  BY <1>3, LenProperties
<1>5. DOMAIN s = 1..k
  OBVIOUS
<1> QED BY <1>4, <1>5

\* The joins of notes that are on the chain.
LEMMA JoinsIsPlan ==
  ASSUME NEW notes, NEW ids, IsFiniteSet(ids), NEW target, NEW s \in Merges(notes, ids, target),
         NEW known, ids \cup {0} \subseteq known
  PROVE  IsPlan(Joins(notes, s, target), known)
<1>1. Cardinality(ids) \in Nat
  BY FS_CardinalityType
<1>2. PICK k \in 2..Cardinality(ids) : s \in [1..k -> ids]
  BY DEF Merges
<1>3. k \in Nat /\ k - 1 \in Nat /\ k > 1
  BY <1>1, <1>2
<1>4. Len(s) = k
  <2>1. s = [i \in 1..k |-> s[i]]
    BY <1>2
  <2> QED BY <1>3, <2>1, LenOfSeq
<1>5. PICK p : p = Joins(notes, s, target)
  OBVIOUS
<1>6. /\ p = [i \in 1..(k - 1) |-> p[i]]
      /\ \A i \in 1..(k - 1) : p[i].a = (IF i = 1 THEN s[1] ELSE 0) /\ p[i].b = s[i + 1]
  BY <1>4, <1>5 DEF Joins
<1>7. Len(p) = k - 1
  BY <1>3, <1>6, LenOfSeq
<1>8. \A i \in 1..(k - 1) : p[i].a \in known /\ p[i].b \in known
  <2>1. ASSUME NEW i \in 1..(k - 1) PROVE 1 \in 1..k /\ i + 1 \in 1..k
    BY <1>3
  <2>2. \A i \in 1..k : s[i] \in ids
    BY <1>2
  <2> QED BY <1>6, <2>1, <2>2
<1>9. IsPlan(p, known)
  BY <1>3, <1>6, <1>7, <1>8 DEF IsPlan
<1> QED BY <1>5, <1>9

\* The split of a note that is on the chain.
LEMMA SplitIsPlan ==
  ASSUME NEW notes, NEW n, NEW target, NEW known, {n, 0} \subseteq known
  PROVE  IsPlan(Split(notes, n, target), known)
<1>1. PICK x : x = [a |-> n, b |-> 0, target |-> target, change |-> notes[n].amount - target]
  OBVIOUS
<1>2. PICK p : p = <<x>>
  OBVIOUS
<1>3. p = Split(notes, n, target) /\ x.a = n /\ x.b = 0
  BY <1>1, <1>2 DEF Split
<1>4. Len(p) = 1 /\ p = [i \in 1..1 |-> p[i]] /\ \A i \in 1..1 : p[i] = x
  BY <1>2
<1>5. IsPlan(p, known)
  BY <1>3, <1>4 DEF IsPlan
<1> QED BY <1>3, <1>5

\* A plan spends notes that are on the chain.
LEMMA PlanIsGood ==
  ASSUME NEW notes, StoreOk(notes), used \in Nat, NEW asset, NEW target,
         NEW plan \in PlanAssembly(notes, asset, target)
  PROVE  plan.note \in Known(notes) /\ IsPlan(plan.steps, Known(notes))
<1> DEFINE ids == SpendableNotes(notes, asset)
<1>1. ids \subseteq Known(notes) /\ 0 \in Known(notes)
  BY DEF SpendableNotes, Known
<1>2. IsFiniteSet(ids)
  <2>1. ids \subseteq 1..used
    BY DEF SpendableNotes, StoreOk
  <2>2. IsFiniteSet(1..used)
    BY FS_Interval
  <2> QED BY <2>1, <2>2, FS_Subset
<1> HIDE DEF ids
<1>3. \/ \E n \in ids : plan = [note |-> n, steps |-> <<>>]
      \/ \E n \in ids : plan = [note |-> 0, steps |-> Split(notes, n, target)]
      \/ \E s \in Merges(notes, ids, target) :
           plan = [note |-> 0, steps |-> Joins(notes, s, target)]
  BY DEF PlanAssembly, ids
<1>4. ASSUME NEW n \in ids, plan = [note |-> n, steps |-> <<>>]
      PROVE  plan.note \in Known(notes) /\ IsPlan(plan.steps, Known(notes))
  <2>1. plan.note = n /\ plan.steps = <<>>
    BY <1>4
  <2> QED BY <1>1, <2>1, NoPlan
<1>5. ASSUME NEW n \in ids, plan = [note |-> 0, steps |-> Split(notes, n, target)]
      PROVE  plan.note \in Known(notes) /\ IsPlan(plan.steps, Known(notes))
  <2>1. plan.note = 0 /\ plan.steps = Split(notes, n, target)
    BY <1>5
  <2>2. IsPlan(Split(notes, n, target), Known(notes))
    BY <1>1, SplitIsPlan
  <2> QED BY <1>1, <2>1, <2>2
<1>6. ASSUME NEW s \in Merges(notes, ids, target),
             plan = [note |-> 0, steps |-> Joins(notes, s, target)]
      PROVE  plan.note \in Known(notes) /\ IsPlan(plan.steps, Known(notes))
  <2>1. plan.note = 0 /\ plan.steps = Joins(notes, s, target)
    BY <1>6
  <2>2. IsPlan(Joins(notes, s, target), Known(notes))
    BY <1>1, <1>2, JoinsIsPlan
  <2> QED BY <1>1, <2>1, <2>2
<1> QED BY <1>3, <1>4, <1>5, <1>6

\* A plan is made, or there is none.
LEMMA ExactProceeds == ASSUME NInv, NEW t \in Tab, ExactInput(t) PROVE Proceeds
<1> DEFINE e == exec[t]
<1>1. /\ e.pc = "begin" /\ IsJob(e) /\ JobOk(t)
      /\ UNCHANGED <<queueVars, db, sync, backup, used, chain>>
  BY DEF ExactInput, At, NInv, IInv, Records, NotesInv
<1>2. Requested
  BY <1>1, RequestedSame
<1>3. CASE Throw(t)
  BY <1>1, <1>2, <1>3, ThrowProceeds
<1>4. CASE \E plan \in PlanAssembly(Notes(t), RequestOf(t).asset, RequestOf(t).amount) :
             exec' = [exec EXCEPT ![t] =
               [@ EXCEPT !.pc = IF plan.steps = <<>> THEN "reserve" ELSE "join",
                         !.note = plan.note, !.steps = plan.steps]]
  <2>1. PICK plan \in PlanAssembly(Notes(t), RequestOf(t).asset, RequestOf(t).amount) :
          exec' = [exec EXCEPT ![t] =
            [e EXCEPT !.pc = IF plan.steps = <<>> THEN "reserve" ELSE "join",
                      !.note = plan.note, !.steps = plan.steps]]
    BY <1>4
  <2>2. plan.note \in Known(Notes(t)) /\ IsPlan(plan.steps, Known(Notes(t)))
    <3>1. StoreOk(Notes(t)) /\ used \in Nat
      BY WalletAssumption DEF NInv, NotesInv, Stored, Shapes, Notes
    <3> QED BY <2>1, <3>1, PlanIsGood
  <2>3. PICK s : s = plan.steps
    OBVIOUS
  <2>4. PICK m : m = plan.note
    OBVIOUS
  <2>5. PICK j : /\ exec' = [exec EXCEPT ![t] = j]
                 /\ j = [e EXCEPT !.pc = IF s = <<>> THEN "reserve" ELSE "join",
                                  !.note = m, !.steps = s]
    BY <2>1, <2>3, <2>4
  <2>6. exec'[t] = j /\ \A u \in Tab \ {t} : exec'[u] = exec[u]
    BY <2>5, ExecSet
  <2>7. /\ j.pc = (IF s = <<>> THEN "reserve" ELSE "join") /\ j.op = e.op /\ j.call = e.call
        /\ j.note = m /\ j.ins = e.ins /\ j.order = e.order /\ j.new = e.new /\ j.steps = s
    BY <1>1, <2>5 DEF IsJob
  <2>8. Later
    <3>1. used \in Nat /\ used <= used /\ UNCHANGED txs
      BY <1>1 DEF NInv, Shapes, chain
    <3>2. j.pc # "add"
      BY <2>7
    <3> QED BY <1>1, <1>2, <2>6, <2>7, <3>1, <3>2, LaterJob DEF Requested, Joining
  <2>9. DbStays /\ SyncsStay /\ Shapes' /\ ChainGrows
    BY <1>1, <1>2, <2>8, TabWrites, ChainSame DEF Requested
  <2>10. ~Joining(t) /\ ~Joining(t)'
    BY <1>1, <2>6, <2>7 DEF JobOk, Reached, Joining
  <2>11. Apart(t)'
    BY <2>6, <2>7, <2>8, <2>10, ApartStays
  <2>12. PICK known : known = Known(Notes(t))
    OBVIOUS
  <2>13. Known(Notes(t))' = known
    BY <1>1, <2>12 DEF Known, Notes
  <2>14. Inputs(t)'
    <3>1. IsPlan(s, known) /\ m \in known /\ e.ins \subseteq known
      BY <1>1, <2>2, <2>3, <2>4, <2>12 DEF JobOk, Inputs
    <3>2. IsPlan(exec[t].steps, Known(Notes(t)))'
      BY <2>6, <2>7, <2>13, <3>1 DEF IsPlan
    <3> QED BY <2>6, <2>7, <2>10, <2>13, <3>1, <3>2 DEF Inputs
  <2>15. Reached(t)'
    <3>1. e.op \in Op /\ operation'[e.op] # "none"
      BY <1>1, <2>8 DEF JobOk, Reached, Later
    <3>2. j.pc \in {"reserve", "join"}
      BY <2>7
    <3> QED BY <2>6, <2>7, <2>10, <3>1, <3>2 DEF Reached
  <2> QED BY <1>1, <2>6, <2>8, <2>9, <2>11, <2>14, <2>15, Proceed DEF JobOk
<1> QED BY <1>3, <1>4 DEF ExactInput

\* A split or a join is prepared and what it makes stored.
LEMMA JoinProceeds == ASSUME NInv, NEW t \in Tab, ExecuteJoin(t) PROVE Proceeds
<1> DEFINE e == exec[t]
<1>1. e.pc = "join" /\ IsJob(e) /\ JobOk(t) /\ UNCHANGED <<queueVars, backup, chain>>
  BY DEF ExecuteJoin, At, NInv, IInv, Records, NotesInv
<1>2. PICK step : step = Head(e.steps)
  OBVIOUS
<1>3. PICK a : a = IF step.a = 0 THEN e.note ELSE step.a
  OBVIOUS
<1>4. PICK k : k = IF step.change > 0 THEN 2 ELSE 1
  OBVIOUS
<1>5. PICK lo : lo = used + 1
  OBVIOUS
<1>6. PICK ids : ids = (used + 1)..(used + k)
  OBVIOUS
<1>7. PICK new : new = [n \in ids |->
                          NewNote(RequestOf(t).asset,
                                  IF n = used + 1 THEN step.target ELSE step.change,
                                  0, 0, "none")]
  OBVIOUS
<1>8. PICK put : put = Put(Notes(t), new)
  OBVIOUS
<1>9. /\ used' = used + k /\ SetNotes(t, put) /\ WantSync(t, "exec")
      /\ exec' = [exec EXCEPT ![t] =
           [e EXCEPT !.pc = "staging", !.call = "join", !.note = lo,
                     !.ins = {a, step.b} \ {0}, !.new = new]]
  BY <1>2, <1>3, <1>4, <1>5, <1>6, <1>7, <1>8 DEF ExecuteJoin, Fresh, Stage
<1>10. PICK j : /\ exec' = [exec EXCEPT ![t] = j]
                /\ j = [e EXCEPT !.pc = "staging", !.call = "join", !.note = lo,
                                 !.ins = {a, step.b} \ {0}, !.new = new]
  BY <1>9
<1>11. exec'[t] = j /\ \A u \in Tab \ {t} : exec'[u] = exec[u]
  BY <1>10, ExecSet
<1>12. /\ j.pc = "staging" /\ j.op = e.op /\ j.call = "join" /\ j.note = lo
       /\ j.ins = {a, step.b} \ {0} /\ j.order = e.order /\ j.new = new /\ j.steps = e.steps
  BY <1>1, <1>10 DEF IsJob
<1>13. Requested /\ UNCHANGED txs
  BY <1>1, RequestedSame DEF chain
<1>14. used \in Nat /\ k \in Nat /\ used' \in Nat /\ used <= used' /\ lo \in ids
  BY <1>4, <1>5, <1>6, <1>9 DEF NInv, Shapes
<1>15. DOMAIN new = ids /\ Outs(t)' = ids /\ Joining(t)'
  BY <1>7, <1>11, <1>12 DEF Outs, Joining
<1>16. ASSUME NEW n \in ids
       PROVE  /\ n \in 1..used' /\ n \notin 1..used /\ n \notin Owned
              /\ \A u \in Tab : n \notin Outs(u)
              /\ n \notin DOMAIN backup /\ \A u \in Tab : n \notin DOMAIN Notes(u)
  BY <1>6, <1>9, <1>14, FreshNotes
<1>17. Later
  BY <1>11, <1>13, <1>14, <1>15, <1>16, LaterJob DEF Requested
<1>18. ASSUME NEW n \in ids PROVE NoteOk(n, new[n])'
  <2>1. PICK x : x = NewNote(RequestOf(t).asset,
                             IF n = used + 1 THEN step.target ELSE step.change, 0, 0, "none")
    OBVIOUS
  <2>2. new[n] = x
    BY <1>7, <2>1
  <2>3. IsNote(x) /\ x.status = "active" /\ x.cancel = 0 /\ x.state = "none"
    BY <2>1, NewNoteIs
  <2>4. NoteOk(n, x)'
    BY <1>11, <1>12, <1>13, <1>16, <2>3, NewIsOk
  <2> QED BY <2>2, <2>4 DEF NoteOk, CopyOk
<1>19. DbStays /\ SyncsStay /\ Shapes'
  <2>1. Kept(Notes(t), put, backup) /\ StoreOk(put)'
    BY <1>8, <1>15, <1>16, <1>17, <1>18, PutIsWrite
  <2>2. "exec" \in Caller
    BY DEF Caller
  <2> QED BY <1>9, <1>13, <1>17, <2>1, <2>2, TabWrites DEF Requested
<1>20. Apart(t)'
  <2>1. \A n \in exec'[t].order : n \in 1..used /\ Unjoined(n)
    BY <1>1, <1>11, <1>12 DEF JobOk, Apart, Unjoined
  <2> QED BY <1>11, <1>13, <1>15, <1>16, <1>17, <2>1, ApartFresh
<1>21. PICK known : known = Known(Notes(t))
  OBVIOUS
<1>22. known \subseteq Known(Notes(t))'
  <2>1. DbKept
    BY <1>19, KeptMeans
  <2> QED BY <1>21, <2>1, KnownGrows
<1>23. e.steps # <<>> /\ IsPlan(e.steps, known) /\ {a, step.b} \subseteq known
  <2>1. e.steps # <<>> /\ IsPlan(e.steps, known) /\ e.note \in known
    BY <1>1, <1>21 DEF JobOk, Inputs
  <2>2. 1 \in 1..Len(e.steps) /\ step = e.steps[1]
    <3>1. Len(e.steps) # 0
      <4>1. ASSUME Len(e.steps) = 0 PROVE FALSE
        <5>1. e.steps = [i \in {} |-> e.steps[i]]
          BY <2>1, <4>1 DEF IsPlan
        <5> QED BY <2>1, <5>1
      <4> QED BY <4>1
    <3> QED BY <1>2, <2>1, <3>1 DEF IsPlan
  <2>3. step.a \in known /\ step.b \in known
    BY <2>1, <2>2 DEF IsPlan
  <2> QED BY <1>3, <2>1, <2>3
<1>24. Inputs(t)'
  <2>1. IsPlan(exec[t].steps, Known(Notes(t)))'
    BY <1>11, <1>12, <1>22, <1>23, PlanStays DEF IsPlan
  <2>2. exec'[t].ins \subseteq Known(Notes(t))'
    BY <1>11, <1>12, <1>22, <1>23
  <2> QED BY <1>11, <1>12, <1>14, <1>15, <1>23, <2>1, <2>2 DEF Inputs
<1>25. Reached(t)'
  <2>1. e.op \in Op /\ operation'[e.op] # "none"
    BY <1>1, <1>17 DEF JobOk, Reached, Later
  <2> QED BY <1>11, <1>12, <2>1 DEF Reached, Calls
<1> QED BY <1>1, <1>11, <1>17, <1>19, <1>20, <1>24, <1>25, ChainSame, Proceed DEF JobOk

\* The output of an order or of a cancellation is stored: nobody has it yet.
LEMMA StageProceeds == ASSUME NInv, NEW t \in Tab, StageOutput(t) PROVE Proceeds
<1> DEFINE e == exec[t]
<1>1. /\ e.pc = "add" /\ IsJob(e) /\ JobOk(t) /\ UNCHANGED <<queueVars, backup, used, chain>>
      /\ exec' = [exec EXCEPT ![t] = [e EXCEPT !.pc = "staging"]]
  BY DEF StageOutput, At, Goto, NInv, IInv, Records, NotesInv
<1>2. PICK put : put = Put(Notes(t), e.new)
  OBVIOUS
<1>3. SetNotes(t, put) /\ WantSync(t, "exec")
  BY <1>2 DEF StageOutput, Stage
<1>4. exec'[t] = [e EXCEPT !.pc = "staging"] /\ \A u \in Tab \ {t} : exec'[u] = exec[u]
  BY <1>1, ExecSet
<1>5. /\ exec'[t].pc = "staging" /\ exec'[t].op = e.op /\ exec'[t].call = e.call
      /\ exec'[t].new = e.new
  BY <1>1, <1>4 DEF IsJob
<1>6. ~Joining(t) /\ ~Joining(t)'
  BY <1>1, <1>5 DEF JobOk, Reached, Joining
<1>7. Requested /\ UNCHANGED txs
  BY <1>1, RequestedSame DEF chain
<1>8. Later
  <2>1. used \in Nat /\ used <= used
    BY DEF NInv, Shapes
  <2> QED BY <1>1, <1>4, <1>5, <1>6, <1>7, <2>1, LaterJob DEF Requested
<1>9. ASSUME NEW n \in DOMAIN e.new
      PROVE  /\ n \notin DOMAIN Notes(t) /\ n \notin DOMAIN backup
             /\ n \in 1..used' /\ NoteOk(n, e.new[n])'
  <2>1. n \in Outs(t) /\ n \in 1..used'
    BY <1>1 DEF Outs, JobOk, Apart
  <2>2. n \notin Owned /\ \A u \in Tab \ {t} : n \notin Outs(u)
    BY <1>1, <1>6, <2>1 DEF JobOk, Apart
  <2>3. ASSUME NEW notes, StoreOk(notes) PROVE n \notin DOMAIN notes
    BY <1>1, <2>1, <2>3 DEF StoreOk, NoteOk, CopyOk
  <2>4. n \notin DOMAIN Notes(t) /\ n \notin DOMAIN backup
    BY <2>3, WalletAssumption DEF NInv, NotesInv, Stored, Notes
  <2>5. PICK x : x = e.new[n]
    OBVIOUS
  <2>6. IsNote(x) /\ x.status = "active" /\ x.op = e.op /\ x.state = "pending-output"
    BY <1>1, <2>1, <2>5 DEF JobOk, Reached
  <2>7. NoteOk(n, x)'
    BY <1>4, <1>5, <1>6, <1>7, <2>2, <2>6, NewIsOk
  <2>8. NoteOk(n, e.new[n])'
    BY <1>5, <2>5, <2>7 DEF NoteOk, CopyOk
  <2> QED BY <2>1, <2>4, <2>8
<1>10. DbStays /\ SyncsStay /\ Shapes'
  <2>1. PICK new : new = e.new
    OBVIOUS
  <2>2. \A n \in DOMAIN new : /\ n \notin DOMAIN Notes(t) /\ n \notin DOMAIN backup
                              /\ n \in 1..used' /\ NoteOk(n, new[n])'
    BY <1>5, <1>9, <2>1 DEF NoteOk, CopyOk
  <2>3. Kept(Notes(t), put, backup) /\ StoreOk(put)'
    BY <1>2, <1>8, <2>1, <2>2, PutIsWrite
  <2>4. "exec" \in Caller
    BY DEF Caller
  <2> QED BY <1>3, <1>7, <1>8, <2>3, <2>4, TabWrites DEF Requested
<1>11. JobOk(t)'
  <2>1. DbKept /\ ChainGrows
    BY <1>1, <1>10, KeptMeans, ChainSame
  <2>2. e.call \in Calls
    BY <1>1 DEF JobOk, Reached
  <2> QED BY <1>1, <1>4, <1>6, <1>8, <2>1, <2>2, JobGoes
<1> QED BY <1>1, <1>4, <1>8, <1>10, <1>11, ChainSame, Proceed

\* What is minted stays.
LEMMA MintedGrows ==
  ASSUME filled \subseteq filled',
         \A i \in Landed : /\ i \in Landed' /\ txs'[i].outs = txs[i].outs
                           /\ txs'[i].method = txs[i].method
  PROVE  \A n \in Minted : n \in Minted'
<1>1. ASSUME NEW n \in Minted
      PROVE  \/ n \in {m \in DOMAIN StartNotes : StartNotes[m].cancel = 0} \cup filled
             \/ \E i \in Landed : txs[i].method # "submit_order" /\ n \in txs[i].outs
  BY DEF Minted
<1>2. ASSUME NEW i \in Landed, txs[i].method # "submit_order", NEW n \in txs[i].outs
      PROVE  n \in Minted'
  <2>1. i \in Landed' /\ txs'[i].method # "submit_order" /\ n \in txs'[i].outs
    BY <1>2
  <2> QED BY <2>1 DEF Minted
<1>3. \A n \in {m \in DOMAIN StartNotes : StartNotes[m].cancel = 0} \cup filled : n \in Minted'
  BY DEF Minted
<1> QED BY <1>1, <1>2, <1>3

\* A transaction is sent: what a join makes is owned from here on.
LEMMA SubmitProceeds == ASSUME NInv, NEW t \in Tab, Submit(t) PROVE Proceeds
<1> DEFINE e == exec[t]
           x == [op |-> e.op, method |-> e.call, ins |-> e.ins, outs |-> Outs(t),
                 order |-> e.order, status |-> "pending"]
<1>1. /\ e.pc = "submit" /\ IsJob(e) /\ JobOk(t)
      /\ UNCHANGED <<queueVars, db, sync, backup, used, filled>> /\ txs' = Append(txs, x)
      /\ exec' = [exec EXCEPT ![t] = [e EXCEPT !.pc = "wait", !.tx = Len(txs) + 1]]
  BY DEF Submit, SubmitContractCall, Relay, Send, At, NInv, IInv, Records, NotesInv
<1>2. x.method = e.call /\ x.outs = Outs(t) /\ x.status = "pending"
  OBVIOUS
<1> HIDE DEF x
<1>3. /\ Len(txs) \in Nat /\ DOMAIN txs = 1..Len(txs) /\ Len(txs') = Len(txs) + 1
      /\ txs' = [i \in 1..Len(txs') |-> txs'[i]] /\ txs'[Len(txs) + 1] = x
      /\ \A i \in DOMAIN txs : txs'[i] = txs[i]
  BY <1>1, Sent DEF NInv
<1>4. DOMAIN txs' = 1..(Len(txs) + 1)
  BY <1>3
<1>5. \A i \in DOMAIN txs' : i \in DOMAIN txs \/ i = Len(txs) + 1
  BY <1>3, <1>4
<1>6. PICK j : exec' = [exec EXCEPT ![t] = j] /\ j = [e EXCEPT !.pc = "wait", !.tx = Len(txs) + 1]
  BY <1>1
<1>7. exec'[t] = j /\ \A u \in Tab \ {t} : exec'[u] = exec[u]
  BY <1>6, ExecSet
<1>8. /\ j.pc = "wait" /\ j.tx = Len(txs) + 1 /\ j.op = e.op /\ j.call = e.call
      /\ j.note = e.note /\ j.ins = e.ins /\ j.order = e.order /\ j.new = e.new
      /\ j.steps = e.steps
  BY <1>1, <1>6 DEF IsJob
<1>9. Outs(t)' = Outs(t) /\ Joining(t)' = Joining(t)
  BY <1>7, <1>8 DEF Outs, Joining
<1>10. Requested
  BY <1>1, RequestedSame
<1>11. Later
  <2>1. used \in Nat /\ used <= used
    BY DEF NInv, Shapes
  <2>2. ASSUME NEW n \in Owned' PROVE n \in Owned \/ ~Unjoined(n)
    <3>1. \/ n \in DOMAIN StartNotes
          \/ \E i \in DOMAIN txs' : txs'[i].method = "join" /\ n \in txs'[i].outs
      BY DEF Owned
    <3>2. ASSUME NEW i \in DOMAIN txs', txs'[i].method = "join", n \in txs'[i].outs,
                 i \notin DOMAIN txs
          PROVE  Joining(t) /\ n \in Outs(t)
      BY <1>2, <1>3, <1>5, <3>2 DEF Joining
    <3> QED BY <1>3, <3>1, <3>2 DEF Owned, Unjoined
  <2>3. ASSUME NEW u \in Tab, NEW n \in Outs(u)' \cap 1..used
        PROVE  /\ n \in Outs(u) /\ exec'[u].op = exec[u].op
               /\ Joining(u)' => Joining(u)
               /\ exec'[u].pc = "add" => exec[u].pc = "add"
    BY <1>7, <1>8, <1>9 DEF Outs, Joining
  <2> QED BY <1>1, <1>10, <2>1, <2>2, <2>3 DEF Later, Requested
<1>12. ChainGrows
  <2>1. \A i \in DOMAIN txs : i \in DOMAIN txs' /\ txs'[i] = txs[i]
    BY <1>3, <1>4
  <2>2. \A i \in Landed : i \in Landed' /\ txs'[i] = txs[i]
    BY <2>1 DEF Landed
  <2>3. \A n \in Minted : n \in Minted'
    BY <1>1, <2>2, MintedGrows
  <2> QED BY <2>1, <2>3 DEF ChainGrows
<1>13. DbStays /\ SyncsStay /\ Shapes'
  BY <1>1, <1>10, <1>11, TabWrites DEF Requested
<1>14. Apart(t)'
  BY <1>7, <1>8, <1>9, <1>11, ApartStays
<1>15. PICK known : known = Known(Notes(t))
  OBVIOUS
<1>16. Known(Notes(t))' = known
  BY <1>1, <1>15 DEF Known, Notes
<1>17. Inputs(t)'
  <2>1. IsPlan(e.steps, known) /\ Inputs(t)
    BY <1>1, <1>15 DEF JobOk, Inputs
  <2>2. IsPlan(exec[t].steps, Known(Notes(t)))'
    BY <1>7, <1>8, <1>16, <2>1 DEF IsPlan
  <2> QED BY <1>1, <1>7, <1>8, <1>9, <1>15, <1>16, <2>1, <2>2 DEF Inputs
<1>18. Reached(t)'
  <2>1. e.op \in Op /\ operation'[e.op] # "none" /\ e.call \in Calls
    BY <1>1, <1>11 DEF JobOk, Reached, Later
  <2>2. txs'[j.tx].outs = Outs(t)'
    BY <1>2, <1>3, <1>8, <1>9
  <2> QED BY <1>7, <1>8, <2>1, <2>2 DEF Reached
<1> QED BY <1>1, <1>7, <1>11, <1>12, <1>13, <1>14, <1>17, <1>18, Proceed DEF JobOk

\* What succeeded is written.
LEMMA SettleProceeds == ASSUME NInv, NEW t \in Tab, Settle(t) PROVE Proceeds
<1> DEFINE e == exec[t]
<1>1. /\ e.pc = "settle" /\ JobOk(t) /\ UNCHANGED <<queueVars, backup, used, chain>>
      /\ exec' = [exec EXCEPT ![t] = [e EXCEPT !.pc = "settling"]]
      /\ WantSync(t, "exec") /\ "exec" \in Caller
  BY DEF Settle, At, Goto, NInv, NotesInv, Caller
<1>2. PICK new : new = SettledNotes(Notes(t), e)
  OBVIOUS
<1>3. SetNotes(t, new)
  BY <1>2 DEF Settle
<1>4. Advances(Notes(t), new)
  <2>1. StoreOk(Notes(t))
    BY WalletAssumption DEF NInv, NotesInv, Stored, Notes
  <2>2. /\ e.call \in Calls /\ e.ins \subseteq Known(Notes(t))
        /\ \A n \in e.order : Unjoined(n)
    BY <1>1 DEF JobOk, Inputs, Reached, Apart, Unjoined
  <2> QED BY <1>2, <2>1, <2>2, SettledAdvances
<1>5. /\ Joining(t) => e.steps # <<>> /\ e.note \in Minted
      /\ e.call \in Calls
  BY <1>1 DEF JobOk, Inputs, Reached
<1> QED BY <1>1, <1>3, <1>4, <1>5, RequestedSame, JobWrites

\* A sync the executor awaited is over.
LEMMA ResumeProceeds == ASSUME NInv, NEW t \in Tab, ResumeAfterSync(t) PROVE Proceeds
<1> DEFINE e == exec[t]
<1>1. /\ e.pc \in {"staging", "settling", "confirming", "rolling"} /\ JobOk(t) /\ IsJob(e)
      /\ UNCHANGED <<queueVars, backup, used, chain>>
      /\ SyncReturns(t, "exec") /\ "exec" \in Caller
  BY DEF ResumeAfterSync, NInv, IInv, Records, NotesInv, Caller
<1>2. PICK ok \in BOOLEAN : ok = Synced(t, "exec")
  BY DEF Synced
<1>3. exec' = [exec EXCEPT ![t] = AfterSync(e, ok)]
  BY <1>2 DEF ResumeAfterSync
<1>4. UNCHANGED db \/ \E new : SetNotes(t, new) /\ Advances(Notes(t), new)
  <2>1. StoreOk(Notes(t))
    BY WalletAssumption DEF NInv, NotesInv, Stored, Notes
  <2>2. PICK ids : ids = Outs(t)
    OBVIOUS
  <2>3. PICK new : new = Update(Notes(t), ids, LAMBDA x : x)
    OBVIOUS
  <2>4. UNCHANGED db \/ SetNotes(t, new)
    BY <2>2, <2>3 DEF ResumeAfterSync
  <2>5. Advances(Notes(t), new)
    <3>1. Advances(Notes(t), Update(Notes(t), ids, LAMBDA x : x))
      BY <2>1, UpdatesAdvance
    <3> QED BY <2>3, <3>1
  <2> QED BY <2>4, <2>5
<1>5. Joining(t) => e.steps # <<>>
  BY <1>1 DEF JobOk, Inputs
<1>6. e.pc \in {"staging", "settling"} => e.call \in Calls
  BY <1>1 DEF JobOk, Reached
<1>7. e.pc = "settling" /\ Joining(t) => e.note \in Minted
  BY <1>1 DEF JobOk, Reached
<1>8. PICK j : j = AfterSync(e, ok)
  OBVIOUS
<1>9. ASSUME \/ j = NoJob
             \/ \E p \in {"fail", "finish"} : j = Keep(e, p)
             \/ \E p \in {"staging", "submit", "settle", "settling", "confirm", "confirming",
                          "complete", "rollback", "rolling"} :
                  /\ j = [e EXCEPT !.pc = p]
                  /\ Joining(t) => e.steps # <<>>
                  /\ p \in {"staging", "submit", "settle", "settling"} => e.call \in Calls
                  /\ Joining(t) /\ p \in {"settle", "settling", "confirm"} => e.note \in Minted
      PROVE  Proceeds
  <2>1. exec' = [exec EXCEPT ![t] = j] /\ e.pc # "idle"
    BY <1>1, <1>3, <1>8
  <2> QED BY <1>1, <1>4, <1>9, <2>1, RequestedSame, JobWrites
<1>10. CASE e.pc = "rolling"
  BY <1>8, <1>9, <1>10 DEF AfterSync, AfterRollback
<1>11. CASE e.pc = "confirming"
  BY <1>8, <1>9, <1>11 DEF AfterSync
<1>12. CASE e.pc = "staging"
  <2>1. j = IF ok THEN [e EXCEPT !.pc = "submit"] ELSE Keep(e, "fail")
    BY <1>8, <1>12 DEF AfterSync, AfterUpload
  <2> QED BY <1>5, <1>6, <1>9, <1>12, <2>1
<1>13. CASE e.pc = "settling" /\ ~ok
  BY <1>8, <1>9, <1>13 DEF AfterSync
<1>14. CASE e.pc = "settling" /\ ok /\ e.call \in {"join", "shield"}
  <2>1. j = [e EXCEPT !.pc = "confirm"]
    BY <1>8, <1>14 DEF AfterSync
  <2> QED BY <1>5, <1>7, <1>9, <1>14, <2>1
<1>15. CASE e.pc = "settling" /\ ok /\ e.call \in {"submit_order", "cancel_order", "unshielded"}
  <2>1. j = Keep(e, "finish")
    BY <1>8, <1>15 DEF AfterSync
  <2> QED BY <1>9, <2>1
<1>16. CASE e.pc = "settling" /\ ok /\ e.call = "unshield"
  <2>1. j = [e EXCEPT !.pc = "settle", !.call = "unshielded"]
    BY <1>8, <1>16 DEF AfterSync
  <2>2. /\ j.pc = "settle" /\ j.op = e.op /\ j.call = "unshielded" /\ j.note = e.note
        /\ j.ins = e.ins /\ j.order = e.order /\ j.new = e.new /\ j.steps = e.steps
    BY <1>1, <2>1 DEF IsJob
  <2>3. exec'[t] = j /\ \A u \in Tab \ {t} : exec'[u] = exec[u]
    BY <1>3, <1>8, ExecSet
  <2>4. ~Joining(t) /\ ~Joining(t)' /\ Outs(t)' = Outs(t)
    BY <1>16, <2>2, <2>3 DEF Joining, Outs
  <2>5. Requested /\ ChainGrows
    BY <1>1, RequestedSame, ChainSame
  <2>6. Later
    <3>1. used \in Nat /\ used <= used /\ UNCHANGED txs
      BY <1>1 DEF NInv, Shapes, chain
    <3> QED BY <1>1, <2>2, <2>3, <2>4, <2>5, <3>1, LaterJob DEF Requested
  <2>7. ASSUME DbKept PROVE JobOk(t)'
    <3>1. Apart(t)'
      BY <2>2, <2>3, <2>4, <2>6, ApartStays
    <3>2. PICK known : known = Known(Notes(t))
      OBVIOUS
    <3>3. known \subseteq Known(Notes(t))'
      BY <2>7, <3>2, KnownGrows
    <3>4. IsPlan(e.steps, known) /\ e.ins \subseteq known /\ e.note \in known
      BY <1>1, <2>4, <3>2 DEF JobOk, Inputs
    <3>5. Inputs(t)'
      <4>1. IsPlan(exec[t].steps, Known(Notes(t)))'
        BY <2>2, <2>3, <3>3, <3>4, PlanStays DEF IsPlan
      <4> QED BY <2>2, <2>3, <2>4, <3>3, <3>4, <4>1 DEF Inputs
    <3>6. Reached(t)'
      <4>1. e.op \in Op /\ operation'[e.op] # "none"
        BY <1>1, <2>6 DEF JobOk, Reached, Later
      <4> QED BY <2>2, <2>3, <2>4, <4>1 DEF Reached, Calls
    <3> QED BY <3>1, <3>5, <3>6 DEF JobOk
  <2> QED BY <1>1, <1>4, <2>3, <2>5, <2>6, <2>7, WriteProceeds
<1> QED BY <1>1, <1>2, <1>6, <1>10, <1>11, <1>12, <1>13, <1>14, <1>15, <1>16 DEF Calls

\* What is left of a plan.
LEMMA PlanTail ==
  ASSUME NEW steps, NEW known, steps # <<>>, IsPlan(steps, known),
         NEW rest, rest = Tail(steps)
  PROVE  IsPlan(rest, known)
<1> DEFINE S == {steps[i] : i \in 1..Len(steps)}
<1>1. Len(steps) \in Nat /\ steps = [i \in 1..Len(steps) |-> steps[i]]
      /\ \A i \in 1..Len(steps) : steps[i].a \in known /\ steps[i].b \in known
  BY DEF IsPlan
<1>2. \A i \in 1..Len(steps) : steps[i] \in S
  OBVIOUS
<1>3. \A x \in S : x.a \in known /\ x.b \in known
  BY <1>1
<1> HIDE DEF S
<1>4. [i \in 1..Len(steps) |-> steps[i]] \in Seq(S)
  BY <1>1, <1>2, IsASeq
<1>5. steps \in Seq(S)
  BY <1>1, <1>4, Zenon
<1>6. rest \in Seq(S)
  BY <1>5, HeadTailProperties
<1>7. Len(rest) \in Nat /\ rest \in [1..Len(rest) -> S]
  BY <1>6, LenProperties
<1>8. rest = [i \in 1..Len(rest) |-> rest[i]] /\ \A i \in 1..Len(rest) : rest[i] \in S
  BY <1>7
<1> QED BY <1>3, <1>7, <1>8 DEF IsPlan

\* What a join made is seen on the chain, and may be spent.
LEMMA ConfirmJoinProceeds == ASSUME NInv, NEW t \in Tab, ConfirmJoin(t) PROVE Proceeds
<1> DEFINE e == exec[t]
<1>1. /\ e.pc = "confirm" /\ Joining(t) /\ e.note \in DOMAIN Notes(t) /\ JobOk(t) /\ IsJob(e)
      /\ UNCHANGED <<queueVars, sync, backup, used, chain>>
  BY DEF ConfirmJoin, At, Joining, NInv, IInv, Records, NotesInv
<1>2. PICK new : new = Reconcile(Notes(t))
  OBVIOUS
<1>3. PICK rest : rest = Tail(e.steps)
  OBVIOUS
<1>4. PICK j : /\ exec' = [exec EXCEPT ![t] = j]
               /\ j = [e EXCEPT !.pc = IF rest = <<>> THEN "reserve" ELSE "join", !.steps = rest]
  BY <1>3 DEF ConfirmJoin
<1>5. SetNotes(t, new)
  BY <1>2 DEF ConfirmJoin
<1>6. exec'[t] = j /\ \A u \in Tab \ {t} : exec'[u] = exec[u]
  BY <1>4, ExecSet
<1>7. /\ j.pc = (IF rest = <<>> THEN "reserve" ELSE "join") /\ j.op = e.op /\ j.call = e.call
      /\ j.note = e.note /\ j.ins = e.ins /\ j.order = e.order /\ j.new = e.new
      /\ j.steps = rest
  BY <1>1, <1>4 DEF IsJob
<1>8. Joining(t)' /\ Outs(t)' = Outs(t)
  BY <1>1, <1>6, <1>7 DEF Joining, Outs
<1>9. StoreOk(Notes(t)) /\ Notes(t)' = new
  BY <1>5, WalletAssumption DEF NInv, NotesInv, Stored, Shapes, Notes, SetNotes
<1>10. Advances(Notes(t), new)
  BY <1>2, <1>9, ReconcileAdvances
<1>11. e.note \in Known(new)
  <2> DEFINE n == e.note
  <2>1. n \in Outs(t) /\ n \in Minted
    BY <1>1 DEF JobOk, Inputs, Reached
  <2>2. Notes(t)[n].status # "cancelled" /\ IsNote(Notes(t)[n])
    BY <1>1, <1>9, <2>1 DEF StoreOk, NoteOk, CopyOk
  <2>3. CASE n \in Unseen(Notes(t))
    <3>1. PICK x : x = Notes(t)[n]
      OBVIOUS
    <3>2. new[n] = Revised(x, [x EXCEPT !.indexed = TRUE]) /\ n \in DOMAIN new
      BY <1>1, <1>2, <2>3, <3>1 DEF Reconcile, Update
    <3>3. new[n].indexed
      BY <2>2, <3>1, <3>2 DEF Revised, IsNote
    <3> QED BY <3>2, <3>3 DEF Known
  <2>4. CASE n \notin Unseen(Notes(t))
    <3>1. Notes(t)[n].indexed
      BY <1>1, <2>1, <2>2, <2>4 DEF Unseen
    <3>2. n \in Known(Notes(t))
      BY <1>1, <3>1 DEF Known
    <3> QED BY <1>10, <3>2, KnownStays
  <2> QED BY <2>3, <2>4
<1>12. Requested /\ ChainGrows
  BY <1>1, RequestedSame, ChainSame
<1>13. Later
  <2>1. used \in Nat /\ used <= used /\ UNCHANGED txs /\ j.pc # "add"
    BY <1>1, <1>7 DEF NInv, Shapes, chain
  <2> QED BY <1>1, <1>6, <1>7, <1>12, <2>1, LaterJob DEF Requested
<1>14. JobOk(t)'
  <2>1. Apart(t)'
    BY <1>6, <1>7, <1>8, <1>13, ApartStays
  <2>2. Known(Notes(t))' = Known(new)
    BY <1>9 DEF Known
  <2>3. /\ e.steps # <<>> /\ IsPlan(e.steps, Known(Notes(t)))
        /\ e.ins \subseteq Known(Notes(t)) /\ e.note \in Outs(t)
    BY <1>1 DEF JobOk, Inputs
  <2>4. Known(Notes(t)) \subseteq Known(new)
    BY <1>10, KnownStays
  <2>5. IsPlan(rest, Known(new))
    BY <1>3, <2>3, <2>4, PlanTail, PlanStays
  <2>6. IsPlan(exec[t].steps, Known(Notes(t)))'
    BY <1>6, <1>7, <2>2, <2>5 DEF IsPlan
  <2>7. Inputs(t)'
    BY <1>6, <1>7, <1>8, <1>11, <2>2, <2>3, <2>4, <2>6 DEF Inputs
  <2>8. Reached(t)'
    <3>1. e.op \in Op /\ operation'[e.op] # "none"
      BY <1>1, <1>13 DEF JobOk, Reached, Later
    <3>2. j.pc \in {"reserve", "join"}
      BY <1>7
    <3> QED BY <1>6, <1>7, <3>1, <3>2 DEF Reached
  <2> QED BY <2>1, <2>7, <2>8 DEF JobOk
<1> QED BY <1>1, <1>5, <1>6, <1>10, <1>12, <1>13, <1>14, WriteProceeds

\* What a deposit made is seen, or not waited for any longer.
LEMMA ConfirmShieldProceeds == ASSUME NInv, NEW t \in Tab, ConfirmShield(t) PROVE Proceeds
<1> DEFINE e == exec[t]
<1>1. /\ e.pc = "confirm" /\ ~Joining(t) /\ "exec" \in Caller
      /\ UNCHANGED <<queueVars, backup, used, chain>>
  BY DEF ConfirmShield, At, Joining, Caller
<1>2. CASE exec' = [exec EXCEPT ![t] = Keep(@, "finish")] /\ UNCHANGED <<db, sync>>
  <2>1. PICK j : j = Keep(e, "finish")
    OBVIOUS
  <2>2. exec' = [exec EXCEPT ![t] = j]
    BY <1>2, <2>1
  <2> QED BY <1>1, <1>2, <2>1, <2>2, RequestedSame, JobWrites
<1>3. CASE SetNotes(t, Reconcile(Notes(t))) /\ WantSync(t, "exec") /\ Goto(t, "confirming")
  <2>1. PICK j : j = [e EXCEPT !.pc = "confirming"]
    OBVIOUS
  <2>2. exec' = [exec EXCEPT ![t] = j]
    BY <1>3, <2>1 DEF Goto
  <2>3. PICK new : new = Reconcile(Notes(t))
    OBVIOUS
  <2>4. SetNotes(t, new) /\ Advances(Notes(t), new)
    BY <1>3, <2>3, ReconcileAdvances, WalletAssumption DEF NInv, NotesInv, Stored, Notes
  <2> QED BY <1>1, <1>3, <2>1, <2>2, <2>4, RequestedSame, JobWrites
<1> QED BY <1>2, <1>3 DEF ConfirmShield

\* An operation is rolled back.
LEMMA RollbackProceeds == ASSUME NInv, NEW t \in Tab, RollbackClientAction(t) PROVE Proceeds
<1> DEFINE e == exec[t]
<1>1. /\ e.pc = "rollback" /\ "exec" \in Caller /\ WantSync(t, "exec")
      /\ UNCHANGED <<queueVars, backup, used, chain>>
  BY DEF RollbackClientAction, At, Caller
<1>2. PICK j : j = [e EXCEPT !.pc = "rolling"]
  OBVIOUS
<1>3. exec' = [exec EXCEPT ![t] = j]
  BY <1>2 DEF RollbackClientAction, Goto
<1>4. PICK kept : kept = Without(Notes(t), Abandoned(Notes(t), e.op))
  OBVIOUS
<1>5. PICK ids : ids = {n \in DOMAIN kept : kept[n].op = e.op /\ kept[n].state = "reserved"}
  OBVIOUS
<1>6. PICK new : new = Update(kept, ids, Release)
  OBVIOUS
<1>7. SetNotes(t, new)
  BY <1>4, <1>5, <1>6 DEF RollbackClientAction
<1>8. Advances(Notes(t), new)
  BY <1>4, <1>6, RollbackAdvances, WalletAssumption DEF NInv, NotesInv, Stored, Notes
<1>9. Joining(t) => e.steps # <<>>
  BY <1>1 DEF NInv, NotesInv, JobOk, Inputs
<1> QED BY <1>1, <1>2, <1>3, <1>7, <1>8, <1>9, RequestedSame, JobWrites
-----------------------------------------------------------------------------
(***************************************************************************)
(* The pollers, the backup syncs, the chain and the mishaps.               *)
(***************************************************************************)

\* Steps of no executor and of no operation.
LEMMA LaterQuiet == ASSUME NInv, UNCHANGED <<queueVars, exec, used, txs>> PROVE Later
<1>1. Requested /\ used \in Nat /\ Owned' = Owned
  BY RequestedSame DEF NInv, Shapes, Owned
<1> QED BY <1>1, LaterElse DEF Requested

\* What a poller writes.
LEMMA PollWrites ==
  ASSUME NInv, UNCHANGED <<queueVars, backup, exec, used, chain>>, NEW t \in Tab,
         UNCHANGED db \/ \E new : SetNotes(t, new) /\ Advances(Notes(t), new),
         UNCHANGED sync \/ \E c \in Caller : WantSync(t, c) \/ SyncReturns(t, c)
  PROVE  Proceeds
<1>1. Later /\ Requested /\ ChainGrows
  BY LaterQuiet, RequestedSame, ChainSame DEF chain
<1>2. UNCHANGED db \/ \E new : /\ SetNotes(t, new) /\ Kept(Notes(t), new, backup)
                              /\ StoreOk(new)'
  BY <1>1, AdvanceIsWrite
<1>3. DbStays /\ SyncsStay /\ Shapes'
  BY <1>1, <1>2, TabWrites DEF Requested
<1> QED BY <1>1, <1>3, ProceedElse

\* The pollers.
LEMMA PollProceeds == ASSUME NInv, NEW t \in Tab, PollStep(t) PROVE Proceeds
<1>1. UNCHANGED <<queueVars, backup, exec, used, chain>> /\ "poll" \in Caller
  BY DEF PollStep, RefreshList, ReconcileOperationJournals, PollNotes, PollDone, Caller
<1>2. StoreOk(Notes(t))
  BY WalletAssumption DEF NInv, NotesInv, Stored, Notes
<1>3. CASE RefreshList(t) \/ PollDone(t)
  <2>1. UNCHANGED db /\ (UNCHANGED sync \/ SyncReturns(t, "poll"))
    BY <1>3 DEF RefreshList, PollDone
  <2> QED BY <1>1, <2>1, PollWrites
<1>4. CASE ReconcileOperationJournals(t)
  <2>1. PICK new : new = JournalsReconciled(Notes(t), poll[t].seen)
    OBVIOUS
  <2>2. SetNotes(t, new) /\ (UNCHANGED sync \/ WantSync(t, "poll"))
    BY <1>4, <2>1 DEF ReconcileOperationJournals
  <2>3. Advances(Notes(t), new)
    BY <1>2, <2>1, JournalsAdvance
  <2> QED BY <1>1, <2>2, <2>3, PollWrites
<1>5. CASE PollNotes(t)
  <2>1. PICK new : new = Reconcile(Notes(t))
    OBVIOUS
  <2>2. SetNotes(t, new) /\ WantSync(t, "poll")
    BY <1>5, <2>1 DEF PollNotes
  <2>3. Advances(Notes(t), new)
    BY <1>2, <2>1, ReconcileAdvances
  <2> QED BY <1>1, <2>2, <2>3, PollWrites
<1> QED BY <1>3, <1>4, <1>5 DEF PollStep

\* A transaction is decided or an order filled.
LEMMA ChainProceeds ==
  ASSUME NInv, ChainStep \/ \E n \in NoteId : OrderFills(n) PROVE Proceeds
<1>1. UNCHANGED <<queueVars, db, backup, exec, sync, used>>
  BY DEF ChainStep, TxLands, TxFails, OrderFills
<1>2. filled \subseteq filled' /\ DOMAIN txs' = DOMAIN txs
  BY DEF ChainStep, TxLands, TxFails, OrderFills
<1>3. ASSUME NEW k \in DOMAIN txs
      PROVE  /\ txs'[k].outs = txs[k].outs /\ txs'[k].method = txs[k].method
             /\ txs[k].status = "landed" => txs'[k].status = "landed"
  <2>1. CASE UNCHANGED txs
    BY <2>1
  <2>2. CASE ChainStep
    <3>1. PICK i \in DOMAIN txs, s \in {"landed", "failed"} :
            txs' = [txs EXCEPT ![i].status = s] /\ txs[i].status = "pending"
      BY <2>2 DEF ChainStep, TxLands, TxFails
    <3>2. CASE k = i
      <4>1. PICK x : x = txs[i]
        OBVIOUS
      <4>2. txs'[k] = [x EXCEPT !.status = s] /\ x.status = "pending"
            /\ x = [op |-> x.op, method |-> x.method, ins |-> x.ins, outs |-> x.outs,
                    order |-> x.order, status |-> x.status]
        BY <3>1, <3>2, <4>1 DEF NInv, IInv, Records
      <4> QED BY <3>2, <4>1, <4>2
    <3>3. CASE k # i
      BY <3>1, <3>3
    <3> QED BY <3>2, <3>3
  <2> QED BY <2>1, <2>2 DEF OrderFills
<1>4. ChainGrows
  <2>1. ASSUME NEW i \in Landed
        PROVE  i \in Landed' /\ txs'[i].outs = txs[i].outs /\ txs'[i].method = txs[i].method
    <3>1. i \in DOMAIN txs /\ txs[i].status = "landed"
      BY DEF Landed
    <3> QED BY <1>2, <1>3, <3>1 DEF Landed
  <2>2. \A n \in Minted : n \in Minted'
    BY <1>2, <2>1, MintedGrows
  <2>3. \A i \in DOMAIN txs : i \in DOMAIN txs' /\ txs'[i].outs = txs[i].outs
    BY <1>2, <1>3
  <2> QED BY <2>2, <2>3 DEF ChainGrows
<1>5. Requested
  BY <1>1, RequestedSame
<1>6. Later
  <2>1. ASSUME NEW n \in Owned' PROVE n \in Owned
    <3>1. \/ n \in DOMAIN StartNotes
          \/ \E i \in DOMAIN txs' : txs'[i].method = "join" /\ n \in txs'[i].outs
      BY DEF Owned
    <3>2. \/ n \in DOMAIN StartNotes
          \/ \E i \in DOMAIN txs : txs[i].method = "join" /\ n \in txs[i].outs
      BY <1>2, <1>3, <3>1
    <3> QED BY <3>2 DEF Owned
  <2>2. used \in Nat
    BY DEF NInv, Shapes
  <2> QED BY <1>1, <1>5, <2>1, <2>2, LaterElse DEF Requested
<1>7. DbStays /\ SyncsStay /\ Shapes'
  <2>1. DbStays /\ SyncsStay
    BY <1>1 DEF DbStays, SyncsStay
  <2>2. Shapes'
    BY <1>1, <1>5 DEF NInv, Shapes, IsSync, Requested
  <2> QED BY <2>1, <2>2
<1> QED BY <1>1, <1>4, <1>6, <1>7, ProceedElse

\* The queue takes a user's request or cancellation, a late heartbeat, or a lease ends.
LEMMA QueueProceeds ==
  ASSUME NInv, Requested, UNCHANGED <<db, backup, exec, sync, used, chain>> PROVE Proceeds
<1>1. Later
  <2>1. Owned' = Owned /\ used \in Nat
    BY DEF Owned, chain, NInv, Shapes
  <2> QED BY <2>1, LaterElse DEF Requested
<1>2. DbStays /\ SyncsStay /\ Shapes' /\ ChainGrows
  <2>1. DbStays /\ SyncsStay /\ ChainGrows
    BY ChainSame DEF DbStays, SyncsStay
  <2>2. Shapes'
    BY DEF NInv, Shapes, IsSync, Requested
  <2> QED BY <2>1, <2>2
<1> QED BY <1>1, <1>2, ProceedElse

\* A user asks for an operation.
LEMMA EnqueueProceeds ==
  ASSUME NInv, NEW t \in Tab, NEW o \in Op, UserEnqueues(t, o) PROVE Proceeds
<1>1. PICK r \in Request : CreateOperation(o, r)
  BY DEF UserEnqueues
<1>2. UNCHANGED <<db, backup, exec, sync, used, chain>>
  BY DEF UserEnqueues, wallet, chain
<1>3. Requested
  BY <1>1 DEF CreateOperation, Requested, NInv, Shapes, IInv, Records
<1> QED BY <1>2, <1>3, QueueProceeds

\* A lease ends, a user cancels, a heartbeat comes late.
LEMMA LapseProceeds ==
  ASSUME NInv, NEW o \in Op, LeaseLapses(o) \/ UserCancels(o) \/ LateHeartbeat(o)
  PROVE  Proceeds
<1>1. UNCHANGED <<db, backup, exec, sync, used, chain>>
  BY DEF LeaseLapses, UserCancels, LateHeartbeat, wallet, chain
<1>2. Requested
  <2>1. LeaseExpires(o) \/ CancelOperation(o) \/ HeartbeatAction(o, action[o].lease)
    BY DEF LeaseLapses, UserCancels, LateHeartbeat
  <2> QED BY <2>1, RequestedAnswer
<1> QED BY <1>1, <1>2, QueueProceeds

\* Nothing happens.
LEMMA StutterProceeds == ASSUME NInv, UNCHANGED vars PROVE Proceeds
<1>1. UNCHANGED <<db, backup, exec, sync, used, chain, queueVars>>
  BY DEF vars, wallet, chain
<1> QED BY <1>1, RequestedSame, QueueProceeds
-----------------------------------------------------------------------------
(* Backup syncs. *)

\* What is left to show of a step once the executors are looked after.
LEMMA SyncsProceed ==
  ASSUME NInv, Later, Requested, DbStays, ChainGrows, db' = [b \in Browser |-> db'[b]],
         SyncShape', backup' = backup \/ (StoreOk(backup)' /\ Covers(backup', backup)),
         \A t \in Tab : exec'[t] = exec[t] \/ JobOk(t)',
         \A t \in Tab, c \in Caller : SyncOk(t, c)'
  PROVE  Proceeds
<1>1. DbKept
  BY KeptMeans
<1>2. Stored'
  BY StoredStays
<1>3. \A t \in Tab : JobOk(t)'
  BY <1>1, JobStays
<1>4. (Owned \subseteq 1..used)'
  BY OwnedStays
<1>5. Shapes'
  BY DEF Shapes, SyncShape, Requested, Later
<1> QED BY <1>1, <1>2, <1>3, <1>4, <1>5 DEF NotesInv, Safe, Proceeds

\* A browser that has merged the backup loses nothing of it.
LEMMA MergeProceeds ==
  ASSUME NInv, NEW t \in Tab, NEW c \in Caller, SyncMerge(t, c) PROVE Proceeds
<1>1. UNCHANGED <<queueVars, backup, exec, used, chain>>
  BY DEF SyncMerge, chain
<1>2. PICK later \in BOOLEAN :
        db' = [db EXCEPT ![BrowserOf[t]] = MergeRecoveryNotes(@, backup, later)]
  BY DEF SyncMerge
<1>3. PICK new : new = MergeRecoveryNotes(Notes(t), backup, later)
  OBVIOUS
<1>4. db' = [db EXCEPT ![BrowserOf[t]] = new]
  BY <1>2, <1>3 DEF Notes
<1>5. Later /\ Requested /\ ChainGrows
  BY <1>1, LaterQuiet, RequestedSame, ChainSame DEF chain
<1>6. PICK saved : saved = backup
  OBVIOUS
<1>7. StoreOk(Notes(t)) /\ StoreOk(saved) /\ used \in Nat
  BY <1>6, WalletAssumption DEF NInv, NotesInv, Stored, Shapes, Notes
<1>8. StoreOk(new) /\ Kept(Notes(t), new, saved) /\ Covers(new, saved)
  BY <1>3, <1>6, <1>7, MergedStore
<1>9. StoreOk(new)' /\ Covers(new, saved)'
  BY <1>5, <1>7, <1>8, StoreStays, CoversStays
<1>10. DbStays /\ db' = [b \in Browser |-> db'[b]] /\ Notes(t)' = new
  BY <1>4, <1>6, <1>8, <1>9, DbSet
<1>11. PICK s : s = [sync[t][c] EXCEPT !.pc = "merged", !.current = TRUE]
  OBVIOUS
<1>12. sync' = [sync EXCEPT ![t][c] = s]
  BY <1>11 DEF SyncMerge
<1>13. s.pc = "merged" /\ IsSync(s) /\ s.current = TRUE
  <2>1. PICK z : z = sync[t][c]
    OBVIOUS
  <2>2. IsSync(z) /\ s = [z EXCEPT !.pc = "merged", !.current = TRUE]
    BY <1>11, <2>1 DEF NInv, Shapes
  <2> QED BY <2>2 DEF IsSync
<1>14. /\ SyncShape' /\ sync'[t][c] = s
       /\ \A u \in Tab, d \in Caller : u # t \/ d # c => sync'[u][d] = sync[u][d]
  <2>1. IsSync(s) /\ s.current \in BOOLEAN
    BY <1>13
  <2> QED BY <1>12, <2>1, SyncSet
<1>15. ASSUME NEW u \in Tab, NEW d \in Caller PROVE SyncOk(u, d)'
  <2>1. CASE u = t /\ d = c
    <3>1. sync'[u][d] = s /\ Covers(Notes(t), backup)'
      BY <1>1, <1>6, <1>9, <1>10, <1>14, <2>1 DEF Covers
    <3> QED BY <1>13, <2>1, <3>1 DEF SyncOk
  <2>2. CASE ~(u = t /\ d = c)
    <3>1. sync'[u][d] = sync[u][d]
      BY <1>14, <2>2
    <3> QED BY <1>1, <1>5, <1>10, <3>1, KeptMeans, SyncCarried
  <2> QED BY <2>1, <2>2
<1> QED BY <1>1, <1>5, <1>10, <1>14, <1>15, SyncsProceed

\* Nor does the snapshot it makes.
LEMMA EncryptProceeds ==
  ASSUME NInv, NEW t \in Tab, NEW c \in Caller, SyncEncrypt(t, c) PROVE Proceeds
<1>1. UNCHANGED <<queueVars, db, backup, exec, used, chain>> /\ sync[t][c].pc = "merged"
  BY DEF SyncEncrypt, chain
<1>2. PICK new : new = Snapshot(Notes(t))
  OBVIOUS
<1>3. PICK s : s = [sync[t][c] EXCEPT !.pc = "encrypted", !.notes = new]
  OBVIOUS
<1>4. sync' = [sync EXCEPT ![t][c] = s]
  BY <1>2, <1>3 DEF SyncEncrypt, Notes
<1>5. /\ s.pc = "encrypted" /\ s.current = sync[t][c].current /\ s.notes = new
      /\ IsSync(s) /\ s.current \in BOOLEAN
  <2>1. PICK z : z = sync[t][c]
    OBVIOUS
  <2>2. IsSync(z) /\ z.current \in BOOLEAN /\ s = [z EXCEPT !.pc = "encrypted", !.notes = new]
    BY <1>3, <2>1 DEF NInv, Shapes
  <2>3. s.pc = "encrypted" /\ s.current = z.current /\ s.notes = new /\ IsSync(s)
    BY <2>2 DEF IsSync
  <2> QED BY <2>1, <2>2, <2>3
<1>6. /\ SyncShape' /\ sync'[t][c] = s
      /\ \A u \in Tab, d \in Caller : u # t \/ d # c => sync'[u][d] = sync[u][d]
  <2>1. IsSync(s) /\ s.current \in BOOLEAN
    BY <1>5
  <2> QED BY <1>4, <2>1, SyncSet
<1>7. Later /\ Requested /\ ChainGrows
  BY <1>1, LaterQuiet, RequestedSame, ChainSame DEF chain
<1>8. PICK saved : saved = backup
  OBVIOUS
<1>9. PICK old : old = Notes(t)
  OBVIOUS
<1>10. StoreOk(old) /\ StoreOk(saved) /\ used \in Nat
  BY <1>8, <1>9, WalletAssumption DEF NInv, NotesInv, Stored, Shapes, Notes
<1>11. /\ Advances(old, new) /\ DOMAIN new = DOMAIN old
       /\ \A n \in DOMAIN old : new[n].indexed = old[n].indexed /\ new[n].status = old[n].status
  BY <1>2, <1>9, <1>10, SnapshotAdvances
<1>12. StoreOk(new)'
  BY <1>7, <1>10, <1>11, AdvancesIsOk, StoreStays
<1>13. ASSUME s.current PROVE Covers(new, saved)'
  <2>1. Covers(old, saved)
    BY <1>1, <1>5, <1>8, <1>9, <1>13 DEF NInv, NotesInv, SyncOk
  <2>2. Covers(new, saved)
    BY <1>11, <2>1 DEF Covers
  <2> QED BY <1>7, <1>10, <2>2, CoversStays
<1>14. DbStays /\ db' = [b \in Browser |-> db'[b]]
  BY <1>1 DEF DbStays, NInv, Shapes
<1>15. ASSUME NEW u \in Tab, NEW d \in Caller PROVE SyncOk(u, d)'
  <2>1. CASE u = t /\ d = c
    <3>1. sync'[u][d] = s
      BY <1>6, <2>1
    <3>2. StoreOk(sync[u][d].notes)'
      BY <1>5, <1>12, <3>1 DEF StoreOk
    <3>3. s.current => Covers(sync[u][d].notes, backup)'
      BY <1>1, <1>5, <1>8, <1>13, <3>1 DEF Covers
    <3> QED BY <1>5, <3>1, <3>2, <3>3 DEF SyncOk
  <2>2. CASE ~(u = t /\ d = c)
    <3>1. sync'[u][d] = sync[u][d]
      BY <1>6, <2>2
    <3> QED BY <1>1, <1>7, <1>14, <3>1, KeptMeans, SyncCarried
  <2> QED BY <2>1, <2>2
<1> QED BY <1>1, <1>6, <1>7, <1>14, <1>15, SyncsProceed

\* A stale snapshot is refused.
LEMMA ConflictProceeds ==
  ASSUME NInv, NEW t \in Tab, NEW c \in Caller, SyncConflict(t, c) PROVE Proceeds
<1>1. UNCHANGED <<queueVars, db, backup, exec, used, chain>>
  BY DEF SyncConflict, chain
<1>2. PICK s : /\ sync' = [sync EXCEPT ![t][c] = s]
               /\ \/ s = [NoSync EXCEPT !.pc = "error"]
                  \/ s = [Wanted EXCEPT !.tries = sync[t][c].tries + 1]
  BY DEF SyncConflict
<1>3. IsSync(s) /\ s.current = FALSE /\ s.pc \notin {"merged", "encrypted"}
  BY <1>2 DEF IsSync, NoSync, Wanted
<1>4. /\ SyncShape' /\ sync'[t][c] = s
      /\ \A u \in Tab, d \in Caller : u # t \/ d # c => sync'[u][d] = sync[u][d]
  <2>1. IsSync(s) /\ s.current \in BOOLEAN
    BY <1>3
  <2> QED BY <1>2, <2>1, SyncSet
<1>5. Later /\ Requested /\ ChainGrows
  BY <1>1, LaterQuiet, RequestedSame, ChainSame DEF chain
<1>6. DbStays /\ db' = [b \in Browser |-> db'[b]]
  BY <1>1 DEF DbStays, NInv, Shapes
<1>7. ASSUME NEW u \in Tab, NEW d \in Caller PROVE SyncOk(u, d)'
  <2>1. CASE u = t /\ d = c
    BY <1>3, <1>4, <2>1 DEF SyncOk
  <2>2. CASE ~(u = t /\ d = c)
    BY <1>1, <1>4, <1>5, <1>6, <2>2, KeptMeans, SyncCarried
  <2> QED BY <2>1, <2>2
<1> QED BY <1>1, <1>4, <1>5, <1>6, <1>7, SyncsProceed

\* A sync ends, perhaps with its snapshot in the backup, which makes the others stale.
SyncEnds(t, c, p, stale) ==
  sync' = [u \in Tab |-> [d \in Caller |->
             IF u = t /\ d = c THEN [NoSync EXCEPT !.pc = p]
             ELSE [sync[u][d] EXCEPT !.current = @ /\ ~stale]]]

\* Every other sync goes on, with a base that may be stale.
LEMMA AllSyncs ==
  ASSUME NInv, NEW t \in Tab, NEW c \in Caller, NEW p \in {"ok", "error"},
         NEW stale \in BOOLEAN,
         SyncEnds(t, c, p, stale)
  PROVE  /\ SyncShape' /\ sync'[t][c].pc = p
         /\ \A u \in Tab, d \in Caller : u # t \/ d # c =>
              /\ sync'[u][d].pc = sync[u][d].pc /\ sync'[u][d].notes = sync[u][d].notes
              /\ sync'[u][d].current => sync[u][d].current /\ ~stale
<1>1. /\ sync' = [u \in Tab |-> sync'[u]]
      /\ \A u \in Tab : sync'[u] = [d \in Caller |-> sync'[u][d]]
  BY DEF SyncEnds
<1>2. ASSUME NEW x, x = sync'[t][c]
      PROVE  IsSync(x) /\ x.current = FALSE /\ x.pc = p
  <2>1. x = [NoSync EXCEPT !.pc = p]
    BY <1>2 DEF SyncEnds
  <2> QED BY <2>1 DEF IsSync, NoSync
<1>3. ASSUME NEW u \in Tab, NEW d \in Caller, u # t \/ d # c, NEW x, x = sync'[u][d],
             NEW s, s = sync[u][d]
      PROVE  /\ IsSync(x) /\ x.current \in BOOLEAN /\ x.pc = s.pc /\ x.notes = s.notes
             /\ x.current => s.current /\ ~stale
  <2>1. IsSync(s) /\ s.current \in BOOLEAN
    BY <1>3 DEF NInv, Shapes
  <2>2. PICK b : b = (s.current /\ ~stale)
    OBVIOUS
  <2>3. b \in BOOLEAN /\ (b => s.current /\ ~stale)
    BY <2>2, Zenon
  <2>4. x = [s EXCEPT !.current = b]
    <3>1. x = [s EXCEPT !.current = s.current /\ ~stale]
      BY <1>3 DEF SyncEnds
    <3> QED BY <2>2, <3>1
  <2>5. IsSync(x) /\ x.current = b /\ x.pc = s.pc /\ x.notes = s.notes
    BY <2>1, <2>4 DEF IsSync
  <2> QED BY <2>3, <2>5
<1>4. ASSUME NEW u \in Tab, NEW d \in Caller
      PROVE  IsSync(sync'[u][d]) /\ sync'[u][d].current \in BOOLEAN
  <2>1. CASE u = t /\ d = c
    BY <1>2, <2>1
  <2>2. CASE ~(u = t /\ d = c)
    BY <1>3, <2>2
  <2> QED BY <2>1, <2>2
<1>5. SyncShape'
  BY <1>1, <1>4 DEF SyncShape, IsSync
<1>6. sync'[t][c].pc = p
  BY <1>2
<1>7. ASSUME NEW u \in Tab, NEW d \in Caller, u # t \/ d # c
      PROVE  /\ sync'[u][d].pc = sync[u][d].pc /\ sync'[u][d].notes = sync[u][d].notes
             /\ sync'[u][d].current => sync[u][d].current /\ ~stale
  BY <1>3, <1>7
<1> QED BY <1>5, <1>6, <1>7

\* The server accepts a snapshot that is based on the stored one, whether the tab
\* hears of it or not, or a call fails.
LEMMA AcceptProceeds ==
  ASSUME NInv, NEW t \in Tab, NEW c \in Caller, NEW p \in {"ok", "error"},
         UNCHANGED <<queueVars, db, exec, used, chain>>,
         \/ UNCHANGED backup
         \/ /\ sync[t][c].pc = "encrypted" /\ sync[t][c].current
            /\ backup' = sync[t][c].notes,
         NEW stale \in BOOLEAN, ~stale => UNCHANGED backup,
         SyncEnds(t, c, p, stale)
  PROVE  Proceeds
<1>1. /\ SyncShape' /\ sync'[t][c].pc = p
      /\ \A u \in Tab, d \in Caller : u # t \/ d # c =>
           /\ sync'[u][d].pc = sync[u][d].pc /\ sync'[u][d].notes = sync[u][d].notes
           /\ sync'[u][d].current => sync[u][d].current /\ ~stale
  BY AllSyncs
<1>2. Later /\ Requested /\ ChainGrows
  BY LaterQuiet, RequestedSame, ChainSame DEF chain
<1>3. DbStays /\ db' = [b \in Browser |-> db'[b]]
  BY DEF DbStays, NInv, Shapes
<1>4. backup' = backup \/ (StoreOk(backup)' /\ Covers(backup', backup))
  <2>1. ASSUME sync[t][c].pc = "encrypted", sync[t][c].current, backup' = sync[t][c].notes
        PROVE  StoreOk(backup)' /\ Covers(backup', backup)
    <3>1. PICK notes : notes = sync[t][c].notes
      OBVIOUS
    <3>2. StoreOk(notes) /\ Covers(notes, backup) /\ used \in Nat
      BY <2>1, <3>1 DEF NInv, NotesInv, SyncOk, Shapes
    <3>3. StoreOk(notes)' /\ backup' = notes
      BY <1>2, <2>1, <3>1, <3>2, StoreStays
    <3> QED BY <3>2, <3>3 DEF StoreOk
  <2> QED BY <2>1
<1>5. ASSUME NEW u \in Tab, NEW d \in Caller PROVE SyncOk(u, d)'
  <2>1. CASE u = t /\ d = c
    BY <1>1, <2>1 DEF SyncOk
  <2>2. CASE ~(u = t /\ d = c)
    BY <1>1, <1>2, <1>3, <2>2, KeptMeans, SyncCarried
  <2> QED BY <2>1, <2>2
<1> QED BY <1>1, <1>2, <1>3, <1>4, <1>5, SyncsProceed

\* A snapshot is sent.
LEMMA PutProceeds ==
  ASSUME NInv, NEW t \in Tab, NEW c \in Caller, SyncPut(t, c) \/ SyncFault(t, c)
  PROVE  Proceeds
<1>1. UNCHANGED <<queueVars, db, exec, used, chain>>
  BY DEF SyncPut, SyncFault, chain
<1>2. \/ UNCHANGED backup
      \/ /\ sync[t][c].pc = "encrypted" /\ sync[t][c].current
         /\ backup' = sync[t][c].notes
  BY DEF SyncPut, SyncFault, Accepts
<1>3. CASE SyncPut(t, c)
  <2>1. PICK stale \in BOOLEAN : stale = TRUE
    OBVIOUS
  <2>2. sync' = [u \in Tab |-> [d \in Caller |->
                   IF u = t /\ d = c THEN [NoSync EXCEPT !.pc = "ok"]
                   ELSE [sync[u][d] EXCEPT !.current = FALSE]]]
    BY <1>3 DEF SyncPut
  <2>3. SyncEnds(t, c, "ok", stale)
    <3>1. \A u \in Tab, d \in Caller : (sync[u][d].current /\ ~stale) = FALSE
      BY <2>1
    <3> QED BY <2>2, <3>1 DEF SyncEnds
  <2> QED BY <1>1, <1>2, <2>1, <2>3, AcceptProceeds
<1>4. CASE SyncFault(t, c)
  <2>1. PICK stale \in BOOLEAN : stale = ~(backup' = backup)
    OBVIOUS
  <2>2. sync' = [u \in Tab |-> [d \in Caller |->
                   IF u = t /\ d = c THEN [NoSync EXCEPT !.pc = "error"]
                   ELSE [sync[u][d] EXCEPT !.current = @ /\ backup' = backup]]]
    BY <1>4 DEF SyncFault
  <2>3. SyncEnds(t, c, "error", stale)
    BY <2>1, <2>2 DEF SyncEnds
  <2> QED BY <1>1, <1>2, <2>1, <2>3, AcceptProceeds
<1> QED BY <1>3, <1>4

\* A tab that is reloaded has merged the backup, or nothing.
LEMMA ReloadProceeds == ASSUME NInv, NEW t \in Tab, Reload(t) PROVE Proceeds
<1>1. /\ exec' = [exec EXCEPT ![t] = NoJob] /\ UNCHANGED <<queueVars, backup, used, chain>>
      /\ sync' = [sync EXCEPT ![t] = [c \in Caller |-> NoSync]]
  BY DEF Reload, chain
<1>2. exec'[t] = NoJob /\ \A u \in Tab \ {t} : exec'[u] = exec[u]
  BY <1>1, ExecSet
<1>3. Requested /\ ChainGrows
  BY <1>1, RequestedSame, ChainSame
<1>4. Later
  BY <1>1, <1>2, <1>3, LaterEmpty DEF Requested, chain
<1>5. JobOk(t)'
  BY <1>2, <1>4, JobEnds
<1>6. DbStays /\ db' = [b \in Browser |-> db'[b]]
  <2>1. CASE UNCHANGED db
    BY <2>1 DEF DbStays, NInv, Shapes
  <2>2. CASE \E later \in BOOLEAN : SetNotes(t, MergeRecoveryNotes(Notes(t), backup, later))
    <3>1. PICK later \in BOOLEAN : SetNotes(t, MergeRecoveryNotes(Notes(t), backup, later))
      BY <2>2
    <3>2. PICK new : new = MergeRecoveryNotes(Notes(t), backup, later)
      OBVIOUS
    <3>3. StoreOk(Notes(t)) /\ StoreOk(backup) /\ used \in Nat
      BY WalletAssumption DEF NInv, NotesInv, Stored, Shapes, Notes
    <3>4. StoreOk(new) /\ Kept(Notes(t), new, backup)
      BY <3>2, <3>3, MergedStore
    <3>5. StoreOk(new)'
      BY <1>4, <3>3, <3>4, StoreStays
    <3>6. db' = [db EXCEPT ![BrowserOf[t]] = new]
      BY <3>1, <3>2 DEF SetNotes
    <3> QED BY <3>4, <3>5, <3>6, DbSet
  <2> QED BY <2>1, <2>2 DEF Reload
<1>7. IsSync(NoSync) /\ NoSync.current \in BOOLEAN /\ NoSync.pc \notin {"merged", "encrypted"}
  BY SyncBegins
<1>8. /\ sync' = [u \in Tab |-> sync'[u]]
      /\ sync'[t] = [c \in Caller |-> NoSync]
      /\ \A u \in Tab : u # t => sync'[u] = sync[u]
  BY <1>1 DEF NInv, Shapes
<1>9. SyncShape'
  <2>1. ASSUME NEW u \in Tab
        PROVE  /\ sync'[u] = [d \in Caller |-> sync'[u][d]]
               /\ \A d \in Caller : IsSync(sync'[u][d]) /\ sync'[u][d].current \in BOOLEAN
    <3>1. CASE u = t
      BY <1>7, <1>8, <3>1
    <3>2. CASE u # t
      BY <1>8, <3>2 DEF NInv, Shapes
    <3> QED BY <3>1, <3>2
  <2> QED BY <1>8, <2>1 DEF SyncShape, IsSync
<1>10. ASSUME NEW u \in Tab, NEW d \in Caller PROVE SyncOk(u, d)'
  <2>1. CASE u = t
    <3>1. sync'[u][d] = NoSync
      BY <1>8, <2>1
    <3>2. sync'[u][d].current = FALSE /\ sync'[u][d].pc = "none"
      BY <3>1 DEF NoSync
    <3> QED BY <3>2 DEF SyncOk
  <2>2. CASE u # t
    <3>1. sync'[u][d] = sync[u][d]
      BY <1>8, <2>2
    <3> QED BY <1>1, <1>4, <1>6, <3>1, KeptMeans, SyncCarried
  <2> QED BY <2>1, <2>2
<1>11. \A u \in Tab : exec'[u] = exec[u] \/ JobOk(u)'
  BY <1>2, <1>5
<1> QED BY <1>1, <1>3, <1>4, <1>6, <1>9, <1>10, <1>11, SyncsProceed
-----------------------------------------------------------------------------
(***************************************************************************)
(* What every wallet keeps.                                                *)
(***************************************************************************)

\* A wallet begins so.
LEMMA InitIsStored == ASSUME Init PROVE NInv
<1>1. IInv
  BY InitIsHonest
<1>2. PICK k : k = Len(StartNotes)
  OBVIOUS
<1>3. /\ k \in Nat /\ DOMAIN StartNotes = 1..k /\ used = k
      /\ \A n \in 1..k : /\ StartNotes[n] \in NoteRecord /\ StartNotes[n].state = "none"
                         /\ StartNotes[n].status = "active"
  <2> DEFINE S == {x \in NoteRecord : x.op = 0 /\ x.state = "none" /\ x.status = "active"}
  <2>1. StartNotes \in Seq(S)
    BY WalletAssumption
  <2>2. k \in Nat /\ DOMAIN StartNotes = 1..k /\ \A n \in 1..k : StartNotes[n] \in S
    BY <1>2, <2>1, LenProperties, ElementOfSeq
  <2>3. Cardinality(1..k) = k
    BY <2>2, FS_Interval
  <2> QED BY <2>2, <2>3 DEF Init
<1>4. /\ \A b \in Browser : db[b] = StartNotes
      /\ backup = StartNotes /\ txs = <<>>
      /\ \A t \in Tab : exec[t] = NoJob
      /\ \A t \in Tab, c \in Caller : sync[t][c] = NoSync
  BY DEF Init
<1>5. \A t \in Tab : Outs(t) = {} /\ ~Joining(t)
  BY <1>4 DEF Outs, Joining, NoJob
<1>6. Shapes
  <2>1. IsSync(NoSync) /\ NoSync.current \in BOOLEAN
    BY SyncBegins
  <2> QED BY <1>3, <1>4, <2>1 DEF Init, QueueInit, Shapes
<1>7. StoreOk(StartNotes)
  <2>1. ASSUME NEW n \in 1..k, NEW x, x = StartNotes[n] PROVE NoteOk(n, x)
    <3>1. x \in NoteRecord /\ x.state = "none" /\ x.status = "active"
      BY <1>3, <2>1
    <3>2. IsNote(x)
      BY <3>1 DEF NoteRecord, IsNote
    <3> QED BY <1>5, <3>1, <3>2 DEF NoteOk
  <2> QED BY <1>3, <2>1 DEF StoreOk
<1>8. Stored
  BY <1>4, <1>7 DEF Stored, StoreOk
<1>9. Owned \subseteq 1..used
  BY <1>3, <1>4 DEF Owned
<1>10. ASSUME NEW t \in Tab PROVE JobOk(t)
  <2>1. Apart(t)
    BY <1>4, <1>5 DEF Apart, NoJob
  <2>2. Inputs(t)
    <3>1. IsPlan(exec[t].steps, Known(Notes(t)))
      BY <1>4, NoPlan DEF NoJob
    <3> QED BY <1>4, <1>5, <3>1 DEF Inputs, NoJob, Known
  <2>3. Reached(t)
    BY <1>4, <1>5 DEF Reached, NoJob
  <2> QED BY <2>1, <2>2, <2>3 DEF JobOk
<1>11. \A t \in Tab, c \in Caller : SyncOk(t, c)
  BY <1>4 DEF SyncOk, NoSync
<1> QED BY <1>1, <1>6, <1>8, <1>9, <1>10, <1>11 DEF NInv, NotesInv

\* Every step of the wallet and its server.
LEMMA NotesStep == ASSUME NInv, [Next]_vars PROVE NInv' /\ Safe
<1>1. IInv'
  BY WalletStep DEF NInv
<1>2. Proceeds
  <2>1. CASE \E t \in Tab : Claim(t) \/ ExecStep(t)
    BY <2>1, ClaimProceeds, ShieldProceeds, CancelProceeds, ExactProceeds, JoinProceeds,
       OrderProceeds, UnshieldProceeds, StageProceeds, SubmitProceeds, RefusedProceeds,
       AwaitProceeds, SettleProceeds, ResumeProceeds, ConfirmJoinProceeds,
       ConfirmShieldProceeds, CacheProceeds, EndProceeds, RollbackProceeds DEF ExecStep
  <2>2. CASE \E t \in Tab : SyncStep(t)
    BY <2>2, MergeProceeds, EncryptProceeds, PutProceeds, ConflictProceeds DEF SyncStep
  <2>3. CASE \E t \in Tab : PollStep(t)
    BY <2>3, PollProceeds
  <2>4. CASE ChainStep \/ \E n \in NoteId : OrderFills(n)
    BY <2>4, ChainProceeds
  <2>5. CASE \E t \in Tab, o \in Op : UserEnqueues(t, o)
    BY <2>5, EnqueueProceeds
  <2>6. CASE \E o \in Op : LeaseLapses(o) \/ UserCancels(o) \/ LateHeartbeat(o)
    BY <2>6, LapseProceeds
  <2>7. CASE \E t \in Tab : ExecFault(t) \/ Reload(t) \/ \E c \in Caller : SyncFault(t, c)
    BY <2>7, EndProceeds, ReloadProceeds, PutProceeds
  <2>8. CASE UNCHANGED vars
    BY <2>8, StutterProceeds
  <2> QED BY <2>1, <2>2, <2>3, <2>4, <2>5, <2>6, <2>7, <2>8 DEF Next, Mishap
<1> QED BY <1>1, <1>2 DEF Proceeds, NInv

\* What leaves a copy of the notes may be rolled back: it is not known to be on
\* the chain, and no note the wallet owns otherwise.
LEMMA RemovedIsForgettable ==
  ASSUME NEW n, NEW notes, n \in DOMAIN notes, StoreOk(notes),
         notes[n].state = "pending-output" \/ ~Firm(n), ~notes[n].indexed
  PROVE  /\ Forgettable(notes, n)
         /\ notes[n].status # "active" => notes[n].status = "cancelled"
<1>1. NoteOk(n, notes[n])
  BY DEF StoreOk
<1>2. ~Firm(n)
  BY <1>1 DEF NoteOk
<1> QED BY <1>1, <1>2 DEF NoteOk, IsNote, Forgettable, Firm

\* Steps keep what is written off, in every browser and in the backup.
LEMMA SafeKeepsWrittenOff ==
  ASSUME NInv, Safe
  PROVE  /\ \A b \in Browser : KeptWrittenOff(db[b], db'[b])
         /\ KeptWrittenOff(backup, backup')
<1>1. ASSUME NEW b \in Browser PROVE KeptWrittenOff(db[b], db'[b])
  <2>1. StoreOk(db[b])
    BY DEF NInv, NotesInv, Stored
  <2>2. CASE db'[b] = db[b]
    BY <2>2 DEF KeptWrittenOff
  <2>3. CASE Kept(db[b], db'[b], backup)
    <3>1. ASSUME NEW n \in DOMAIN db[b], n \notin DOMAIN db'[b]
          PROVE  /\ Forgettable(db[b], n)
                 /\ db[b][n].status # "active" => db[b][n].status = "cancelled"
      <4>1. db[b][n].state = "pending-output" /\ ~db[b][n].indexed
        BY <2>3, <3>1 DEF Kept
      <4> QED BY <2>1, <4>1, RemovedIsForgettable
    <3>2. ASSUME NEW n \in DOMAIN db[b], n \in DOMAIN db'[b], db[b][n].status # "active"
          PROVE  db'[b][n].status # "active"
      BY <2>3, <3>2 DEF Kept
    <3> QED BY <3>1, <3>2 DEF KeptWrittenOff
  <2> QED BY <2>2, <2>3 DEF Safe, DbKept
<1>2. KeptWrittenOff(backup, backup')
  <2>1. StoreOk(backup)
    BY DEF NInv, NotesInv, Stored
  <2>2. CASE backup' = backup
    BY <2>2 DEF KeptWrittenOff
  <2>3. CASE Covers(backup', backup)
    <3>1. ASSUME NEW n \in DOMAIN backup, n \notin DOMAIN backup'
          PROVE  /\ Forgettable(backup, n)
                 /\ backup[n].status # "active" => backup[n].status = "cancelled"
      <4>1. ~Firm(n) /\ ~backup[n].indexed
        BY <2>3, <3>1 DEF Covers
      <4> QED BY <2>1, <4>1, RemovedIsForgettable
    <3>2. ASSUME NEW n \in DOMAIN backup, n \in DOMAIN backup', backup[n].status # "active"
          PROVE  backup'[n].status # "active"
      BY <2>3, <3>2 DEF Covers
    <3> QED BY <3>1, <3>2 DEF KeptWrittenOff
  <2> QED BY <2>2, <2>3 DEF Safe
<1> QED BY <1>1, <1>2

\* The backup loses nothing but what may be rolled back.
LEMMA SafeForgetsNothing ==
  ASSUME NInv, Safe, NEW n \in DOMAIN backup \ DOMAIN backup' PROVE Forgettable(backup, n)
<1>1. StoreOk(backup)
  BY DEF NInv, NotesInv, Stored
<1>2. ~Firm(n) /\ ~backup[n].indexed
  BY DEF Safe, Covers
<1> QED BY <1>1, <1>2, RemovedIsForgettable

\* A note that a wallet knows to be spent or cancelled never becomes spendable again,
\* in any browser or in the backup (recoveryPayload.ts, noteManager.ts,
\* operationExecutor.ts): through merges with older copies, rollbacks, reloads and
\* lost leases, with any number of tabs and browsers.  Only the record of a
\* cancelled order that was never seen on the chain may go.
THEOREM SpentStaysSpentHolds == Spec => SpentStaysSpent
<1>1. Init => NInv
  BY InitIsStored
<1>2. NInv /\ [Next]_vars => NInv'
  BY NotesStep
<1>3. NInv /\ [Next]_vars =>
        [/\ \A b \in Browser : KeptWrittenOff(db[b], db'[b])
         /\ KeptWrittenOff(backup, backup')]_vars
  BY NotesStep, SafeKeepsWrittenOff
<1> QED BY <1>1, <1>2, <1>3, PTL DEF Spec, SpentStaysSpent

\* No device overwrites what another one uploaded (backupSync.ts, store.ts): the
\* secrets of a note that is known to be on the chain stay in the backup, and
\* so do those of the notes the wallet began with and of what its joins make.
THEOREM NothingForgottenHolds == Spec => NothingForgotten
<1>1. Init => NInv
  BY InitIsStored
<1>2. NInv /\ [Next]_vars => NInv'
  BY NotesStep
<1>3. NInv /\ [Next]_vars =>
        [\A n \in DOMAIN backup \ DOMAIN backup' : Forgettable(backup, n)]_vars
  BY NotesStep, SafeForgetsNothing
<1> QED BY <1>1, <1>2, <1>3, PTL DEF Spec, NothingForgotten

-----------------------------------------------------------------------------
(***************************************************************************)
(* What is uploaded before it is needed, while no lease lapses under a     *)
(* living executor.                                                        *)
(***************************************************************************)

\* A tab's executor has an operation.
Working(t) == exec[t].pc # "idle"
\* Nobody has claimed the operation yet.
Unclaimed(o) == operation[o] = "none" \/ action[o].status \in {"none", "available"}

\* The records of the queue and of the mishaps to come.
ActionShape ==
  action = [o \in Op |-> [status |-> action[o].status, lease |-> action[o].lease,
                          live |-> action[o].live]]
NoLapse ==
  /\ left = [crash |-> left.crash, lapse |-> left.lapse, cancel |-> left.cancel,
             fault |-> left.fault]
  /\ left.lapse = 0

\* Every executor has the lease in force of its operation, and so no two have one.
Leased ==
  /\ \A t \in Tab : Working(t) => /\ exec[t].lease = action[exec[t].op].lease
                                  /\ action[exec[t].op].live
  /\ \A t, u \in Tab : Working(t) /\ Working(u) /\ t # u => exec[t].op # exec[u].op
  /\ \A o \in Op : Unclaimed(o) => ~action[o].live

\* What a poller has read of operations that were given up is still so.
Listed ==
  /\ poll = [t \in Tab |-> poll[t]]
  /\ \A t \in Tab : poll[t].pc = "listed" =>
       \A o \in Op : poll[t].seen[o] \in GivenUp => Settled(o)

\* An output that an executor has stored, and will send or is about to.
Pledged(t, n) ==
  n \in Outs(t) /\ exec[t].pc \in {"staging", "submit"} /\ ~Settled(exec[t].op)

\* Wherever it has got to, it stays.
PledgeKept(t, n) ==
  /\ n \in DOMAIN Notes(t)
  /\ exec[t].pc = "staging" =>
       /\ sync[t]["exec"].pc = "encrypted" => n \in DOMAIN sync[t]["exec"].notes
       /\ sync[t]["exec"].pc = "ok" => n \in DOMAIN backup
  /\ exec[t].pc = "submit" => n \in DOMAIN backup
  /\ n \in DOMAIN backup =>
       \A u \in Tab, c \in Caller : sync[u][c].current =>
         /\ sync[u][c].pc = "merged" => n \in DOMAIN Notes(u)
         /\ sync[u][c].pc = "encrypted" => n \in DOMAIN sync[u][c].notes
\* All that is pledged is kept.
Pledges == \A t \in Tab : \A n : Pledged(t, n) => PledgeKept(t, n)

\* The inductive invariant, the leases apart.
LInv == ActionShape /\ NoLapse /\ Leased
UInv == NInv /\ LInv /\ Listed /\ Pledges

-----------------------------------------------------------------------------
\* An executor goes on with its operation and its lease, or ends.
Onward(t) ==
  /\ Working(t) /\ \A u \in Tab \ {t} : exec'[u] = exec[u]
  /\ Working(t)' => exec'[t].op = exec[t].op /\ exec'[t].lease = exec[t].lease
\* It has nothing to send any more, or not yet.
Pledgeless(t) == exec[t].pc \notin {"staging", "submit"} \/ exec[t].new = <<>>

\* An executor's step that keeps its operation and lease, with nothing left to send.
LEMMA OnwardTo ==
  ASSUME NInv, NEW t \in Tab, Working(t), NEW j, exec' = [exec EXCEPT ![t] = j],
         j.pc = "idle" \/ (j.op = exec[t].op /\ j.lease = exec[t].lease),
         j.pc \notin {"staging", "submit"} \/ j.new = <<>>
  PROVE  Onward(t) /\ Pledgeless(t)'
BY ExecSet DEF Onward, Pledgeless, Working

\* A step that fails or ends an executor, or takes it to another place.
LEMMA PlainJob ==
  ASSUME NInv, NEW t \in Tab, Working(t),
         \/ Throw(t) \/ exec' = [exec EXCEPT ![t] = NoJob]
         \/ \E p : exec' = [exec EXCEPT ![t] = Keep(exec[t], p)]
         \/ \E p : Goto(t, p) /\ p \notin {"staging", "submit"}
  PROVE  Onward(t) /\ Pledgeless(t)'
<1> DEFINE e == exec[t]
<1>1. IsJob(e)
  BY DEF NInv, IInv, Records
<1>2. CASE exec' = [exec EXCEPT ![t] = NoJob]
  BY <1>2, OnwardTo DEF NoJob
<1>3. ASSUME NEW p, exec' = [exec EXCEPT ![t] = Keep(exec[t], p)]
      PROVE  Onward(t) /\ Pledgeless(t)'
  <2>1. PICK j : j = Keep(e, p)
    OBVIOUS
  <2>2. j.op = e.op /\ j.lease = e.lease /\ j.new = <<>>
    BY <2>1 DEF Keep, NoJob
  <2> QED BY <1>3, <2>1, <2>2, OnwardTo
<1>4. ASSUME NEW p, Goto(t, p), p \notin {"staging", "submit"}
      PROVE  Onward(t) /\ Pledgeless(t)'
  <2>1. PICK j : j = [e EXCEPT !.pc = p]
    OBVIOUS
  <2>2. j.op = e.op /\ j.lease = e.lease /\ j.pc = p
    BY <1>1, <2>1 DEF IsJob
  <2> QED BY <1>4, <2>1, <2>2, OnwardTo DEF Goto
<1> QED BY <1>2, <1>3, <1>4 DEF Throw

\* Steps that submit nothing that has to be uploaded, and stage nothing.
LEMMA PlainStep ==
  ASSUME NInv, NEW t \in Tab,
         \/ ExecuteCancel(t) \/ ExactInput(t) \/ ExecuteOrder(t) \/ ExecuteUnshield(t)
         \/ Submit(t) \/ SubmitRefused(t) \/ AwaitTransaction(t) \/ Settle(t)
         \/ ConfirmJoin(t) \/ ConfirmShield(t) \/ CacheActionResult(t) \/ Complete(t)
         \/ Fail(t) \/ RollbackClientAction(t) \/ ExecFault(t)
  PROVE  Onward(t) /\ Pledgeless(t)'
<1> DEFINE e == exec[t]
<1>1. IsJob(e)
  BY DEF NInv, IInv, Records
<1>2. Working(t)
  BY DEF ExecuteCancel, ExactInput, ExecuteOrder, ExecuteUnshield, Submit, SubmitRefused,
         AwaitTransaction, Settle, ConfirmJoin, ConfirmShield, CacheActionResult, Complete,
         Fail, RollbackClientAction, ExecFault, At, Working
<1>3. ASSUME NEW p, NEW call, NEW ins, NEW order, NEW new,
             Prepare(t, p, call, ins, order, new), p = "add" \/ new = <<>>
      PROVE  Onward(t) /\ Pledgeless(t)'
  <2>1. PICK j : j = [e EXCEPT !.pc = p, !.call = call, !.ins = ins, !.order = order,
                               !.new = new]
    OBVIOUS
  <2>2. j.op = e.op /\ j.lease = e.lease /\ j.pc = p /\ j.new = new
    BY <1>1, <2>1 DEF IsJob
  <2>3. exec' = [exec EXCEPT ![t] = j]
    BY <1>3, <2>1 DEF Prepare
  <2> QED BY <1>2, <1>3, <2>2, <2>3, OnwardTo
<1>4. CASE ExecuteCancel(t)
  <2>1. Throw(t) \/ \E n, new : Prepare(t, "add", "cancel_order", {}, {n}, new)
    BY <1>4 DEF ExecuteCancel
  <2> QED BY <1>2, <1>3, <2>1, PlainJob
<1>5. CASE ExactInput(t)
  <2>1. \/ Throw(t)
        \/ \E plan, j : /\ exec' = [exec EXCEPT ![t] = j]
                        /\ j = [e EXCEPT !.pc = IF plan.steps = <<>> THEN "reserve" ELSE "join",
                                         !.note = plan.note, !.steps = plan.steps]
    BY <1>5 DEF ExactInput
  <2>2. ASSUME NEW plan, NEW j, exec' = [exec EXCEPT ![t] = j],
               j = [e EXCEPT !.pc = IF plan.steps = <<>> THEN "reserve" ELSE "join",
                             !.note = plan.note, !.steps = plan.steps]
        PROVE  Onward(t) /\ Pledgeless(t)'
    <3>1. j.op = e.op /\ j.lease = e.lease /\ j.pc \in {"reserve", "join"}
      BY <1>1, <2>2 DEF IsJob
    <3> QED BY <1>2, <2>2, <3>1, OnwardTo
  <2> QED BY <1>2, <2>1, <2>2, PlainJob
<1>6. CASE ExecuteOrder(t)
  <2>1. \E n, new : Prepare(t, "add", "submit_order", {n}, {}, new)
    BY <1>6 DEF ExecuteOrder
  <2> QED BY <1>3, <2>1
<1>7. CASE ExecuteUnshield(t)
  <2>1. Prepare(t, "submit", "unshield", {e.note}, {}, <<>>)
    BY <1>7 DEF ExecuteUnshield
  <2> QED BY <1>3, <2>1
<1>8. CASE Submit(t)
  <2>1. PICK j : /\ exec' = [exec EXCEPT ![t] = j]
                 /\ j = [e EXCEPT !.pc = "wait", !.tx = Len(txs) + 1]
    BY <1>8 DEF Submit, SubmitContractCall, Relay, Send
  <2>2. j.op = e.op /\ j.lease = e.lease /\ j.pc = "wait"
    BY <1>1, <2>1 DEF IsJob
  <2> QED BY <1>2, <2>1, <2>2, OnwardTo
<1>9. CASE ConfirmJoin(t)
  <2>1. PICK j, steps :
          /\ exec' = [exec EXCEPT ![t] = j]
          /\ j = [e EXCEPT !.pc = IF steps = <<>> THEN "reserve" ELSE "join", !.steps = steps]
    BY <1>9 DEF ConfirmJoin
  <2>2. j.op = e.op /\ j.lease = e.lease /\ j.pc \in {"reserve", "join"}
    BY <1>1, <2>1 DEF IsJob
  <2> QED BY <1>2, <2>1, <2>2, OnwardTo
<1>10. CASE SubmitRefused(t) \/ Complete(t) \/ ConfirmShield(t)
  <2>1. \/ Throw(t) \/ exec' = [exec EXCEPT ![t] = NoJob]
        \/ exec' = [exec EXCEPT ![t] = Keep(exec[t], "finish")] \/ Goto(t, "confirming")
    BY <1>10 DEF SubmitRefused, Complete, ConfirmShield
  <2> QED BY <1>2, <2>1, PlainJob
<1>11. CASE AwaitTransaction(t) \/ Settle(t) \/ CacheActionResult(t) \/ Fail(t)
              \/ RollbackClientAction(t) \/ ExecFault(t)
  <2>1. \/ Throw(t) \/ exec' = [exec EXCEPT ![t] = NoJob]
        \/ \E p \in {"settle", "settling", "complete", "rollback", "rolling"} : Goto(t, p)
    BY <1>11 DEF AwaitTransaction, Settle, CacheActionResult, Fail, RollbackClientAction,
                 ExecFault
  <2> QED BY <1>2, <2>1, PlainJob
<1> QED BY <1>4, <1>5, <1>6, <1>7, <1>8, <1>9, <1>10, <1>11

\* The queue goes on, and its leases stay as they are.
QueueSame ==
  /\ ActionShape'
  /\ \A o \in Op : action'[o].lease = action[o].lease /\ action'[o].live = action[o].live
  /\ \A o \in Op : Unclaimed(o)' => Unclaimed(o)
\* What is settled stays so.
SettledStays == \A o \in Op : Settled(o) => Settled(o)'

\* A client action is reported to be over.
ActionEnds(o) ==
  \E a \in {"complete", "failed"} : action' = [action EXCEPT ![o].status = a]
\* Every change of the queue but a claim and a lapse is of that kind.
LEMMA QueueGoesOn ==
  ASSUME NInv, ActionShape,
         \/ UNCHANGED queueVars
         \/ \E o \in Op : \/ \E lease : CompleteAction(o, lease) \/ FailAction(o, lease, FALSE)
                                          \/ HeartbeatAction(o, lease)
                          \/ CancelOperation(o) \/ \E r : CreateOperation(o, r)
  PROVE  QueueSame /\ SettledStays
<1>0. operation = [o \in Op |-> operation[o]]
  BY DEF NInv, IInv, Records
<1>1. CASE UNCHANGED queueVars
  BY <1>1 DEF queueVars, QueueSame, SettledStays, Unclaimed, Settled, ActionShape
<1>2. ASSUME NEW o \in Op, NEW s \in {"succeeded", "failed", "cancelled"},
             operation' = [operation EXCEPT ![o] = s], UNCHANGED action \/ ActionEnds(o)
      PROVE  QueueSame /\ SettledStays
  <2>1. \A p \in Op : operation'[p] = IF p = o THEN s ELSE operation[p]
    BY <1>0, <1>2
  <2>2. CASE UNCHANGED action
    BY <1>2, <2>1, <2>2 DEF QueueSame, SettledStays, Unclaimed, Settled, ActionShape
  <2>3. CASE ActionEnds(o)
    <3>1. PICK a \in {"complete", "failed"} : action' = [action EXCEPT ![o].status = a]
      BY <2>3 DEF ActionEnds
    <3>2. /\ action' = [p \in Op |-> action'[p]]
          /\ \A p \in Op : action'[p] = IF p = o THEN [action[o] EXCEPT !.status = a]
                                        ELSE action[p]
      BY <3>1 DEF ActionShape
    <3>3. \A p \in Op : /\ action'[p] = [status |-> action'[p].status,
                                         lease |-> action'[p].lease, live |-> action'[p].live]
                        /\ action'[p].lease = action[p].lease
                        /\ action'[p].live = action[p].live
                        /\ action'[p].status \in {a, action[p].status}
      BY <3>2 DEF ActionShape
    <3>4. ActionShape'
      BY <3>2, <3>3 DEF ActionShape
    <3> QED BY <1>2, <2>1, <3>3, <3>4 DEF QueueSame, SettledStays, Unclaimed, Settled
  <2> QED BY <1>2, <2>2, <2>3
<1>3. ASSUME NEW o \in Op, NEW lease, HeartbeatAction(o, lease) PROVE QueueSame /\ SettledStays
  <2>1. /\ action' = [p \in Op |-> action'[p]] /\ UNCHANGED operation
        /\ \A p \in Op : action'[p] = IF p = o
                                      THEN [action[o] EXCEPT !.status = "leased"] ELSE action[p]
    BY <1>3 DEF HeartbeatAction, ActionShape
  <2>2. \A p \in Op : /\ action'[p] = [status |-> action'[p].status, lease |-> action'[p].lease,
                                       live |-> action'[p].live]
                      /\ action'[p].lease = action[p].lease /\ action'[p].live = action[p].live
                      /\ action'[p].status \in {"leased", action[p].status}
    BY <2>1 DEF ActionShape
  <2>3. ActionShape'
    BY <2>1, <2>2 DEF ActionShape
  <2> QED BY <2>1, <2>2, <2>3 DEF QueueSame, SettledStays, Unclaimed, Settled
<1>4. ASSUME NEW o \in Op, NEW r, CreateOperation(o, r) PROVE QueueSame /\ SettledStays
  <2>1. /\ action' = [p \in Op |-> action'[p]] /\ operation[o] = "none"
        /\ \A p \in Op : action'[p] = IF p = o
                                      THEN [action[o] EXCEPT !.status = "available"] ELSE action[p]
        /\ \A p \in Op : operation'[p] = IF p = o THEN "waiting_for_client" ELSE operation[p]
    BY <1>0, <1>4 DEF CreateOperation, ActionShape
  <2>2. \A p \in Op : /\ action'[p] = [status |-> action'[p].status, lease |-> action'[p].lease,
                                       live |-> action'[p].live]
                      /\ action'[p].lease = action[p].lease /\ action'[p].live = action[p].live
                      /\ p # o => action'[p] = action[p]
    BY <2>1 DEF ActionShape
  <2>3. ActionShape'
    BY <2>1, <2>2 DEF ActionShape
  <2> QED BY <2>1, <2>2, <2>3 DEF QueueSame, SettledStays, Unclaimed, Settled
<1>5. ASSUME NEW o \in Op, NEW lease, CompleteAction(o, lease) \/ FailAction(o, lease, FALSE)
      PROVE  QueueSame /\ SettledStays
  <2>1. PICK s \in {"succeeded", "failed", "cancelled"} : operation' = [operation EXCEPT ![o] = s]
    BY <1>5 DEF CompleteAction, FailAction
  <2>2. ActionEnds(o)
    BY <1>5 DEF CompleteAction, FailAction, ActionEnds
  <2> QED BY <1>2, <2>1, <2>2
<1>6. ASSUME NEW o \in Op, CancelOperation(o) PROVE QueueSame /\ SettledStays
  <2>1. PICK s \in {"succeeded", "failed", "cancelled"} : operation' = [operation EXCEPT ![o] = s]
    BY <1>6 DEF CancelOperation
  <2>2. UNCHANGED action
    BY <1>6 DEF CancelOperation
  <2> QED BY <1>2, <2>1, <2>2
<1> QED BY <1>1, <1>3, <1>4, <1>5, <1>6

\* Executors keep their leases while they go on.
LEMMA LeasesStay ==
  ASSUME Leased, QueueSame, \A t \in Tab : Working(t) => exec[t].op \in Op,
         \A t \in Tab : Working(t)' => /\ Working(t) /\ exec'[t].op = exec[t].op
                                       /\ exec'[t].lease = exec[t].lease
  PROVE  Leased'
<1>1. \A t \in Tab : Working(t)' => /\ exec'[t].lease = action'[exec'[t].op].lease
                                    /\ action'[exec'[t].op].live
  BY DEF Leased, QueueSame
<1>2. \A t, u \in Tab : Working(t)' /\ Working(u)' /\ t # u => exec'[t].op # exec'[u].op
  BY DEF Leased
<1>3. \A o \in Op : Unclaimed(o)' => ~action'[o].live
  BY DEF Leased, QueueSame
<1> QED BY <1>1, <1>2, <1>3 DEF Leased

\* Only an executor that is gone loses its lease.
LEMMA LapseKeeps ==
  ASSUME NInv, LInv, NEW o \in Op, LeaseLapses(o)
  PROVE  LInv' /\ SettledStays
<1>1. /\ ~Held(o) /\ UNCHANGED <<exec, operation>> /\ left' = left
      /\ action' = [action EXCEPT ![o].live = FALSE]
  <2>1. ~Held(o)
    BY DEF LeaseLapses, LInv, NoLapse
  <2> QED BY <2>1 DEF LeaseLapses, LeaseExpires, LInv, NoLapse
<1>2. /\ action' = [p \in Op |-> action'[p]]
      /\ \A p \in Op : action'[p] = IF p = o THEN [action[o] EXCEPT !.live = FALSE]
                                    ELSE action[p]
  BY <1>1 DEF LInv, ActionShape
<1>3. \A p \in Op : /\ action'[p] = [status |-> action'[p].status, lease |-> action'[p].lease,
                                     live |-> action'[p].live]
                    /\ action'[p].status = action[p].status
                    /\ action'[p].lease = action[p].lease
                    /\ p = o => action'[p].live = FALSE
                    /\ p # o => action'[p].live = action[p].live
  BY <1>2 DEF LInv, ActionShape
<1>4. ActionShape'
  BY <1>2, <1>3 DEF ActionShape
<1>5. \A t \in Tab : Working(t) => exec[t].op \in Op /\ exec[t].op # o
  BY <1>1 DEF Held, LInv, Leased, NInv, NotesInv, JobOk, Reached, Working
<1>6. \A t \in Tab : Working(t)' => /\ exec'[t].lease = action'[exec'[t].op].lease
                                    /\ action'[exec'[t].op].live
  BY <1>1, <1>3, <1>5 DEF LInv, Leased, Working
<1>7. \A t, u \in Tab : Working(t)' /\ Working(u)' /\ t # u => exec'[t].op # exec'[u].op
  BY <1>1 DEF LInv, Leased, Working
<1>8. \A p \in Op : Unclaimed(p)' => ~action'[p].live
  BY <1>1, <1>3 DEF LInv, Leased, Unclaimed
<1> QED BY <1>1, <1>4, <1>6, <1>7, <1>8 DEF LInv, Leased, NoLapse, SettledStays, Settled

\* An operation that is claimed has no executor.
LEMMA ClaimLeases ==
  ASSUME NInv, LInv, NEW t \in Tab, Claim(t)
  PROVE  /\ LInv' /\ SettledStays /\ Pledgeless(t)'
         /\ \A u \in Tab \ {t} : exec'[u] = exec[u]
<1>1. UNCHANGED <<operation, left>>
  BY DEF Claim, ClaimAction
<1>2. PICK o \in Op : /\ ClaimAction(o)
                      /\ exec' = [exec EXCEPT ![t] =
                           [NoJob EXCEPT !.op = o, !.lease = action[o].lease + 1,
                              !.pc = IF o \in cached[BrowserOf[t]] THEN "finish" ELSE "begin"]]
  BY DEF Claim
<1>3. PICK j, l, p : /\ exec' = [exec EXCEPT ![t] = j] /\ p \in {"finish", "begin"}
                     /\ l = action[o].lease + 1
                     /\ j = [NoJob EXCEPT !.op = o, !.lease = l, !.pc = p]
  BY <1>2
<1>4. j.op = o /\ j.lease = l /\ j.pc = p
  BY <1>3 DEF NoJob
<1>5. exec'[t] = j /\ \A u \in Tab \ {t} : exec'[u] = exec[u]
  BY <1>3, ExecSet
<1>6. /\ action' = [q \in Op |-> action'[q]]
      /\ action'[o] = [status |-> "leased", live |-> TRUE, lease |-> l]
      /\ \A q \in Op : q # o => action'[q] = action[q]
  BY <1>2, <1>3 DEF ClaimAction, LInv, ActionShape
<1>7. ActionShape'
  BY <1>6 DEF LInv, ActionShape
<1>8. ~action[o].live
  BY <1>2 DEF ClaimAction, ActionClaimable, LInv, Leased, Unclaimed
<1>9. \A u \in Tab : Working(u) => exec[u].op \in Op /\ exec[u].op # o
  BY <1>8 DEF LInv, Leased, NInv, NotesInv, JobOk, Reached, Working
<1>10. \A u \in Tab : Working(u)' => /\ exec'[u].lease = action'[exec'[u].op].lease
                                     /\ action'[exec'[u].op].live
  <2>1. ASSUME NEW u \in Tab, Working(u)', u # t
        PROVE  exec'[u].lease = action'[exec'[u].op].lease /\ action'[exec'[u].op].live
    BY <1>5, <1>6, <1>9, <2>1 DEF LInv, Leased, Working
  <2>2. exec'[t].lease = action'[exec'[t].op].lease /\ action'[exec'[t].op].live
    BY <1>4, <1>5, <1>6
  <2> QED BY <2>1, <2>2
<1>11. \A u, v \in Tab : Working(u)' /\ Working(v)' /\ u # v => exec'[u].op # exec'[v].op
  BY <1>4, <1>5, <1>9 DEF LInv, Leased, Working
<1>12. \A q \in Op : Unclaimed(q)' => ~action'[q].live
  <2>1. ~Unclaimed(o)'
    BY <1>1, <1>2, <1>6 DEF Unclaimed, ClaimAction, ActionClaimable
  <2> QED BY <1>1, <1>6, <2>1 DEF LInv, Leased, Unclaimed
<1> QED BY <1>1, <1>3, <1>4, <1>5, <1>7, <1>10, <1>11, <1>12
        DEF LInv, Leased, NoLapse, Pledgeless, SettledStays, Settled

\* An executor stores what it is about to make, of which nobody knows.
Stages(t) ==
  /\ Onward(t) /\ exec'[t].pc = "staging" /\ WantSync(t, "exec") /\ UNCHANGED backup
  /\ \E new : /\ db' = [db EXCEPT ![BrowserOf[t]] = Put(Notes(t), new)]
              /\ exec'[t].new = new /\ \A n \in DOMAIN new : n \notin DOMAIN backup
\* An executor goes on when what it stored is uploaded.
Uploaded(t) ==
  /\ Onward(t) /\ exec[t].pc = "staging" /\ Synced(t, "exec") /\ exec'[t].pc = "submit"
  /\ exec'[t].new = exec[t].new /\ UNCHANGED <<db, backup>> /\ SyncReturns(t, "exec")

\* The three steps that store outputs before they are uploaded.
LEMMA ShieldStages == ASSUME NInv, NEW t \in Tab, ExecuteShield(t) PROVE Stages(t)
<1> DEFINE e == exec[t]
<1>1. IsJob(e) /\ Working(t) /\ used \in Nat
  BY DEF ExecuteShield, At, Working, NInv, IInv, Records, Shapes
<1>2. PICK new : /\ Stage(t, new) /\ Prepare(t, "staging", "shield", {}, {}, new)
                 /\ DOMAIN new = {used + 1}
  BY DEF ExecuteShield
<1>3. PICK j : j = [e EXCEPT !.pc = "staging", !.call = "shield", !.ins = {}, !.order = {},
                             !.new = new]
  OBVIOUS
<1>4. j.op = e.op /\ j.lease = e.lease /\ j.pc = "staging" /\ j.new = new
  BY <1>1, <1>3 DEF IsJob
<1>5. exec' = [exec EXCEPT ![t] = j]
  BY <1>2, <1>3 DEF Prepare
<1>6. exec'[t] = j /\ \A u \in Tab \ {t} : exec'[u] = exec[u]
  BY <1>5, ExecSet
<1>7. \A n \in DOMAIN new : n \notin DOMAIN backup
  BY <1>1, <1>2 DEF NInv, NotesInv, Stored, StoreOk
<1>8. /\ db' = [db EXCEPT ![BrowserOf[t]] = Put(Notes(t), new)] /\ WantSync(t, "exec")
      /\ UNCHANGED backup
  BY <1>2 DEF Stage, SetNotes, ExecuteShield
<1> QED BY <1>1, <1>4, <1>6, <1>7, <1>8 DEF Stages, Onward

\* A split or join stores both its outputs.
LEMMA JoinStages == ASSUME NInv, NEW t \in Tab, ExecuteJoin(t) PROVE Stages(t)
<1> DEFINE e == exec[t]
<1>1. IsJob(e) /\ Working(t) /\ used \in Nat
  BY DEF ExecuteJoin, At, Working, NInv, IInv, Records, Shapes
<1>2. PICK step : step = Head(e.steps)
  OBVIOUS
<1>3. PICK k : k = IF step.change > 0 THEN 2 ELSE 1
  OBVIOUS
<1>9. PICK new : new = [n \in (used + 1)..(used + k) |->
                          NewNote(RequestOf(t).asset,
                                  IF n = used + 1 THEN step.target ELSE step.change,
                                  0, 0, "none")]
  OBVIOUS
<1>10. PICK ins : ins = {IF step.a = 0 THEN e.note ELSE step.a, step.b} \ {0}
  OBVIOUS
<1>11. PICK j : j = [e EXCEPT !.pc = "staging", !.call = "join", !.note = used + 1,
                              !.ins = ins, !.new = new]
  OBVIOUS
<1>4. j.op = e.op /\ j.lease = e.lease /\ j.pc = "staging" /\ j.new = new
  BY <1>1, <1>11 DEF IsJob
<1>5. exec' = [exec EXCEPT ![t] = j] /\ Stage(t, new)
  BY <1>2, <1>3, <1>9, <1>10, <1>11 DEF ExecuteJoin
<1>6. exec'[t] = j /\ \A u \in Tab \ {t} : exec'[u] = exec[u]
  BY <1>5, ExecSet
<1>7. \A n \in DOMAIN new : n \notin DOMAIN backup
  <2>1. \A n \in DOMAIN backup : n \in 1..used
    BY DEF NInv, NotesInv, Stored, StoreOk
  <2>2. \A n \in DOMAIN new : n \notin 1..used
    BY <1>1, <1>3, <1>9
  <2> QED BY <2>1, <2>2
<1>8. /\ db' = [db EXCEPT ![BrowserOf[t]] = Put(Notes(t), new)] /\ WantSync(t, "exec")
      /\ UNCHANGED backup
  BY <1>5 DEF Stage, SetNotes, ExecuteJoin
<1> QED BY <1>1, <1>4, <1>6, <1>7, <1>8 DEF Stages, Onward

\* So does an order or a cancellation, in its second step.
LEMMA OutputStages == ASSUME NInv, NEW t \in Tab, StageOutput(t) PROVE Stages(t)
<1> DEFINE e == exec[t]
<1>1. IsJob(e) /\ Working(t) /\ e.pc = "add"
  BY DEF StageOutput, At, Working, NInv, IInv, Records
<1>2. PICK j : j = [e EXCEPT !.pc = "staging"]
  OBVIOUS
<1>3. j.op = e.op /\ j.lease = e.lease /\ j.pc = "staging" /\ j.new = e.new
  BY <1>1, <1>2 DEF IsJob
<1>4. exec' = [exec EXCEPT ![t] = j]
  BY <1>2 DEF StageOutput, Goto
<1>5. exec'[t] = j /\ \A u \in Tab \ {t} : exec'[u] = exec[u]
  BY <1>4, ExecSet
<1>6. \A n \in DOMAIN e.new : n \notin DOMAIN backup
  BY <1>1 DEF NInv, NotesInv, Stored, StoreOk, NoteOk, CopyOk, Outs
<1>7. /\ db' = [db EXCEPT ![BrowserOf[t]] = Put(Notes(t), e.new)] /\ WantSync(t, "exec")
      /\ UNCHANGED backup
  BY DEF Stage, SetNotes, StageOutput
<1> QED BY <1>1, <1>3, <1>5, <1>6, <1>7 DEF Stages, Onward

\* Only an upload that succeeded leads on to the transaction.
LEMMA ResumeUploads ==
  ASSUME NInv, NEW t \in Tab, ResumeAfterSync(t)
  PROVE  Uploaded(t) \/ (Onward(t) /\ Pledgeless(t)')
<1> DEFINE e == exec[t]
           ok == Synced(t, "exec")
<1>1. /\ IsJob(e) /\ Working(t) /\ e.pc \in {"staging", "settling", "confirming", "rolling"}
      /\ exec' = [exec EXCEPT ![t] = AfterSync(e, ok)] /\ UNCHANGED backup
      /\ SyncReturns(t, "exec") /\ (e.pc = "staging" /\ ok => UNCHANGED db)
  BY DEF ResumeAfterSync, At, Working, NInv, IInv, Records
<1>2. ok \in BOOLEAN
  BY DEF Synced
<1> HIDE DEF ok
<1>3. CASE e.pc = "staging" /\ ok
  <2>1. PICK j : j = [e EXCEPT !.pc = "submit"]
    OBVIOUS
  <2>2. j.op = e.op /\ j.lease = e.lease /\ j.pc = "submit" /\ j.new = e.new
    BY <1>1, <2>1 DEF IsJob
  <2>3. exec' = [exec EXCEPT ![t] = j]
    BY <1>1, <1>3, <2>1 DEF AfterSync, AfterUpload
  <2>4. exec'[t] = j /\ \A u \in Tab \ {t} : exec'[u] = exec[u]
    BY <2>3, ExecSet
  <2>5. Onward(t)
    BY <1>1, <2>2, <2>4 DEF Onward
  <2> QED BY <1>1, <1>3, <2>2, <2>4, <2>5 DEF Uploaded, ok
<1>4. CASE ~(e.pc = "staging" /\ ok)
  <2>1. \/ AfterSync(e, ok) = NoJob \/ \E p : AfterSync(e, ok) = Keep(e, p)
        \/ AfterSync(e, ok) = [e EXCEPT !.pc = "confirm"]
        \/ AfterSync(e, ok) = [e EXCEPT !.pc = "settle", !.call = "unshielded"]
    BY <1>1, <1>2, <1>4 DEF AfterSync, AfterUpload, AfterRollback
  <2>2. CASE AfterSync(e, ok) = NoJob \/ \E p : AfterSync(e, ok) = Keep(e, p)
    BY <1>1, <2>2, PlainJob
  <2>3. CASE AfterSync(e, ok) = [e EXCEPT !.pc = "confirm"]
    <3>1. Goto(t, "confirm")
      BY <1>1, <2>3 DEF Goto
    <3>2. \E p : Goto(t, p) /\ p \notin {"staging", "submit"}
      BY <3>1
    <3> QED BY <1>1, <3>2, PlainJob
  <2>4. CASE AfterSync(e, ok) = [e EXCEPT !.pc = "settle", !.call = "unshielded"]
    <3>1. PICK j : j = [e EXCEPT !.pc = "settle", !.call = "unshielded"]
      OBVIOUS
    <3>2. j.op = e.op /\ j.lease = e.lease /\ j.pc = "settle"
      BY <1>1, <3>1 DEF IsJob
    <3> QED BY <1>1, <2>4, <3>1, <3>2, OnwardTo
  <2> QED BY <2>1, <2>2, <2>3, <2>4
<1> QED BY <1>3, <1>4

\* There are no other kinds of steps of an executor.
LEMMA ExecStepKinds ==
  ASSUME NInv, NEW t \in Tab, ExecStep(t) \/ ExecFault(t)
  PROVE  Stages(t) \/ Uploaded(t) \/ (Onward(t) /\ Pledgeless(t)')
<1>1. CASE ExecuteShield(t) \/ ExecuteJoin(t) \/ StageOutput(t)
  BY <1>1, ShieldStages, JoinStages, OutputStages
<1>2. CASE ResumeAfterSync(t)
  BY <1>2, ResumeUploads
<1> QED BY <1>1, <1>2, PlainStep DEF ExecStep

\* Other mishaps leave the number of lapses at zero.
LEMMA LeftStays ==
  ASSUME NoLapse,
         \/ UNCHANGED left
         \/ \E x : \/ left' = [left EXCEPT !.fault = x] \/ left' = [left EXCEPT !.crash = x]
                   \/ left' = [left EXCEPT !.cancel = x]
         \/ \E x, y : left' = [left EXCEPT !.crash = x, !.fault = y]
  PROVE  NoLapse'
BY DEF NoLapse

\* While no lease lapses under it, every executor keeps the lease in force.
LEMMA LeaseStep == ASSUME NInv, LInv, [Next]_vars PROVE LInv' /\ SettledStays
<1>1. \A t \in Tab : Working(t) => exec[t].op \in Op
  BY DEF NInv, NotesInv, JobOk, Reached, Working
<1>2. ASSUME NoLapse', QueueSame, SettledStays,
             \A t \in Tab : Working(t)' => /\ Working(t) /\ exec'[t].op = exec[t].op
                                           /\ exec'[t].lease = exec[t].lease
      PROVE  LInv' /\ SettledStays
  BY <1>1, <1>2, LeasesStay DEF LInv, QueueSame
<1>3. CASE \E t \in Tab : Claim(t)
  BY <1>3, ClaimLeases
<1>4. ASSUME NEW t \in Tab, ExecStep(t) \/ ExecFault(t) PROVE LInv' /\ SettledStays
  <2>1. Onward(t)
    BY <1>4, ExecStepKinds DEF Stages, Uploaded
  <2>2. exec[t].op \in Op
    BY <1>1, <2>1 DEF Onward
  <2>3. \/ UNCHANGED queueVars \/ CompleteAction(exec[t].op, exec[t].lease)
        \/ FailAction(exec[t].op, exec[t].lease, FALSE)
    BY <1>4 DEF ExecStep, ExecFault, ExecuteShield, ExecuteCancel, ExactInput, ExecuteJoin,
       ExecuteOrder, ExecuteUnshield, StageOutput, Submit, SubmitRefused, AwaitTransaction,
       Settle, ResumeAfterSync, ConfirmJoin, ConfirmShield, CacheActionResult, Complete, Fail,
       RollbackClientAction
  <2>4. QueueSame /\ SettledStays
    BY <2>2, <2>3, QueueGoesOn DEF LInv
  <2>5. UNCHANGED left \/ \E x : left' = [left EXCEPT !.fault = x]
    BY <1>4 DEF ExecStep, ExecFault, ExecuteShield, ExecuteCancel, ExactInput, ExecuteJoin,
       ExecuteOrder, ExecuteUnshield, StageOutput, Submit, SubmitRefused, AwaitTransaction,
       Settle, ResumeAfterSync, ConfirmJoin, ConfirmShield, CacheActionResult, Complete, Fail,
       RollbackClientAction
  <2>6. NoLapse'
    BY <2>5, LeftStays DEF LInv
  <2> QED BY <1>2, <2>1, <2>4, <2>6 DEF Onward, Working
<1>5. ASSUME NEW t \in Tab, Reload(t) PROVE LInv' /\ SettledStays
  <2>1. exec' = [exec EXCEPT ![t] = NoJob] /\ UNCHANGED queueVars
    BY <1>5 DEF Reload
  <2>2. exec'[t] = NoJob /\ \A u \in Tab \ {t} : exec'[u] = exec[u]
    BY <2>1, ExecSet
  <2>3. NoJob.pc = "idle"
    BY DEF NoJob
  <2>4. NoLapse'
    BY <1>5, LeftStays DEF LInv, Reload
  <2> QED BY <1>2, <2>1, <2>2, <2>3, <2>4, QueueGoesOn DEF Working, LInv
<1>6. ASSUME UNCHANGED exec, NoLapse',
             \/ UNCHANGED queueVars
             \/ \E o \in Op : \/ \E lease : HeartbeatAction(o, lease)
                              \/ CancelOperation(o) \/ \E r : CreateOperation(o, r)
      PROVE  LInv' /\ SettledStays
  <2>1. QueueSame /\ SettledStays
    BY <1>6, QueueGoesOn DEF LInv
  <2> QED BY <1>2, <1>6, <2>1 DEF Working
<1>7. CASE \E t \in Tab : SyncStep(t) \/ PollStep(t)
  <2>1. UNCHANGED <<exec, left, queueVars>>
    BY <1>7 DEF SyncStep, SyncMerge, SyncEncrypt, SyncPut, SyncConflict, PollStep, RefreshList,
                ReconcileOperationJournals, PollNotes, PollDone
  <2> QED BY <1>6, <2>1, LeftStays DEF LInv
<1>8. CASE ChainStep \/ \E n \in NoteId : OrderFills(n)
  <2>1. UNCHANGED <<exec, queueVars>>
    BY <1>8 DEF ChainStep, TxLands, TxFails, OrderFills
  <2>2. UNCHANGED left \/ \E x : left' = [left EXCEPT !.fault = x]
    BY <1>8 DEF ChainStep, TxLands, TxFails, OrderFills
  <2> QED BY <1>6, <2>1, <2>2, LeftStays DEF LInv
<1>9. CASE \E t \in Tab, c \in Caller : SyncFault(t, c)
  <2>1. UNCHANGED <<exec, queueVars>> /\ \E x : left' = [left EXCEPT !.fault = x]
    BY <1>9 DEF SyncFault
  <2> QED BY <1>6, <2>1, LeftStays DEF LInv
<1>10. CASE \E t \in Tab, o \in Op : UserEnqueues(t, o)
  <2>1. UNCHANGED <<exec, left>> /\ \E o \in Op : \E r : CreateOperation(o, r)
    BY <1>10 DEF UserEnqueues, wallet
  <2> QED BY <1>6, <2>1, LeftStays DEF LInv
<1>11. CASE \E o \in Op : UserCancels(o) \/ LateHeartbeat(o)
  <2>1. /\ UNCHANGED exec
        /\ UNCHANGED left \/ \E x : left' = [left EXCEPT !.cancel = x]
        /\ \E o \in Op : CancelOperation(o) \/ \E lease : HeartbeatAction(o, lease)
    BY <1>11 DEF UserCancels, LateHeartbeat, wallet
  <2> QED BY <1>6, <2>1, LeftStays DEF LInv
<1>12. CASE \E o \in Op : LeaseLapses(o)
  BY <1>12, LapseKeeps
<1>13. CASE UNCHANGED vars
  <2>1. UNCHANGED <<exec, left, queueVars>>
    BY <1>13 DEF vars, wallet
  <2> QED BY <1>6, <2>1, LeftStays DEF LInv
<1> QED BY <1>3, <1>4, <1>5, <1>7, <1>8, <1>9, <1>10, <1>11, <1>12, <1>13 DEF Next, Mishap

\* What a poller knows of operations that were given up stays true.
LEMMA ListedStep == ASSUME NInv, Listed, SettledStays, [Next]_vars PROVE Listed'
<1>1. CASE UNCHANGED poll
  BY <1>1 DEF Listed, SettledStays
<1>2. ASSUME NEW t \in Tab, NEW p, poll' = [poll EXCEPT ![t] = p],
             p.pc = "listed" => p.seen = operation
      PROVE  Listed'
  <2>1. \A o \in Op : operation[o] \in GivenUp => Settled(o)
    BY DEF GivenUp, Settled
  <2>2. /\ poll' = [u \in Tab |-> poll'[u]] /\ poll'[t] = p
        /\ \A u \in Tab : u # t => poll'[u] = poll[u]
    BY <1>2 DEF Listed
  <2> QED BY <1>2, <2>1, <2>2 DEF Listed, SettledStays
<1>3. CASE \E t \in Tab : PollStep(t) \/ Reload(t)
  <2>1. PICK t \in Tab : PollStep(t) \/ Reload(t)
    BY <1>3
  <2>2. \E p : poll' = [poll EXCEPT ![t] = p] /\ (p.pc = "listed" => p.seen = operation)
    BY <2>1 DEF PollStep, Reload, RefreshList, ReconcileOperationJournals, PollNotes, PollDone,
                NoPoll
  <2> QED BY <1>2, <2>2
<1>4. CASE \E t \in Tab : Claim(t) \/ SyncStep(t) \/ ExecStep(t)
  <2>1. CASE \E t \in Tab : Claim(t) \/ SyncStep(t)
    BY <1>1, <2>1 DEF Claim, SyncStep, SyncMerge, SyncEncrypt, SyncPut, SyncConflict
  <2>2. CASE \E t \in Tab : ExecStep(t)
    <3>1. UNCHANGED poll
      BY <2>2 DEF ExecStep, ExecuteShield, ExecuteCancel, ExactInput, ExecuteJoin,
       ExecuteOrder, ExecuteUnshield, StageOutput, Submit, SubmitRefused, AwaitTransaction,
       Settle, ResumeAfterSync, ConfirmJoin, ConfirmShield, CacheActionResult, Complete, Fail,
       RollbackClientAction
    <3> QED BY <1>1, <3>1
  <2> QED BY <1>4, <2>1, <2>2
<1>5. CASE \/ \E t \in Tab : ExecFault(t) \/ \E c \in Caller : SyncFault(t, c)
           \/ ChainStep \/ \E n \in NoteId : OrderFills(n)
           \/ \E o \in Op : UserCancels(o) \/ LateHeartbeat(o) \/ LeaseLapses(o)
           \/ \E t \in Tab, o \in Op : UserEnqueues(t, o)
           \/ UNCHANGED vars
  <2>1. UNCHANGED poll
    BY <1>5 DEF ExecFault, SyncFault, ChainStep, TxLands, TxFails, OrderFills, UserCancels,
                LateHeartbeat, LeaseLapses, UserEnqueues, wallet, vars
  <2> QED BY <1>1, <2>1
<1> QED BY <1>3, <1>4, <1>5 DEF Next, Mishap

-----------------------------------------------------------------------------
\* What a step leaves of the copies of what is pledged.
PledgedStay ==
  \A t \in Tab : \A n : Pledged(t, n) =>
    \A b \in Browser : n \in DOMAIN db[b] => n \in DOMAIN db'[b]
\* A sync is asked for, ends, or goes on with a base that may be stale.
SyncsBegin ==
  \A u \in Tab, c \in Caller :
    \/ sync'[u][c].pc \notin {"merged", "encrypted", "ok"}
    \/ /\ sync'[u][c].pc = sync[u][c].pc /\ sync'[u][c].notes = sync[u][c].notes
       /\ sync'[u][c].current => sync[u][c].current

\* A step that keeps the copies and the executor's place keeps its pledge.
LEMMA PledgeStays ==
  ASSUME NEW t \in Tab, NEW n, Pledged(t, n), PledgeKept(t, n), exec'[t].pc = exec[t].pc,
         PledgedStay, SyncsBegin, UNCHANGED backup
  PROVE  PledgeKept(t, n)'
<1>1. \A u \in Tab : n \in DOMAIN Notes(u) => n \in DOMAIN Notes(u)'
  BY WalletAssumption DEF PledgedStay, Notes
<1>2. "exec" \in Caller
  BY DEF Caller
<1>3. /\ n \in DOMAIN Notes(t)'
      /\ exec'[t].pc = "submit" => n \in DOMAIN backup'
  BY <1>1 DEF PledgeKept
<1>4. exec'[t].pc = "staging" =>
        /\ sync'[t]["exec"].pc = "encrypted" => n \in DOMAIN sync'[t]["exec"].notes
        /\ sync'[t]["exec"].pc = "ok" => n \in DOMAIN backup'
  BY <1>2 DEF PledgeKept, SyncsBegin
<1>5. ASSUME n \in DOMAIN backup', NEW u \in Tab, NEW c \in Caller, sync'[u][c].current
      PROVE  /\ sync'[u][c].pc = "merged" => n \in DOMAIN Notes(u)'
             /\ sync'[u][c].pc = "encrypted" => n \in DOMAIN sync'[u][c].notes
  BY <1>1, <1>5 DEF PledgeKept, SyncsBegin
<1> QED BY <1>3, <1>4, <1>5 DEF PledgeKept

\* An executor that is where it was has pledged nothing new.
LEMMA PledgedBefore ==
  ASSUME NInv, SettledStays, NEW t \in Tab, exec'[t] = exec[t], NEW n, Pledged(t, n)'
  PROVE  Pledged(t, n)
<1>1. exec[t].pc # "idle" => exec[t].op \in Op
  BY DEF NInv, NotesInv, JobOk, Reached
<1> QED BY <1>1 DEF Pledged, SettledStays, Outs

\* Without outputs there is nothing pledged.
LEMMA PledgelessIs == ASSUME NEW t \in Tab, NEW n, Pledgeless(t)' PROVE ~Pledged(t, n)'
<1>1. <<>> = [i \in {} |-> i]
  OBVIOUS
<1> QED BY <1>1 DEF Pledgeless, Pledged, Outs

\* Steps of which at most one executor's comes to an end of its pledges.
LEMMA PledgesStay ==
  ASSUME NInv, Pledges, SettledStays, PledgedStay, SyncsBegin, UNCHANGED backup,
         \A u \in Tab : exec'[u] = exec[u] \/ Pledgeless(u)'
  PROVE  Pledges'
<1>1. ASSUME NEW t \in Tab, NEW n, Pledged(t, n)' PROVE PledgeKept(t, n)'
  <2>1. exec'[t] = exec[t]
    BY <1>1, PledgelessIs
  <2>2. Pledged(t, n)
    BY <1>1, <2>1, PledgedBefore
  <2>3. PledgeKept(t, n)
    BY <2>2 DEF Pledges
  <2> QED BY <2>1, <2>2, <2>3, PledgeStays
<1> QED BY <1>1 DEF Pledges

\* Syncs that are asked for, or whose end is noticed.
LEMMA SyncsBeginTo ==
  ASSUME NInv, NEW t \in Tab,
         UNCHANGED sync \/ \E c \in Caller : WantSync(t, c) \/ SyncReturns(t, c)
  PROVE  SyncsBegin
<1>1. CASE UNCHANGED sync
  BY <1>1 DEF SyncsBegin
<1>2. ASSUME NEW c \in Caller, WantSync(t, c) \/ SyncReturns(t, c) PROVE SyncsBegin
  <2>1. PICK s \in {Wanted, NoSync} : sync' = [sync EXCEPT ![t][c] = s]
    BY <1>2 DEF WantSync, SyncReturns
  <2>2. IsSync(s) /\ s.current \in BOOLEAN
    BY SyncBegins
  <2>3. sync'[t][c] = s /\ \A u \in Tab, d \in Caller : u # t \/ d # c => sync'[u][d] = sync[u][d]
    BY <2>1, <2>2, SyncSet
  <2>4. s.pc \notin {"merged", "encrypted", "ok"}
    BY DEF Wanted, NoSync
  <2> QED BY <2>3, <2>4 DEF SyncsBegin
<1> QED BY <1>1, <1>2

\* A browser whose notes are replaced.
LEMMA SetGrows ==
  ASSUME NInv, NEW t \in Tab,
         \/ UNCHANGED db
         \/ \E new : /\ db' = [db EXCEPT ![BrowserOf[t]] = new]
                     /\ \A n \in DOMAIN Notes(t) :
                          n \in DOMAIN new \/ \A u \in Tab : ~Pledged(u, n)
  PROVE  PledgedStay
<1>1. CASE UNCHANGED db
  BY <1>1 DEF PledgedStay
<1>2. ASSUME NEW new, db' = [db EXCEPT ![BrowserOf[t]] = new],
             \A n \in DOMAIN Notes(t) : n \in DOMAIN new \/ \A u \in Tab : ~Pledged(u, n)
      PROVE  PledgedStay
  <2>1. \A b \in Browser : db'[b] = IF b = BrowserOf[t] THEN new ELSE db[b]
    BY <1>2 DEF NInv, Shapes
  <2> QED BY <1>2, <2>1 DEF PledgedStay, Notes
<1> QED BY <1>1, <1>2

\* A copy of a pledged output belongs to the operation that pledged it.
LEMMA PledgedOp ==
  ASSUME NInv, NEW t \in Tab, NEW b \in Browser, NEW n \in DOMAIN db[b], Pledged(t, n),
         db[b][n].state = "pending-output"
  PROVE  db[b][n].op = exec[t].op
BY DEF NInv, NotesInv, Stored, StoreOk, NoteOk, CopyOk, Pledged

\* A rollback takes back what its own operation staged, which has one executor.
LEMMA RollbackPledges ==
  ASSUME NInv, Leased, NEW t \in Tab, RollbackClientAction(t) PROVE PledgedStay
<1>1. PICK notes, gone, o :
        /\ notes = Notes(t) /\ o = exec[t].op /\ gone = Abandoned(notes, o)
  OBVIOUS
<1>2. PICK new : /\ db' = [db EXCEPT ![BrowserOf[t]] = new]
                 /\ DOMAIN new = DOMAIN notes \ gone
  <2>1. PICK kept : kept = Without(notes, gone)
    OBVIOUS
  <2>2. PICK new : new = Update(kept, {n \in DOMAIN kept : kept[n].op = o
                                         /\ kept[n].state = "reserved"}, Release)
    OBVIOUS
  <2>3. DOMAIN new = DOMAIN notes \ gone
    BY <2>1, <2>2 DEF Update, Without
  <2>4. SetNotes(t, new)
    BY <1>1, <2>1, <2>2 DEF RollbackClientAction
  <2> QED BY <2>3, <2>4 DEF SetNotes
<1>3. exec[t].pc = "rollback" /\ BrowserOf[t] \in Browser
  BY WalletAssumption DEF RollbackClientAction, At
<1>4. ASSUME NEW n \in gone, NEW u \in Tab, Pledged(u, n) PROVE FALSE
  <2>1. n \in DOMAIN db[BrowserOf[t]] /\ db[BrowserOf[t]][n].state = "pending-output"
        /\ db[BrowserOf[t]][n].op = exec[t].op
    BY <1>1 DEF Abandoned, Notes
  <2>2. exec[u].op = exec[t].op
    BY <1>3, <1>4, <2>1, PledgedOp
  <2>3. Working(t) /\ Working(u) /\ t # u
    BY <1>3, <1>4 DEF Working, Pledged
  <2> QED BY <2>2, <2>3 DEF Leased
<1> QED BY <1>1, <1>2, <1>4, SetGrows

\* A poller takes back what was given up, which stays so.
LEMMA JournalPledges ==
  ASSUME NInv, Listed, NEW t \in Tab, ReconcileOperationJournals(t) PROVE PledgedStay
<1>1. PICK notes, seen : notes = Notes(t) /\ seen = poll[t].seen
  OBVIOUS
<1>2. PICK gone : gone = {n \in DOMAIN notes : /\ notes[n].op \in Op
                                               /\ seen[notes[n].op] \in GivenUp
                                               /\ notes[n].state = "pending-output"
                                               /\ ~notes[n].indexed}
  OBVIOUS
<1>3. PICK new : new = JournalsReconciled(notes, seen)
  OBVIOUS
<1>4. DOMAIN notes \ gone \subseteq DOMAIN new
  BY <1>2, <1>3 DEF JournalsReconciled, Update, Without
<1>5. db' = [db EXCEPT ![BrowserOf[t]] = new]
  BY <1>1, <1>3 DEF ReconcileOperationJournals, SetNotes
<1>6. poll[t].pc = "listed" /\ BrowserOf[t] \in Browser
  BY WalletAssumption DEF ReconcileOperationJournals
<1>7. ASSUME NEW n \in gone, NEW u \in Tab, Pledged(u, n) PROVE FALSE
  <2>1. n \in DOMAIN db[BrowserOf[t]] /\ db[BrowserOf[t]][n].state = "pending-output"
        /\ Settled(db[BrowserOf[t]][n].op)
    BY <1>1, <1>2, <1>6 DEF Notes, Listed
  <2>2. Settled(exec[u].op)
    BY <1>6, <1>7, <2>1, PledgedOp
  <2> QED BY <1>7, <2>2 DEF Pledged
<1> QED BY <1>1, <1>4, <1>5, <1>7, SetGrows

\* All other steps of a tab only add to its notes.
LEMMA AddsNotes ==
  ASSUME NInv, NEW t \in Tab,
         \/ ExecuteCancel(t) \/ ExactInput(t) \/ ExecuteOrder(t) \/ ExecuteUnshield(t)
         \/ Submit(t) \/ SubmitRefused(t) \/ AwaitTransaction(t) \/ Settle(t)
         \/ ConfirmJoin(t) \/ ConfirmShield(t) \/ CacheActionResult(t) \/ Complete(t)
         \/ Fail(t) \/ ExecFault(t) \/ ResumeAfterSync(t) \/ PollNotes(t) \/ Reload(t)
         \/ RefreshList(t) \/ PollDone(t) \/ Claim(t)
  PROVE  PledgedStay
<1>1. UNCHANGED db \/ \E new : /\ db' = [db EXCEPT ![BrowserOf[t]] = new]
                              /\ DOMAIN Notes(t) \subseteq DOMAIN new
  <2>1. CASE \/ ExactInput(t) \/ Submit(t) \/ SubmitRefused(t) \/ AwaitTransaction(t)
             \/ CacheActionResult(t) \/ Complete(t) \/ Fail(t) \/ ExecFault(t)
             \/ RefreshList(t) \/ PollDone(t) \/ Claim(t)
    BY <2>1 DEF ExactInput, Submit, SubmitRefused, AwaitTransaction, CacheActionResult,
                Complete, Fail, ExecFault, RefreshList, PollDone, Claim
  <2>2. CASE ExecuteCancel(t) \/ ExecuteOrder(t) \/ ExecuteUnshield(t) \/ ResumeAfterSync(t)
    BY <2>2 DEF ExecuteCancel, ExecuteOrder, ExecuteUnshield, ResumeAfterSync, SetNotes, Update
  <2>3. CASE ConfirmJoin(t) \/ ConfirmShield(t) \/ PollNotes(t)
    BY <2>3 DEF ConfirmJoin, ConfirmShield, PollNotes, SetNotes, Reconcile, Update
  <2>4. CASE Settle(t)
    <3>1. PICK new : new = SettledNotes(Notes(t), exec[t])
      OBVIOUS
    <3>2. exec[t].call \in Calls /\ StoreOk(Notes(t))
      BY <2>4, WalletAssumption DEF NInv, NotesInv, JobOk, Reached, Settle, At, Stored, Notes
    <3>3. DOMAIN new = DOMAIN Notes(t)
      BY <3>1, <3>2 DEF SettledNotes, Update, Calls
    <3>4. db' = [db EXCEPT ![BrowserOf[t]] = new]
      BY <2>4, <3>1 DEF Settle, SetNotes
    <3> QED BY <3>3, <3>4
  <2>5. CASE Reload(t)
    BY <2>5 DEF Reload, SetNotes, MergeRecoveryNotes
  <2> QED BY <2>1, <2>2, <2>3, <2>4, <2>5
<1> QED BY <1>1, SetGrows

\* What is staged is in the browser, and nowhere else yet.
LEMMA StagesPledges ==
  ASSUME NInv, Pledges, SettledStays, NEW t \in Tab, Stages(t) PROVE Pledges'
<1>1. PICK new : /\ db' = [db EXCEPT ![BrowserOf[t]] = Put(Notes(t), new)]
                 /\ exec'[t].new = new /\ \A n \in DOMAIN new : n \notin DOMAIN backup
  BY DEF Stages
<1>2. PICK put : put = Put(Notes(t), new)
  OBVIOUS
<1>3. DOMAIN put = DOMAIN Notes(t) \cup DOMAIN new
  BY <1>2 DEF Put
<1>4. PledgedStay
  BY <1>1, <1>2, <1>3, SetGrows
<1>5. BrowserOf[t] \in Browser /\ "exec" \in Caller
  BY WalletAssumption DEF Caller
<1>6. Notes(t)' = put
  BY <1>1, <1>2, <1>5 DEF Notes, NInv, Shapes
<1>7. SyncsBegin
  BY <1>5, SyncsBeginTo DEF Stages
<1>8. sync'[t]["exec"] = Wanted
  <2>1. PICK s : s = Wanted
    OBVIOUS
  <2>2. IsSync(s) /\ s.current \in BOOLEAN
    BY <2>1, SyncBegins
  <2>3. sync' = [sync EXCEPT ![t]["exec"] = s]
    BY <2>1 DEF Stages, WantSync
  <2> QED BY <1>5, <2>1, <2>2, <2>3, SyncSet
<1>9. ASSUME NEW n, Pledged(t, n)' PROVE PledgeKept(t, n)'
  <2>1. n \in DOMAIN new
    BY <1>1, <1>9 DEF Pledged, Outs
  <2>2. n \in DOMAIN Notes(t)' /\ n \notin DOMAIN backup'
    BY <1>1, <1>3, <1>6, <2>1 DEF Stages
  <2>3. exec'[t].pc = "staging" /\ sync'[t]["exec"].pc = "wanted"
    BY <1>8 DEF Stages, Wanted, NoSync
  <2> QED BY <2>2, <2>3 DEF PledgeKept
<1>10. ASSUME NEW u \in Tab \ {t}, NEW n, Pledged(u, n)' PROVE PledgeKept(u, n)'
  <2>1. exec'[u] = exec[u]
    BY DEF Stages, Onward
  <2>2. Pledged(u, n)
    BY <1>10, <2>1, PledgedBefore
  <2>3. PledgeKept(u, n)
    BY <2>2 DEF Pledges
  <2> QED BY <1>4, <1>7, <2>1, <2>2, <2>3, PledgeStays DEF Stages
<1> QED BY <1>9, <1>10 DEF Pledges

\* What is uploaded is in the backup.
LEMMA UploadedPledges ==
  ASSUME NInv, Pledges, SettledStays, NEW t \in Tab, Uploaded(t) PROVE Pledges'
<1>1. PledgedStay /\ SyncsBegin
  <2>1. "exec" \in Caller
    BY DEF Caller
  <2> QED BY <2>1, SetGrows, SyncsBeginTo DEF Uploaded
<1>2. ASSUME NEW n, Pledged(t, n)' PROVE PledgeKept(t, n)'
  <2>1. exec[t].op \in Op /\ exec'[t].op = exec[t].op
    BY DEF Uploaded, Onward, Working, NInv, NotesInv, JobOk, Reached
  <2>2. Pledged(t, n)
    BY <1>2, <2>1 DEF Pledged, Outs, Uploaded, SettledStays
  <2>3. PledgeKept(t, n) /\ n \in DOMAIN backup
    BY <2>2 DEF Pledges, PledgeKept, Uploaded, Synced
  <2>4. \A u \in Tab : n \in DOMAIN Notes(u)' <=> n \in DOMAIN Notes(u)
    BY DEF Notes, Uploaded
  <2>5. \A u \in Tab, c \in Caller : sync'[u][c].current =>
          /\ sync'[u][c].pc = "merged" => n \in DOMAIN Notes(u)'
          /\ sync'[u][c].pc = "encrypted" => n \in DOMAIN sync'[u][c].notes
    BY <1>1, <2>3, <2>4 DEF PledgeKept, SyncsBegin
  <2> QED BY <2>3, <2>4, <2>5 DEF PledgeKept, Uploaded
<1>3. ASSUME NEW u \in Tab \ {t}, NEW n, Pledged(u, n)' PROVE PledgeKept(u, n)'
  <2>1. exec'[u] = exec[u]
    BY DEF Uploaded, Onward
  <2>2. Pledged(u, n)
    BY <1>3, <2>1, PledgedBefore
  <2>3. PledgeKept(u, n)
    BY <2>2 DEF Pledges
  <2> QED BY <1>1, <2>1, <2>2, <2>3, PledgeStays DEF Uploaded
<1> QED BY <1>2, <1>3 DEF Pledges

\* A sync that merges has all the backup has.
LEMMA MergePledges ==
  ASSUME NInv, Pledges, SettledStays, NEW t \in Tab, NEW c \in Caller, SyncMerge(t, c)
  PROVE  Pledges'
<1>1. PICK later \in BOOLEAN :
        db' = [db EXCEPT ![BrowserOf[t]] = MergeRecoveryNotes(@, backup, later)]
  BY DEF SyncMerge
<1>2. PICK new : new = MergeRecoveryNotes(Notes(t), backup, later)
  OBVIOUS
<1>3. BrowserOf[t] \in Browser
  BY WalletAssumption
<1>4. /\ db' = [db EXCEPT ![BrowserOf[t]] = new]
      /\ DOMAIN new = DOMAIN Notes(t) \cup DOMAIN backup
  BY <1>1, <1>2, <1>3 DEF Notes, NInv, Shapes, MergeRecoveryNotes
<1>5. PledgedStay
  BY <1>4, SetGrows
<1>6. Notes(t)' = new
  BY <1>3, <1>4 DEF Notes, NInv, Shapes
<1>7. PICK s : s = [sync[t][c] EXCEPT !.pc = "merged", !.current = TRUE]
  OBVIOUS
<1>8. IsSync(s) /\ s.current \in BOOLEAN /\ s.pc = "merged"
  <2>1. PICK old : old = sync[t][c]
    OBVIOUS
  <2>2. IsSync(old) /\ s = [old EXCEPT !.pc = "merged", !.current = TRUE]
    BY <1>7, <2>1 DEF NInv, Shapes
  <2>3. IsSync(s) /\ s.current = TRUE /\ s.pc = "merged"
    BY <2>2 DEF IsSync
  <2> QED BY <2>3
<1>9. sync' = [sync EXCEPT ![t][c] = s]
  BY <1>7 DEF SyncMerge, NInv, Shapes
<1>10. sync'[t][c] = s /\ \A u \in Tab, d \in Caller : u # t \/ d # c => sync'[u][d] = sync[u][d]
  BY <1>8, <1>9, SyncSet
<1>11. ASSUME NEW u \in Tab, NEW n, Pledged(u, n)' PROVE PledgeKept(u, n)'
  <2>1. exec' = exec /\ UNCHANGED backup /\ "exec" \in Caller
    BY DEF SyncMerge, Caller
  <2>2. Pledged(u, n)
    BY <1>11, <2>1, PledgedBefore
  <2>3. PledgeKept(u, n)
    BY <2>2 DEF Pledges
  <2>4. \A v \in Tab : n \in DOMAIN Notes(v) => n \in DOMAIN Notes(v)'
    BY <1>5, <2>2, WalletAssumption DEF PledgedStay, Notes
  <2>5. ASSUME n \in DOMAIN backup', NEW v \in Tab, NEW d \in Caller, sync'[v][d].current
        PROVE  /\ sync'[v][d].pc = "merged" => n \in DOMAIN Notes(v)'
               /\ sync'[v][d].pc = "encrypted" => n \in DOMAIN sync'[v][d].notes
    <3>1. CASE v = t /\ d = c
      BY <1>4, <1>6, <1>8, <1>10, <2>1, <2>5, <3>1
    <3>2. CASE ~(v = t /\ d = c)
      BY <1>10, <2>1, <2>3, <2>4, <2>5, <3>2 DEF PledgeKept
    <3> QED BY <3>1, <3>2
  <2>6. exec'[u].pc = "staging" =>
          /\ sync'[u]["exec"].pc = "encrypted" => n \in DOMAIN sync'[u]["exec"].notes
          /\ sync'[u]["exec"].pc = "ok" => n \in DOMAIN backup'
    BY <1>8, <1>10, <2>1, <2>3 DEF PledgeKept
  <2> QED BY <2>1, <2>3, <2>4, <2>5, <2>6 DEF PledgeKept
<1> QED BY <1>11 DEF Pledges

\* A snapshot has all the browser has.
LEMMA EncryptPledges ==
  ASSUME NInv, Pledges, SettledStays, NEW t \in Tab, NEW c \in Caller, SyncEncrypt(t, c)
  PROVE  Pledges'
<1>1. /\ UNCHANGED <<db, backup, exec>> /\ sync[t][c].pc = "merged" /\ "exec" \in Caller
  BY DEF SyncEncrypt, Caller
<1>2. PICK notes : notes = Snapshot(Notes(t))
  OBVIOUS
<1>3. DOMAIN notes = DOMAIN Notes(t)
  BY <1>2 DEF Snapshot
<1>4. PICK s : s = [sync[t][c] EXCEPT !.pc = "encrypted", !.notes = notes]
  OBVIOUS
<1>5. /\ IsSync(s) /\ s.current \in BOOLEAN /\ s.pc = "encrypted" /\ s.notes = notes
      /\ s.current = sync[t][c].current
  <2>1. PICK old : old = sync[t][c]
    OBVIOUS
  <2>2. IsSync(old) /\ old.current \in BOOLEAN
        /\ s = [old EXCEPT !.pc = "encrypted", !.notes = notes]
    BY <1>4, <2>1 DEF NInv, Shapes
  <2>3. s.pc = "encrypted" /\ s.current = old.current /\ s.notes = notes /\ IsSync(s)
    BY <2>2 DEF IsSync
  <2> QED BY <2>1, <2>2, <2>3
<1>6. sync' = [sync EXCEPT ![t][c] = s]
  BY <1>2, <1>4 DEF SyncEncrypt, Notes, NInv, Shapes
<1>7. sync'[t][c] = s /\ \A u \in Tab, d \in Caller : u # t \/ d # c => sync'[u][d] = sync[u][d]
  BY <1>5, <1>6, SyncSet
<1>8. ASSUME NEW u \in Tab, NEW n, Pledged(u, n)' PROVE PledgeKept(u, n)'
  <2>1. Pledged(u, n)
    BY <1>1, <1>8, PledgedBefore
  <2>2. PledgeKept(u, n)
    BY <2>1 DEF Pledges
  <2>3. \A v \in Tab : Notes(v)' = Notes(v)
    BY <1>1 DEF Notes
  <2>4. ASSUME n \in DOMAIN backup', NEW v \in Tab, NEW d \in Caller, sync'[v][d].current
        PROVE  /\ sync'[v][d].pc = "merged" => n \in DOMAIN Notes(v)'
               /\ sync'[v][d].pc = "encrypted" => n \in DOMAIN sync'[v][d].notes
    <3>1. CASE v = t /\ d = c
      BY <1>1, <1>3, <1>5, <1>7, <2>2, <2>4, <3>1 DEF PledgeKept
    <3>2. CASE ~(v = t /\ d = c)
      BY <1>1, <1>7, <2>2, <2>3, <2>4, <3>2 DEF PledgeKept
    <3> QED BY <3>1, <3>2
  <2>5. exec'[u].pc = "staging" =>
          /\ sync'[u]["exec"].pc = "encrypted" => n \in DOMAIN sync'[u]["exec"].notes
          /\ sync'[u]["exec"].pc = "ok" => n \in DOMAIN backup'
    BY <1>1, <1>3, <1>5, <1>7, <2>2 DEF PledgeKept
  <2> QED BY <1>1, <2>2, <2>3, <2>4, <2>5 DEF PledgeKept
<1> QED BY <1>8 DEF Pledges

\* A snapshot that the server accepts has what the backup had.
LEMMA AcceptPledges ==
  ASSUME NInv, Pledges, SettledStays, NEW t \in Tab, NEW c \in Caller, UNCHANGED <<db, exec>>,
         sync[t][c].pc = "encrypted", sync[t][c].current, backup' = sync[t][c].notes,
         sync'[t][c].pc \in {"ok", "error"},
         \A u \in Tab, d \in Caller : u # t \/ d # c =>
           /\ sync'[u][d].pc = sync[u][d].pc /\ sync'[u][d].notes = sync[u][d].notes
           /\ ~sync'[u][d].current
  PROVE  Pledges'
<1>2. ASSUME NEW u \in Tab, NEW n, Pledged(u, n)' PROVE PledgeKept(u, n)'
  <2>1. Pledged(u, n)
    BY <1>2, PledgedBefore
  <2>2. PledgeKept(u, n) /\ "exec" \in Caller
    BY <2>1 DEF Pledges, Caller
  <2>3. n \in DOMAIN backup => n \in DOMAIN backup'
    BY <2>2 DEF PledgeKept
  <2>4. exec[u].pc = "staging" =>
          /\ sync'[u]["exec"].pc = "encrypted" => n \in DOMAIN sync'[u]["exec"].notes
          /\ sync'[u]["exec"].pc = "ok" => n \in DOMAIN backup'
    <3>1. CASE u = t /\ "exec" = c
      BY <2>2, <3>1 DEF PledgeKept
    <3>2. CASE ~(u = t /\ "exec" = c)
      BY <2>2, <2>3, <3>2 DEF PledgeKept
    <3> QED BY <3>1, <3>2
  <2>5. ASSUME NEW v \in Tab, NEW d \in Caller, sync'[v][d].current
        PROVE  sync'[v][d].pc \notin {"merged", "encrypted"}
    BY <2>5
  <2>6. n \in DOMAIN Notes(u)'
    BY <2>2 DEF PledgeKept, Notes
  <2> QED BY <2>2, <2>3, <2>4, <2>5, <2>6 DEF PledgeKept
<1> QED BY <1>2 DEF Pledges

\* A snapshot is sent, or a call fails.
LEMMA PutPledges ==
  ASSUME NInv, Pledges, SettledStays, NEW t \in Tab, NEW c \in Caller,
         SyncPut(t, c) \/ SyncFault(t, c)
  PROVE  Pledges'
<1>1. UNCHANGED <<db, exec>>
  BY DEF SyncPut, SyncFault
<1>2. PICK p \in {"ok", "error"}, stale \in BOOLEAN :
        /\ SyncEnds(t, c, p, stale) /\ (~stale => UNCHANGED backup /\ p = "error")
        /\ stale => /\ sync[t][c].pc = "encrypted" /\ sync[t][c].current
                    /\ backup' = sync[t][c].notes
  <2>1. CASE SyncPut(t, c)
    <3>1. PICK stale \in BOOLEAN : stale = TRUE
      OBVIOUS
    <3>2. sync' = [u \in Tab |-> [d \in Caller |->
                     IF u = t /\ d = c THEN [NoSync EXCEPT !.pc = "ok"]
                     ELSE [sync[u][d] EXCEPT !.current = FALSE]]]
      BY <2>1 DEF SyncPut
    <3>3. \A u \in Tab, d \in Caller : (sync[u][d].current /\ ~stale) = FALSE
      BY <3>1
    <3>4. SyncEnds(t, c, "ok", stale)
      BY <3>2, <3>3 DEF SyncEnds
    <3>5. sync[t][c].pc = "encrypted" /\ sync[t][c].current /\ backup' = sync[t][c].notes
      BY <2>1 DEF SyncPut, Accepts
    <3> QED BY <3>1, <3>4, <3>5
  <2>2. CASE SyncFault(t, c)
    <3>1. PICK stale \in BOOLEAN : stale = ~(backup' = backup)
      OBVIOUS
    <3>2. sync' = [u \in Tab |-> [d \in Caller |->
                     IF u = t /\ d = c THEN [NoSync EXCEPT !.pc = "error"]
                     ELSE [sync[u][d] EXCEPT !.current = @ /\ backup' = backup]]]
      BY <2>2 DEF SyncFault
    <3>3. SyncEnds(t, c, "error", stale)
      BY <3>1, <3>2 DEF SyncEnds
    <3>4. stale => /\ sync[t][c].pc = "encrypted" /\ sync[t][c].current
                   /\ backup' = sync[t][c].notes
      BY <2>2, <3>1 DEF SyncFault, Accepts
    <3> QED BY <3>1, <3>3, <3>4
  <2> QED BY <2>1, <2>2
<1>3. /\ sync'[t][c].pc = p
      /\ \A u \in Tab, d \in Caller : u # t \/ d # c =>
           /\ sync'[u][d].pc = sync[u][d].pc /\ sync'[u][d].notes = sync[u][d].notes
           /\ sync'[u][d].current => sync[u][d].current /\ ~stale
  BY <1>2, AllSyncs
<1>4. CASE stale
  BY <1>1, <1>2, <1>3, <1>4, AcceptPledges
<1>5. CASE ~stale
  <2>1. SyncsBegin
    BY <1>2, <1>3, <1>5 DEF SyncsBegin
  <2>2. PledgedStay
    BY <1>1 DEF PledgedStay
  <2> QED BY <1>1, <1>2, <1>5, <2>1, <2>2, PledgesStay
<1> QED BY <1>4, <1>5

\* A snapshot is refused.
LEMMA ConflictPledges ==
  ASSUME NInv, Pledges, SettledStays, NEW t \in Tab, NEW c \in Caller, SyncConflict(t, c)
  PROVE  Pledges'
<1>1. PICK s : /\ sync' = [sync EXCEPT ![t][c] = s]
               /\ \/ s = [NoSync EXCEPT !.pc = "error"]
                  \/ s = [Wanted EXCEPT !.tries = sync[t][c].tries + 1]
  BY DEF SyncConflict
<1>2. IsSync(s) /\ s.current = FALSE /\ s.pc \in {"error", "wanted"}
  BY <1>1 DEF IsSync, NoSync, Wanted
<1>3. /\ sync'[t][c] = s
      /\ \A u \in Tab, d \in Caller : u # t \/ d # c => sync'[u][d] = sync[u][d]
  <2>1. IsSync(s) /\ s.current \in BOOLEAN
    BY <1>2
  <2>2. sync' = [sync EXCEPT ![t][c] = s]
    BY <1>1
  <2> QED BY <2>1, <2>2, SyncSet
<1>4. SyncsBegin
  BY <1>2, <1>3 DEF SyncsBegin
<1>5. UNCHANGED <<db, backup, exec>>
  BY DEF SyncConflict
<1> QED BY <1>4, <1>5, PledgesStay DEF PledgedStay

\* An executor's step.
LEMMA ExecPledges ==
  ASSUME NInv, Leased, Pledges, SettledStays, NEW t \in Tab, ExecStep(t) \/ ExecFault(t)
  PROVE  Pledges'
<1>1. CASE Onward(t) /\ Pledgeless(t)' /\ ~Stages(t)
  <2>1. UNCHANGED backup
    BY DEF ExecStep, ExecFault, ExecuteShield, ExecuteCancel, ExactInput, ExecuteJoin,
       ExecuteOrder, ExecuteUnshield, StageOutput, Submit, SubmitRefused, AwaitTransaction,
       Settle, ResumeAfterSync, ConfirmJoin, ConfirmShield, CacheActionResult, Complete, Fail,
       RollbackClientAction
  <2>2. UNCHANGED sync \/ \E c \in Caller : WantSync(t, c) \/ SyncReturns(t, c)
    <3>1. UNCHANGED sync \/ WantSync(t, "exec") \/ SyncReturns(t, "exec")
      BY DEF ExecStep, ExecFault, ExecuteShield, ExecuteCancel, ExactInput, ExecuteJoin,
         ExecuteOrder, ExecuteUnshield, StageOutput, Submit, SubmitRefused, AwaitTransaction,
         Settle, ResumeAfterSync, ConfirmJoin, ConfirmShield, CacheActionResult, Complete, Fail,
         RollbackClientAction, Stage
    <3> QED BY <3>1 DEF Caller
  <2>3. SyncsBegin
    BY <2>2, SyncsBeginTo
  <2>4. PledgedStay
    BY <1>1, AddsNotes, RollbackPledges, ShieldStages, JoinStages, OutputStages DEF ExecStep
  <2> QED BY <1>1, <2>1, <2>3, <2>4, PledgesStay DEF Onward
<1> QED BY <1>1, ExecStepKinds, StagesPledges, UploadedPledges

\* A step of a tab's pollers.
LEMMA PollPledges ==
  ASSUME NInv, Listed, Pledges, SettledStays, NEW t \in Tab, PollStep(t) PROVE Pledges'
<1>1. UNCHANGED <<backup, exec>>
  BY DEF PollStep, RefreshList, ReconcileOperationJournals, PollNotes, PollDone
<1>2. UNCHANGED sync \/ \E c \in Caller : WantSync(t, c) \/ SyncReturns(t, c)
  <2>1. UNCHANGED sync \/ WantSync(t, "poll") \/ SyncReturns(t, "poll")
    BY DEF PollStep, RefreshList, ReconcileOperationJournals, PollNotes, PollDone
  <2> QED BY <2>1 DEF Caller
<1>3. PledgedStay
  BY AddsNotes, JournalPledges DEF PollStep
<1>4. SyncsBegin
  BY <1>2, SyncsBeginTo
<1> QED BY <1>1, <1>3, <1>4, PledgesStay

\* A tab that is reloaded has nothing under way.
LEMMA ReloadPledges ==
  ASSUME NInv, Pledges, SettledStays, NEW t \in Tab, Reload(t) PROVE Pledges'
<1>1. /\ exec' = [exec EXCEPT ![t] = NoJob] /\ UNCHANGED backup
      /\ sync' = [sync EXCEPT ![t] = [c \in Caller |-> NoSync]]
  BY DEF Reload
<1>2. exec'[t] = NoJob /\ \A u \in Tab \ {t} : exec'[u] = exec[u]
  BY <1>1, ExecSet
<1>3. Pledgeless(t)'
  BY <1>2 DEF Pledgeless, NoJob
<1>4. /\ \A c \in Caller : sync'[t][c] = NoSync
      /\ \A u \in Tab : u # t => sync'[u] = sync[u]
  BY <1>1 DEF NInv, Shapes
<1>5. NoSync.pc = "none"
  BY DEF NoSync
<1>6. SyncsBegin
  BY <1>4, <1>5 DEF SyncsBegin
<1>7. PledgedStay
  BY AddsNotes
<1> QED BY <1>1, <1>2, <1>3, <1>6, <1>7, PledgesStay

\* What an executor has stored stays where it is, until it is sent.
LEMMA PledgeStep == ASSUME UInv, SettledStays, [Next]_vars PROVE Pledges'
<1>0. NInv /\ Leased /\ Listed /\ Pledges
  BY DEF UInv, LInv
<1>1. CASE \E t \in Tab : ExecStep(t) \/ ExecFault(t)
  BY <1>0, <1>1, ExecPledges
<1>2. CASE \E t \in Tab : PollStep(t)
  BY <1>0, <1>2, PollPledges
<1>3. CASE \E t \in Tab : Reload(t)
  BY <1>0, <1>3, ReloadPledges
<1>4. CASE \E t \in Tab : SyncStep(t) \/ \E c \in Caller : SyncFault(t, c)
  <2>1. PICK t \in Tab, c \in Caller :
          SyncMerge(t, c) \/ SyncEncrypt(t, c) \/ SyncPut(t, c) \/ SyncConflict(t, c)
            \/ SyncFault(t, c)
    BY <1>4 DEF SyncStep
  <2> QED BY <1>0, <2>1, ConflictPledges, MergePledges, EncryptPledges, PutPledges
<1>5. CASE \E t \in Tab : Claim(t)
  <2>1. PICK t \in Tab : Claim(t)
    BY <1>5
  <2>2. Pledgeless(t)' /\ \A u \in Tab \ {t} : exec'[u] = exec[u]
    BY <2>1, ClaimLeases DEF UInv
  <2>3. UNCHANGED <<db, backup, sync>>
    BY <2>1 DEF Claim
  <2> QED BY <1>0, <2>2, <2>3, PledgesStay DEF PledgedStay, SyncsBegin
<1>6. CASE UNCHANGED <<db, backup, sync, exec>>
  BY <1>0, <1>6, PledgesStay DEF PledgedStay, SyncsBegin
<1>7. CASE \/ ChainStep \/ \E n \in NoteId : OrderFills(n)
           \/ \E o \in Op : UserCancels(o) \/ LateHeartbeat(o) \/ LeaseLapses(o)
           \/ \E t \in Tab, o \in Op : UserEnqueues(t, o)
           \/ UNCHANGED vars
  <2>1. UNCHANGED <<db, backup, sync, exec>>
    BY <1>7 DEF ChainStep, TxLands, TxFails, OrderFills, UserCancels, LateHeartbeat,
                LeaseLapses, UserEnqueues, wallet, vars
  <2> QED BY <1>6, <2>1
<1> QED BY <1>1, <1>2, <1>3, <1>4, <1>5, <1>7 DEF Next, Mishap

\* A wallet begins so.
LEMMA InitPledges ==
  ASSUME \A m \in Mishaps : m.lapse = 0, Init PROVE UInv
<1>1. NInv
  BY InitIsStored
<1>2. NoLapse
  BY WalletAssumption DEF Init, NoLapse
<1>3. /\ \A t \in Tab : exec[t] = NoJob /\ poll[t] = NoPoll
      /\ \A o \in Op : action[o] = [status |-> "none", lease |-> 0, live |-> FALSE]
      /\ action = [o \in Op |-> action[o]] /\ poll = [t \in Tab |-> poll[t]]
  BY DEF Init, QueueInit
<1>4. NoJob.pc = "idle" /\ NoPoll.pc = "idle"
  BY DEF NoJob, NoPoll
<1>5. ActionShape
  BY <1>3 DEF ActionShape
<1>6. Leased
  <2>1. ASSUME NEW o \in Op PROVE ~action[o].live
    <3>1. PICK a : a = action[o]
      OBVIOUS
    <3>2. a = [status |-> "none", lease |-> 0, live |-> FALSE]
      BY <1>3, <3>1
    <3>3. a.live = FALSE
      BY <3>2
    <3> QED BY <3>1, <3>3
  <2>2. \A t \in Tab : ~Working(t)
    BY <1>3, <1>4 DEF Working
  <2> QED BY <2>1, <2>2 DEF Leased
<1>7. Listed
  BY <1>3, <1>4 DEF Listed
<1>8. Pledges
  BY <1>3, <1>4 DEF Pledges, Pledged
<1> QED BY <1>1, <1>2, <1>5, <1>6, <1>7, <1>8 DEF UInv, LInv

\* The invariant is inductive.
LEMMA PledgesStep == ASSUME UInv, [Next]_vars PROVE UInv'
<1>1. NInv'
  BY NotesStep DEF UInv
<1>2. LInv' /\ SettledStays
  BY LeaseStep DEF UInv
<1>3. Listed'
  BY <1>2, ListedStep DEF UInv
<1>4. Pledges'
  BY <1>2, PledgeStep
<1> QED BY <1>1, <1>2, <1>3, <1>4 DEF UInv

\* A step that sends a transaction finds its outputs in the backup.
LEMMA SendsUploaded ==
  ASSUME UInv, [Next]_vars, NEW i \in Submitted
  PROVE  txs'[i].outs \subseteq DOMAIN backup \/ Settled(txs'[i].op)
<1>1. PICK t \in Tab : Submit(t)
  <2>1. CASE UNCHANGED txs
    BY <2>1 DEF Submitted
  <2>2. CASE ChainStep
    BY <2>2 DEF ChainStep, TxLands, TxFails, Submitted
  <2>3. CASE \/ \E n \in NoteId : OrderFills(n)
             \/ \E o \in Op : UserCancels(o) \/ LateHeartbeat(o) \/ LeaseLapses(o)
             \/ \E t \in Tab, o \in Op : UserEnqueues(t, o)
             \/ UNCHANGED vars
    <3>1. UNCHANGED txs
      BY <2>3 DEF OrderFills, UserCancels, LateHeartbeat, LeaseLapses, UserEnqueues, wallet,
                  vars, chain
    <3> QED BY <2>1, <3>1
  <2>4. CASE \E t \in Tab : \/ Claim(t) \/ PollStep(t) \/ SyncStep(t) \/ Reload(t)
                            \/ ExecFault(t) \/ \E c \in Caller : SyncFault(t, c)
    <3>1. UNCHANGED txs
      BY <2>4 DEF Claim, PollStep, RefreshList, ReconcileOperationJournals, PollNotes,
                  PollDone, SyncStep, SyncMerge, SyncEncrypt, SyncPut, SyncConflict, Reload,
                  ExecFault, SyncFault, chain
    <3> QED BY <2>1, <3>1
  <2>5. ASSUME NEW t \in Tab, ExecStep(t), ~Submit(t) PROVE UNCHANGED txs
    BY <2>5 DEF ExecStep, ExecuteShield, ExecuteCancel, ExactInput, ExecuteJoin,
       ExecuteOrder, ExecuteUnshield, StageOutput, SubmitRefused, AwaitTransaction,
       Settle, ResumeAfterSync, ConfirmJoin, ConfirmShield, CacheActionResult, Complete, Fail,
       RollbackClientAction, chain
  <2> QED BY <2>1, <2>2, <2>3, <2>4, <2>5 DEF Next, Mishap
<1>2. PICK x : /\ txs' = Append(txs, x) /\ exec[t].pc = "submit"
               /\ x.outs = Outs(t) /\ x.op = exec[t].op
  BY <1>1 DEF Submit, SubmitContractCall, Relay, Send, At
<1>3. /\ Len(txs) \in Nat /\ DOMAIN txs = 1..Len(txs) /\ Len(txs') = Len(txs) + 1
      /\ txs' = [k \in 1..Len(txs') |-> txs'[k]] /\ txs'[Len(txs) + 1] = x
  BY <1>2, Sent DEF UInv, NInv
<1>4. i = Len(txs) + 1
  BY <1>3 DEF Submitted
<1>5. ASSUME ~Settled(exec[t].op), NEW n \in Outs(t) PROVE n \in DOMAIN backup
  BY <1>2, <1>5 DEF UInv, Pledges, Pledged, PledgeKept
<1> QED BY <1>2, <1>3, <1>4, <1>5

\* The server holds the secrets of every note that a transaction mints when the
\* transaction is submitted (operationExecutor.ts, orchestrate.ts, recovery.ts): for
\* any number of tabs, browsers, crashes, failing calls and cancelled operations, as
\* long as no lease lapses under a living executor.  Where one does, the rollback of
\* the executor that lost it takes back what its successor in another tab of the
\* browser has staged.
THEOREM UploadedFirstHolds ==
  ASSUME \A m \in Mishaps : m.lapse = 0
  PROVE  Spec => UploadedFirst
<1>1. Init => UInv
  BY InitPledges
<1>2. UInv /\ [Next]_vars => UInv'
  BY PledgesStep
<1>3. UInv /\ [Next]_vars =>
        [\A i \in Submitted :
           txs'[i].outs \subseteq DOMAIN backup \/ Settled(txs'[i].op)]_vars
  BY SendsUploaded
<1> QED BY <1>1, <1>2, <1>3, PTL DEF Spec, UploadedFirst
=============================================================================

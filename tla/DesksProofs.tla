---------------------------- MODULE DesksProofs ----------------------------
(***************************************************************************)
(* Theorems about desks and Base deposits, for any number of calls, forms, *)
(* agents, bridges and faults.                                             *)
(*                                                                         *)
(* That only spendable notes are minted is not inductive as it stands: the *)
(* worker mints what the job names, the job names what a form deposited,   *)
(* and the form had stored its note before.  HandedOver says this of every *)
(* form and every job on the way.                                          *)
(***************************************************************************)
EXTENDS Desks, WellFoundedInduction, SequenceTheorems, TLAPS

Depositor == Form \cup Agent
Entry == [by : Depositor, secret : {"form", "sdk", "caller"}]

ServerType ==
  /\ desk \in [status : {"none", "failed", "active"}, bridge : 0..Len(base), secret : BOOLEAN]
  /\ call \in [Call -> [at : {"idle", "deploy", "configure"},
                        op : {"none", "create", "retry", "complete"}, bridge : 0..Len(base)]]

BaseType == base \in Seq(Seq(Entry))

\* An open form is on a bridge that is there.
FormRecord(n) ==
  [at : {"none", "open", "deposited", "queued", "active", "failed", "closed"},
   bridge : 0..n, id : Nat, done : 0..2]
FormType ==
  /\ form \in [Depositor -> FormRecord(Len(base))]
  /\ \A f \in Depositor : form[f].at = "open" => form[f].bridge # None /\ form[f].done = 0

JobRecord == [bridge : Nat, deposit_id : Nat, status : {"proving", "active", "failed"}]
JobType == jobs \in Seq(JobRecord)

TypeInv == ServerType /\ BaseType /\ FormType /\ JobType

\* The i-th deposit on a bridge is there.
IsDeposit(b, id) == b \in DOMAIN base /\ id + 1 \in DOMAIN base[b]

\* What form f deposited.
OwnEntry(f, e) == e.by = f /\ (f \in Form => e = Note(f))

\* A form that made its deposit stores the note before it hands the deposit over.
FormStores(f) ==
  form[f].at = "deposited" =>
    /\ IsDeposit(form[f].bridge, form[f].id)
    /\ OwnEntry(f, base[form[f].bridge][form[f].id + 1])
    /\ form[f].done \in {0, 1}
    /\ form[f].done = 1 => Note(f) \in notes
FormsStore == \A f \in Depositor : FormStores(f)

\* What a job is going to mint is stored, if a form deposited it.
IsStored(b, id) ==
  IsDeposit(b, id) /\ (base[b][id + 1].by \in Form => base[b][id + 1] \in notes)
JobsStored == \A j \in DOMAIN jobs : IsStored(jobs[j].bridge, jobs[j].deposit_id)

HandedOver == FormsStore /\ JobsStored /\ MintedIsSpendable
-----------------------------------------------------------------------------
(***************************************************************************)
(* The types.                                                              *)
(***************************************************************************)

\* Bridges come and deposits come, and what is there stays.
Grows ==
  /\ BaseType' /\ Len(base) <= Len(base')
  /\ \A b, id \in Nat : IsDeposit(b, id) =>
       IsDeposit(b, id)' /\ base'[b][id + 1] = base[b][id + 1]

\* What leaves Base alone keeps what is there.
LEMMA SameBase == ASSUME BaseType, UNCHANGED base PROVE Grows
BY LenProperties DEF Grows, BaseType, IsDeposit

\* A bridge that is deployed comes after the others.
LEMMA NewBridge ==
  ASSUME BaseType, base' = Append(base, <<>>)
  PROVE  Grows /\ Len(base') = Len(base) + 1
<1>1. <<>> \in Seq(Entry)
  OBVIOUS
<1>2. /\ base' \in Seq(Seq(Entry)) /\ Len(base') = Len(base) + 1
      /\ \A b \in 1..Len(base) : base'[b] = base[b]
  BY <1>1, AppendProperties DEF BaseType
<1>3. DOMAIN base = 1..Len(base) /\ DOMAIN base' = 1..Len(base') /\ Len(base) \in Nat
  BY <1>2, LenProperties DEF BaseType
<1> QED
  BY <1>2, <1>3 DEF Grows, BaseType, IsDeposit

\* A deposit comes after the others of its bridge and has the next id.
LEMMA NewDeposit ==
  ASSUME BaseType, NEW b \in DOMAIN base, NEW e \in Entry,
         base' = [base EXCEPT ![b] = Append(@, e)], NEW id, id = Len(base[b])
  PROVE  /\ Grows /\ Len(base') = Len(base) /\ id \in Nat
         /\ IsDeposit(b, id)' /\ base'[b][id + 1] = e
<1>1. base[b] \in Seq(Entry)
  BY ElementOfSeq, LenProperties DEF BaseType
<1> DEFINE longer == Append(base[b], e)
<1>2. /\ longer \in Seq(Entry) /\ Len(longer) = Len(base[b]) + 1
      /\ \A i \in 1..Len(base[b]) : longer[i] = base[b][i]
      /\ longer[Len(base[b]) + 1] = e
  BY <1>1, AppendProperties
<1>3. /\ DOMAIN base[b] = 1..Len(base[b]) /\ DOMAIN longer = 1..Len(longer)
      /\ DOMAIN base = 1..Len(base) /\ Len(base) \in Nat /\ Len(base[b]) \in Nat
  BY <1>1, <1>2, LenProperties DEF BaseType
<1> HIDE DEF longer
<1>4. base' = [base EXCEPT ![b] = longer]
  BY DEF longer
<1>5. base' \in Seq(Seq(Entry)) /\ Len(base') = Len(base) /\ DOMAIN base' = DOMAIN base
  BY <1>2, <1>3, <1>4, ExceptSeq, LenProperties DEF BaseType
<1>6. base'[b] = longer /\ \A c \in DOMAIN base : c # b => base'[c] = base[c]
  BY <1>4
<1>7. IsDeposit(b, id)' /\ base'[b][id + 1] = e
  BY <1>2, <1>3, <1>5, <1>6 DEF IsDeposit
<1>8. ASSUME NEW c \in Nat, NEW i \in Nat, IsDeposit(c, i)
      PROVE  IsDeposit(c, i)' /\ base'[c][i + 1] = base[c][i + 1]
  <2>1. CASE c = b
    BY <1>2, <1>3, <1>5, <1>6, <1>8, <2>1 DEF IsDeposit
  <2>2. CASE c # b
    BY <1>5, <1>6, <1>8, <2>2 DEF IsDeposit
  <2> QED BY <2>1, <2>2
<1>9. Len(base) <= Len(base') /\ id \in Nat
  BY <1>3, <1>5
<1>10. Grows
  BY <1>5, <1>8, <1>9, Zenon DEF Grows, BaseType
<1> QED
  BY <1>5, <1>7, <1>9, <1>10, Zenon

\* A form or an agent deposits on the bridge that it was opened for.
LEMMA DepositGrows ==
  ASSUME TypeInv, NEW f \in Depositor, Deposit(f) \/ AgentDeposits(f)
  PROVE  /\ Grows /\ Len(base') = Len(base)
         /\ \E b \in DOMAIN base, id \in Nat :
              /\ b = form[f].bridge /\ id = Len(base[b])
              /\ IsDeposit(b, id)' /\ OwnEntry(f, base'[b][id + 1])
<1>1. PICK b \in DOMAIN base : b = form[f].bridge
  <2>1. Len(base) \in Nat /\ DOMAIN base = 1..Len(base)
    BY LenProperties DEF TypeInv, BaseType
  <2>2. form[f].bridge \in 0..Len(base) /\ form[f].bridge # None
    BY DEF TypeInv, FormType, FormRecord, Deposit, AgentDeposits, FormAt
  <2>3. form[f].bridge \in DOMAIN base
    BY <2>1, <2>2 DEF None
  <2> QED BY <2>3
<1>2. PICK e \in Entry : OwnEntry(f, e) /\ base' = [base EXCEPT ![b] = Append(@, e)]
  <2>1. CASE Deposit(f)
    <3>1. Note(f) \in Entry /\ OwnEntry(f, Note(f))
      BY DEF Note, Entry, OwnEntry
    <3> QED BY <1>1, <2>1, <3>1 DEF Deposit
  <2>2. CASE AgentDeposits(f)
    <3> DEFINE n == [by |-> f, secret |-> "caller"]
    <3>1. n \in Entry /\ OwnEntry(f, n)
      BY <2>2, DesksAssumption DEF Entry, OwnEntry, AgentDeposits
    <3>2. base' = [base EXCEPT ![b] = Append(@, n)]
      BY <1>1, <2>2 DEF AgentDeposits
    <3> QED BY <3>1, <3>2
  <2> QED BY <2>1, <2>2
<1>3. PICK id : id = Len(base[b])
  OBVIOUS
<1>4. /\ Grows /\ Len(base') = Len(base) /\ id \in Nat
      /\ IsDeposit(b, id)' /\ base'[b][id + 1] = e
  BY <1>2, <1>3, NewDeposit DEF TypeInv
<1> QED BY <1>1, <1>2, <1>3, <1>4

\* Every step keeps what is on Base.
LEMMA BaseStep == ASSUME TypeInv, Next PROVE Grows
<1>1. \/ UNCHANGED base \/ base' = Append(base, <<>>)
      \/ \E f \in Depositor : Deposit(f) \/ AgentDeposits(f)
  <2>1. ASSUME NEW c \in Call, CreateDesk(c) PROVE UNCHANGED base
    BY <2>1 DEF CreateDesk
  <2>2. ASSUME NEW c \in Call, RetryBaseDeployment(c) PROVE UNCHANGED base
    BY <2>2 DEF RetryBaseDeployment
  <2>3. ASSUME NEW c \in Call, Serve(c) PROVE UNCHANGED base \/ base' = Append(base, <<>>)
    BY <2>3 DEF Serve, DeployBridgeOnBase, ConfigureBaseBridge
  <2>4. ASSUME NEW c \in Call, DeployFails(c) PROVE UNCHANGED base \/ base' = Append(base, <<>>)
    BY <2>4 DEF DeployFails
  <2>5. ASSUME NEW c \in Call, ConfigureFails(c) PROVE UNCHANGED base
    BY <2>5 DEF ConfigureFails
  <2>6. ASSUME NEW c \in Call, NEW b \in 1..MaxBridges, CompleteBaseDeployment(c, b)
        PROVE  UNCHANGED base
    BY <2>6 DEF CompleteBaseDeployment
  <2>7. ServerRestart => UNCHANGED base
    BY DEF ServerRestart
  <2>8. ASSUME NEW f \in Depositor, Submission(f)
        PROVE  UNCHANGED base \/ Deposit(f) \/ AgentDeposits(f)
    BY <2>8 DEF Submission, OpenForm, AddNote, EnqueueBaseShield, CloseForm, PollBaseShield
  <2>9. AdvanceMinting => UNCHANGED base
    BY DEF AdvanceMinting
  <2>10. Own => UNCHANGED base \/ base' = Append(base, <<>>)
    BY DEF Own, DeploySettlement, DeployOwnBridge, ConfigureOwnBridge, OwnDeployFails
  <2> QED
    BY <2>1, <2>2, <2>3, <2>4, <2>5, <2>6, <2>7, <2>8, <2>9, <2>10 DEF Next, Depositor
<1> QED
  BY <1>1, SameBase, NewBridge, DepositGrows DEF TypeInv

\* The bridges of calls and of the desk are there.
LEMMA ServerStep == ASSUME TypeInv, Next PROVE ServerType'
<1> DEFINE n == Len(base)
<1>1. n \in Nat /\ Len(base') \in Nat /\ n <= Len(base')
  BY BaseStep, LenProperties DEF Grows, BaseType, TypeInv
<1>2. /\ desk \in [status : {"none", "failed", "active"}, bridge : 0..n, secret : BOOLEAN]
      /\ call \in [Call -> [at : {"idle", "deploy", "configure"},
                            op : {"none", "create", "retry", "complete"}, bridge : 0..n]]
  BY DEF TypeInv, ServerType
<1>3. 0..n \subseteq 0..Len(base') /\ None \in 0..Len(base')
  BY <1>1 DEF None
<1>4. CASE UNCHANGED <<desk, call>>
  BY <1>2, <1>3, <1>4 DEF ServerType
<1>5. ASSUME NEW c \in Call, CreateDesk(c) \/ RetryBaseDeployment(c) PROVE ServerType'
  BY <1>2, <1>3, <1>5 DEF ServerType, CreateDesk, RetryBaseDeployment
<1>6. ASSUME NEW c \in Call, NEW b \in 1..MaxBridges, CompleteBaseDeployment(c, b)
      PROVE  ServerType'
  <2>1. b \in 0..Len(base')
    BY <1>1, <1>6, LenProperties DEF CompleteBaseDeployment, Bridge, TypeInv, BaseType
  <2> QED BY <1>2, <1>3, <1>6, <2>1 DEF ServerType, CompleteBaseDeployment
<1>7. ASSUME NEW c \in Call, DeployBridgeOnBase(c) PROVE ServerType'
  <2>1. n + 1 \in 0..Len(base')
    BY <1>1, <1>7, NewBridge DEF DeployBridgeOnBase, TypeInv
  <2> QED BY <1>2, <1>3, <1>7, <2>1 DEF ServerType, DeployBridgeOnBase
<1>8. ASSUME NEW c \in Call, DeployFails(c) \/ ConfigureBaseBridge(c) \/ ConfigureFails(c)
      PROVE  ServerType'
  <2>1. /\ call' = [call EXCEPT ![c] = NoCall]
        /\ \/ UNCHANGED desk
           \/ \E b \in 0..n : InsertDesk("failed", b, call[c].op = "create")
           \/ \E b \in 0..n : InsertDesk("active", b, call[c].op = "create")
    BY <1>1, <1>2, <1>8 DEF DeployFails, ConfigureBaseBridge, ConfigureFails, ConfigureFailed, End, None
  <2>2. desk' \in [status : {"none", "failed", "active"}, bridge : 0..Len(base'), secret : BOOLEAN]
    <3>1. ASSUME NEW status \in {"failed", "active"}, NEW b \in 0..n, NEW secret \in BOOLEAN,
                 InsertDesk(status, b, secret)
          PROVE  desk' \in [status : {"none", "failed", "active"}, bridge : 0..Len(base'),
                            secret : BOOLEAN]
      <4>1. (secret \/ desk.secret) \in BOOLEAN
        OBVIOUS
      <4> QED BY <1>3, <3>1, <4>1 DEF InsertDesk
    <3>2. (call[c].op = "create") \in BOOLEAN
      OBVIOUS
    <3>3. CASE UNCHANGED desk
      BY <1>2, <1>3, <3>3
    <3> QED BY <2>1, <3>1, <3>2, <3>3
  <2>3. call' \in [Call -> [at : {"idle", "deploy", "configure"},
                            op : {"none", "create", "retry", "complete"}, bridge : 0..Len(base')]]
    BY <1>2, <1>3, <2>1 DEF NoCall
  <2> QED BY <2>2, <2>3 DEF ServerType
<1>9. CASE ServerRestart
  BY <1>2, <1>3, <1>9 DEF ServerRestart, ServerType, NoCall
<1>10. ASSUME NEW f \in Depositor, Submission(f) PROVE UNCHANGED <<desk, call>>
  BY <1>10 DEF Submission, OpenForm, Deposit, AgentDeposits, AddNote, EnqueueBaseShield,
               CloseForm, PollBaseShield, deskVars
<1>11. AdvanceMinting => UNCHANGED <<desk, call>>
  BY DEF AdvanceMinting, deskVars
<1>12. Own => UNCHANGED <<desk, call>>
  BY DEF Own, DeploySettlement, DeployOwnBridge, ConfigureOwnBridge, OwnDeployFails, deskVars
<1> QED
  BY <1>4, <1>5, <1>6, <1>7, <1>8, <1>9, <1>10, <1>11, <1>12 DEF Next, Serve, Depositor

\* What is not a step of a form leaves the forms and the notes alone.
LEMMA FormsUnchanged ==
  ASSUME Next, ~\E f \in Depositor : Submission(f)
  PROVE  UNCHANGED <<form, notes>>
<1>1. ASSUME NEW c \in Call,
             CreateDesk(c) \/ RetryBaseDeployment(c) \/ Serve(c) \/ DeployFails(c) \/ ConfigureFails(c)
      PROVE  UNCHANGED formVars
  BY <1>1 DEF CreateDesk, RetryBaseDeployment, Serve, DeployBridgeOnBase, ConfigureBaseBridge,
              DeployFails, ConfigureFails
<1>2. ASSUME NEW c \in Call, NEW b \in 1..MaxBridges, CompleteBaseDeployment(c, b)
      PROVE  UNCHANGED formVars
  BY <1>2 DEF CompleteBaseDeployment
<1>3. ServerRestart \/ AdvanceMinting \/ Own => UNCHANGED formVars
  BY DEF ServerRestart, AdvanceMinting, Own, DeploySettlement, DeployOwnBridge,
         ConfigureOwnBridge, OwnDeployFails
<1> QED BY <1>1, <1>2, <1>3 DEF Next, formVars, Depositor

\* What neither hands over a deposit nor advances the worker leaves the jobs alone.
LEMMA JobsUnchanged ==
  ASSUME Next, ~AdvanceMinting, ~\E f \in Depositor : EnqueueBaseShield(f)
  PROVE  UNCHANGED <<jobs, minted>>
<1>1. ASSUME NEW c \in Call,
             CreateDesk(c) \/ RetryBaseDeployment(c) \/ Serve(c) \/ DeployFails(c) \/ ConfigureFails(c)
      PROVE  UNCHANGED jobVars
  BY <1>1 DEF CreateDesk, RetryBaseDeployment, Serve, DeployBridgeOnBase, ConfigureBaseBridge,
              DeployFails, ConfigureFails
<1>2. ASSUME NEW c \in Call, NEW b \in 1..MaxBridges, CompleteBaseDeployment(c, b)
      PROVE  UNCHANGED jobVars
  BY <1>2 DEF CompleteBaseDeployment
<1>3. ServerRestart \/ Own => UNCHANGED jobVars
  BY DEF ServerRestart, Own, DeploySettlement, DeployOwnBridge, ConfigureOwnBridge, OwnDeployFails
<1>4. ASSUME NEW f \in Depositor, Submission(f) PROVE UNCHANGED jobVars
  BY <1>4 DEF Submission, OpenForm, Deposit, AgentDeposits, AddNote, CloseForm, PollBaseShield
<1> QED BY <1>1, <1>2, <1>3, <1>4 DEF Next, jobVars, Depositor

\* What a step of a form does to its record.
LEMMA SubmissionRecord ==
  ASSUME TypeInv, NEW f \in Depositor, Submission(f)
  PROVE  \E r \in FormRecord(Len(base)) :
           /\ form' = [form EXCEPT ![f] = r]
           /\ r.at = "open" => r.bridge # None /\ r.done = 0
<1> DEFINE n == Len(base)
<1>1. /\ n \in Nat /\ desk.bridge \in 0..n
      /\ form \in [Depositor -> FormRecord(n)]
      /\ form[f].at = "open" => form[f].bridge # None /\ form[f].done = 0
      /\ jobs \in Seq(JobRecord)
  BY LenProperties DEF TypeInv, BaseType, ServerType, FormType, JobType
<1>2. form[f] \in FormRecord(n)
  BY <1>1
<1>3. CASE OpenForm(f)
  <2> DEFINE r == [at |-> "open", bridge |-> desk.bridge, id |-> 0, done |-> 0]
  <2>1. r \in FormRecord(n) /\ form' = [form EXCEPT ![f] = r] /\ desk.bridge # None
    BY <1>1, <1>3 DEF OpenForm, FormRecord
  <2> QED BY <2>1
<1>4. CASE Deposit(f) \/ AgentDeposits(f)
  <2> DEFINE b == form[f].bridge
             r == [form[f] EXCEPT !.at = "deposited", !.id = Len(base[b])]
  <2>1. Len(base[b]) \in Nat
    BY <1>4, DepositGrows
  <2>2. r \in FormRecord(n) /\ r.at = "deposited"
    BY <1>2, <2>1 DEF FormRecord
  <2>3. form' = [form EXCEPT ![f] = r]
    BY <1>1, <1>4 DEF Deposit, AgentDeposits, FormRecord
  <2> QED BY <2>2, <2>3
<1>5. CASE CloseForm(f) \/ (EnqueueBaseShield(f) /\ ~BridgeMatches(form[f].bridge))
  <2>1. Closed \in FormRecord(n) /\ Closed.at = "closed" /\ form' = [form EXCEPT ![f] = Closed]
    BY <1>1, <1>5 DEF CloseForm, EnqueueBaseShield, Closed, FormRecord, None
  <2> QED BY <2>1
<1>6. CASE AddNote(f) \/ (EnqueueBaseShield(f) /\ BridgeMatches(form[f].bridge))
  <2> DEFINE r == IF form[f].done = 1 THEN [form[f] EXCEPT !.done = 2, !.at = "queued"]
                                      ELSE [form[f] EXCEPT !.done = 1]
  <2>1. form[f].at = "deposited" /\ form' = StepDone(f)
    BY <1>6 DEF AddNote, EnqueueBaseShield, Step, FormAt
  <2>2. r \in FormRecord(n) /\ r.at # "open"
    <3>1. CASE form[f].done = 1
      <4> DEFINE handed == [form[f] EXCEPT !.done = 2]
      <4>1. handed \in FormRecord(n)
        BY <1>2 DEF FormRecord
      <4> HIDE DEF handed
      <4>2. [handed EXCEPT !.at = "queued"] \in FormRecord(n)
        BY <4>1 DEF FormRecord
      <4>3. r = [handed EXCEPT !.at = "queued"]
        BY <3>1 DEF handed
      <4> QED BY <4>1, <4>2, <4>3 DEF FormRecord
    <3>2. CASE form[f].done # 1
      BY <1>2, <2>1, <3>2 DEF FormRecord
    <3> QED BY <3>1, <3>2
  <2>3. form' = [form EXCEPT ![f] = r]
    BY <1>1, <2>1 DEF StepDone, FormRecord
  <2> QED BY <2>2, <2>3
<1>7. CASE PollBaseShield(f)
  <2>1. PICK s \in {"active", "failed"} : form' = [form EXCEPT ![f].at = s]
    BY <1>7 DEF PollBaseShield
  <2> DEFINE r == [form[f] EXCEPT !.at = s]
  <2>2. r \in FormRecord(n) /\ r.at # "open"
    BY <1>2, <2>1 DEF FormRecord
  <2>3. form' = [form EXCEPT ![f] = r]
    BY <1>1, <2>1 DEF FormRecord
  <2> QED BY <2>2, <2>3
<1> QED BY <1>3, <1>4, <1>5, <1>6, <1>7 DEF Submission

\* Every step keeps the types of the forms.
LEMMA FormStep == ASSUME TypeInv, Next PROVE FormType'
<1>1. /\ Len(base) \in Nat /\ Len(base') \in Nat /\ Len(base) <= Len(base')
      /\ form \in [Depositor -> FormRecord(Len(base))]
      /\ \A f \in Depositor : form[f].at = "open" => form[f].bridge # None /\ form[f].done = 0
  BY BaseStep, LenProperties DEF Grows, BaseType, TypeInv, FormType, FormRecord
<1>2. FormRecord(Len(base)) \subseteq FormRecord(Len(base'))
  BY <1>1 DEF FormRecord
<1>3. CASE \E f \in Depositor : Submission(f)
  <2>1. PICK f \in Depositor, r \in FormRecord(Len(base)) :
             /\ form' = [form EXCEPT ![f] = r]
             /\ r.at = "open" => r.bridge # None /\ r.done = 0
    BY <1>3, SubmissionRecord
  <2>2. form' \in [Depositor -> FormRecord(Len(base'))]
    BY <1>1, <1>2, <2>1
  <2>3. \A g \in Depositor : form'[g].at = "open" => form'[g].bridge # None /\ form'[g].done = 0
    BY <1>1, <2>1
  <2> QED BY <2>2, <2>3 DEF FormType, FormRecord
<1>4. CASE ~\E f \in Depositor : Submission(f)
  <2>1. form' = form
    BY <1>4, FormsUnchanged
  <2>2. form' \in [Depositor -> FormRecord(Len(base'))]
    BY <1>1, <1>2, <2>1
  <2> QED BY <1>1, <2>1, <2>2 DEF FormType, FormRecord
<1> QED BY <1>3, <1>4

\* The worker takes a job that is there.
LEMMA WorkerTakes ==
  ASSUME NEW S \in SUBSET Nat, S # {}
  PROVE  Min(S) \in S
<1> DEFINE R == OpToRel(<, Nat)
<1>1. IsWellFoundedOn(R, Nat)
  BY NatLessThanWellFounded, Zenon
<1>2. PICK x \in S : \A y \in S : ~(<<y, x>> \in R)
  BY <1>1, WFMin, Zenon
<1>3. \A y \in S : ~(y < x)
  BY <1>2 DEF OpToRel
<1>4. \A y \in S : x <= y
  BY <1>3
<1> QED BY <1>4 DEF Min

\* Every step keeps the types of the jobs.
LEMMA JobStep == ASSUME TypeInv, Next PROVE JobType'
<1>1. jobs \in Seq(JobRecord) /\ DOMAIN jobs = 1..Len(jobs) /\ Len(jobs) \in Nat
  BY LenProperties DEF TypeInv, JobType, JobRecord
<1>2. ASSUME NEW f \in Depositor, EnqueueBaseShield(f) PROVE JobType'
  <2> DEFINE job == [bridge |-> form[f].bridge, deposit_id |-> form[f].id, status |-> "proving"]
  <2>1. job \in JobRecord
    BY LenProperties DEF TypeInv, BaseType, FormType, FormRecord, JobRecord
  <2>2. jobs' \in {jobs, Append(jobs, job)}
    BY <1>2 DEF EnqueueBaseShield
  <2> HIDE DEF job
  <2>3. Append(jobs, job) \in Seq(JobRecord)
    BY <1>1, <2>1, AppendProperties
  <2> QED BY <1>1, <2>2, <2>3 DEF JobType, JobRecord
<1>3. CASE AdvanceMinting
  <2> DEFINE open == {j \in DOMAIN jobs : jobs[j].status = "proving"}
  <2>1. PICK j \in DOMAIN jobs, s \in {"active", "failed"} : jobs' = [jobs EXCEPT ![j].status = s]
    <3>1. open # {} /\ open \in SUBSET Nat
      BY <1>1, <1>3 DEF AdvanceMinting
    <3>2. Min(open) \in DOMAIN jobs
      BY <3>1, WorkerTakes
    <3> QED BY <1>3, <3>2 DEF AdvanceMinting
  <2> DEFINE job == [jobs[j] EXCEPT !.status = s]
  <2>2. job \in JobRecord
    <3>1. jobs[j] \in JobRecord
      BY <1>1, ElementOfSeq
    <3> QED BY <3>1 DEF JobRecord
  <2>3. jobs' = [jobs EXCEPT ![j] = job]
    BY <1>1, <2>1
  <2> HIDE DEF job
  <2> QED BY <1>1, <2>2, <2>3, ExceptSeq DEF JobType, JobRecord
<1> QED BY <1>1, <1>2, <1>3, JobsUnchanged DEF JobType, JobRecord

\* The types are inductive.
LEMMA TypeStep == ASSUME TypeInv, [Next]_desksVars PROVE TypeInv'
<1>1. CASE Next
  BY <1>1, BaseStep, ServerStep, FormStep, JobStep DEF TypeInv, Grows
<1>2. CASE UNCHANGED desksVars
  BY <1>2 DEF desksVars, deskVars, formVars, jobVars, TypeInv, ServerType, BaseType, FormType, JobType
<1> QED BY <1>1, <1>2

\* They hold at first.
LEMMA TypeInit == Init => TypeInv
<1> SUFFICES ASSUME Init PROVE TypeInv
  OBVIOUS
<1>1. base = <<>> /\ Len(base) = 0 /\ jobs = <<>>
  BY DEF Init, InitServer
<1>2. ServerType
  BY <1>1 DEF Init, InitServer, ServerType, NoDesk, NoCall, None
<1>3. BaseType /\ JobType
  BY <1>1 DEF BaseType, JobType
<1>4. FormType
  BY <1>1 DEF Init, FormType, FormRecord, Depositor, None
<1> QED BY <1>2, <1>3, <1>4 DEF TypeInv

\* The tables, the forms and the bridges on Base keep their types, and no call, no
\* form and no desk is on a bridge that is not there.
THEOREM DesksTypeCorrect == Spec => []TypeInv
BY TypeInit, TypeStep, PTL DEF Spec
-----------------------------------------------------------------------------
(***************************************************************************)
(* An active desk is configured.                                           *)
(***************************************************************************)

\* The browser's desk is shown as active once its deployment has ended.
OwnEnded ==
  /\ local \in [at : {"none", "bridge", "configure", "stored", "lost"},
                status : {"none", "active", "failed"}, bridge : Nat, contract : Nat]
  /\ local.status = "active" => local.at = "stored"

\* Every step keeps active desks configured.
LEMMA ConfiguredStep ==
  ASSUME BaseType, ActiveIsConfigured, OwnEnded, [Next]_desksVars
  PROVE  ActiveIsConfigured' /\ OwnEnded'
<1> USE DEF ActiveIsConfigured, OwnEnded
<1>1. ASSUME NEW c \in Call, CreateDesk(c) PROVE ActiveIsConfigured' /\ OwnEnded'
  BY <1>1 DEF CreateDesk, NoDesk
<1>2. ASSUME NEW c \in Call, RetryBaseDeployment(c) PROVE ActiveIsConfigured' /\ OwnEnded'
  BY <1>2 DEF RetryBaseDeployment
<1>3. ASSUME NEW c \in Call, DeployBridgeOnBase(c) PROVE ActiveIsConfigured' /\ OwnEnded'
  BY <1>3 DEF DeployBridgeOnBase
<1>4. ASSUME NEW c \in Call, ConfigureBaseBridge(c) PROVE ActiveIsConfigured' /\ OwnEnded'
  BY <1>4 DEF ConfigureBaseBridge, InsertDesk
<1>5. ASSUME NEW c \in Call, DeployFails(c) PROVE ActiveIsConfigured' /\ OwnEnded'
  BY <1>5 DEF DeployFails, InsertDesk
<1>6. ASSUME NEW c \in Call, ConfigureFails(c) PROVE ActiveIsConfigured' /\ OwnEnded'
  BY <1>6 DEF ConfigureFails, ConfigureFailed, InsertDesk
<1>7. ASSUME NEW c \in Call, NEW b \in 1..MaxBridges, CompleteBaseDeployment(c, b)
      PROVE  ActiveIsConfigured' /\ OwnEnded'
  BY <1>7 DEF CompleteBaseDeployment
<1>8. ASSUME ServerRestart PROVE ActiveIsConfigured' /\ OwnEnded'
  BY <1>8 DEF ServerRestart
<1>9. ASSUME NEW f \in Depositor, Submission(f) PROVE ActiveIsConfigured' /\ OwnEnded'
  <2>1. UNCHANGED <<deskVars, local>>
    BY <1>9 DEF Submission, OpenForm, Deposit, AgentDeposits, AddNote, EnqueueBaseShield,
                CloseForm, PollBaseShield
  <2> QED BY <2>1 DEF deskVars
<1>10. ASSUME AdvanceMinting PROVE ActiveIsConfigured' /\ OwnEnded'
  BY <1>10 DEF AdvanceMinting, deskVars
<1>11. ASSUME Own PROVE ActiveIsConfigured' /\ OwnEnded'
  <2>1. UNCHANGED deskVars
    BY <1>11 DEF Own, DeploySettlement, DeployOwnBridge, ConfigureOwnBridge, OwnDeployFails
  <2>2. OwnEnded' /\ (local'.status = "active" => local'.contract = local'.bridge)
    <3>1. CASE DeploySettlement BY <3>1 DEF DeploySettlement, None
    <3>2. CASE DeployOwnBridge
      <4>1. Len(base) + 1 \in Nat BY LenProperties DEF BaseType
      <4> QED BY <3>2, <4>1 DEF DeployOwnBridge
    <3>3. CASE ConfigureOwnBridge BY <3>3 DEF ConfigureOwnBridge
    <3>4. CASE OwnDeployFails BY <3>4 DEF OwnDeployFails, DeployDeskError
    <3> QED BY <1>11, <3>1, <3>2, <3>3, <3>4 DEF Own
  <2> QED BY <2>1, <2>2 DEF deskVars
<1>12. CASE UNCHANGED desksVars
  BY <1>12 DEF desksVars, deskVars
<1> QED
  BY <1>1, <1>2, <1>3, <1>4, <1>5, <1>6, <1>7, <1>8, <1>9, <1>10, <1>11, <1>12
     DEF Next, Serve, Depositor

\* A desk that is shown as active is on a contract that has its bridge, or one
\* whose call could not write the desk: deploy, retry and complete may overlap in
\* any number.
THEOREM ActiveStaysConfigured == Spec => []ActiveIsConfigured
<1> DEFINE IInv == TypeInv /\ ActiveIsConfigured /\ OwnEnded
<1>1. Init => IInv
  <2>1. Init => ActiveIsConfigured /\ OwnEnded
    BY DEF Init, InitServer, NoDesk, ActiveIsConfigured, OwnEnded, None
  <2> QED BY <2>1, TypeInit
<1>2. IInv /\ [Next]_desksVars => IInv'
  BY TypeStep, ConfiguredStep DEF TypeInv
<1>3. IInv => ActiveIsConfigured
  OBVIOUS
<1> QED
  BY <1>1, <1>2, <1>3, PTL DEF Spec
-----------------------------------------------------------------------------
(***************************************************************************)
(* Only notes whose secrets are stored are minted.                         *)
(***************************************************************************)

\* No step forgets a note.
LEMMA NotesStay == ASSUME Next PROVE notes \subseteq notes'
<1>1. ASSUME NEW f \in Depositor, Submission(f) PROVE notes \subseteq notes'
  BY <1>1 DEF Submission, OpenForm, Deposit, AgentDeposits, AddNote, EnqueueBaseShield,
              CloseForm, PollBaseShield
<1> QED BY <1>1, FormsUnchanged

\* A form stores its note first and hands the deposit over next.
LEMMA NoteFirst ==
  ASSUME NEW f, form[f].done \in {0, 1}
  PROVE  /\ Step(f, "note") => form[f].done = 0
         /\ Step(f, "enqueue") => form[f].done = 1
<1>1. form[f].done = 0 => Order[form[f].done + 1] = "note"
  BY DEF Order
<1>2. form[f].done = 1 => Order[form[f].done + 1] = "enqueue"
  BY DEF Order
<1> QED BY <1>1, <1>2 DEF Step

\* What is true of a form stays true while others move.
LEMMA StoresStays ==
  ASSUME TypeInv, Next, NEW f \in Depositor, FormStores(f), form'[f] = form[f]
  PROVE  FormStores(f)'
<1>1. form[f].bridge \in Nat /\ form[f].id \in Nat
  BY LenProperties DEF TypeInv, FormType, FormRecord, BaseType
<1>2. Grows /\ notes \subseteq notes'
  BY BaseStep, NotesStay
<1>3. PICK b \in Nat, id \in Nat : b = form[f].bridge /\ id = form[f].id
  BY <1>1
<1>4. IsDeposit(b, id) => IsDeposit(b, id)' /\ base'[b][id + 1] = base[b][id + 1]
  BY <1>2 DEF Grows
<1> QED
  BY <1>2, <1>3, <1>4 DEF FormStores, OwnEntry, Note, IsDeposit

\* The steps of a form keep it true of the form.
LEMMA SubmissionStores ==
  ASSUME TypeInv, Next, NEW f \in Depositor, FormStores(f), Submission(f)
  PROVE  FormStores(f)'
<1>1. form \in [Depositor -> FormRecord(Len(base))]
  BY DEF TypeInv, FormType, FormRecord
<1>2. CASE OpenForm(f)
  BY <1>1, <1>2 DEF OpenForm, FormStores
<1>3. CASE Deposit(f) \/ AgentDeposits(f)
  <2>1. form[f].at = "open" /\ form[f].done = 0
    BY <1>3 DEF Deposit, AgentDeposits, FormAt, TypeInv, FormType
  <2>2. PICK b \in DOMAIN base, id \in Nat :
          /\ b = form[f].bridge /\ id = Len(base[b])
          /\ IsDeposit(b, id)' /\ OwnEntry(f, base'[b][id + 1])
    BY <1>3, DepositGrows
  <2>3. form' = [form EXCEPT ![f].at = "deposited", ![f].id = id]
    BY <1>3, <2>2 DEF Deposit, AgentDeposits
  <2>4. form'[f].bridge = b /\ form'[f].id = id /\ form'[f].done = 0
    BY <1>1, <2>1, <2>2, <2>3 DEF FormRecord
  <2> QED
    BY <2>2, <2>4 DEF FormStores, IsDeposit, OwnEntry, Note
<1>4. CASE AddNote(f)
  <2>1. form[f].done = 0 /\ form[f].at = "deposited"
    BY <1>4, NoteFirst DEF AddNote, Step, FormAt, FormStores
  <2>2. form' = [form EXCEPT ![f].done = 1] /\ UNCHANGED base /\ Note(f) \in notes'
    BY <1>4, <2>1 DEF AddNote, StepDone
  <2>3. /\ form'[f].bridge = form[f].bridge /\ form'[f].id = form[f].id
        /\ form'[f].done = 1 /\ form'[f].at = form[f].at
    BY <1>1, <2>2 DEF FormRecord
  <2> QED
    BY <2>1, <2>2, <2>3 DEF FormStores, IsDeposit, OwnEntry, Note
<1>5. CASE EnqueueBaseShield(f)
  <2>1. form[f].at = "deposited" /\ form[f].done = 1
    BY <1>5, NoteFirst DEF EnqueueBaseShield, Step, FormAt, FormStores
  <2>2. \/ form' = [form EXCEPT ![f].done = 2, ![f].at = "queued"]
        \/ form' = [form EXCEPT ![f] = Closed]
    BY <1>5, <2>1 DEF EnqueueBaseShield, StepDone
  <2>3. form'[f].at \in {"queued", "closed"}
    BY <1>1, <2>2 DEF FormRecord, Closed
  <2> QED BY <2>3 DEF FormStores
<1>6. CASE CloseForm(f)
  BY <1>1, <1>6 DEF CloseForm, Closed, FormStores
<1>7. CASE PollBaseShield(f)
  <2>1. PICK s \in {"active", "failed"} : form' = [form EXCEPT ![f].at = s]
    BY <1>7 DEF PollBaseShield
  <2> QED BY <1>1, <2>1 DEF FormStores, FormRecord
<1> QED
  BY <1>2, <1>3, <1>4, <1>5, <1>6, <1>7 DEF Submission

\* So every step keeps it true of all forms.
LEMMA FormsStoreStep == ASSUME TypeInv, FormsStore, Next PROVE FormsStore'
<1>1. \A g \in Depositor : FormStores(g)
  BY DEF FormsStore
<1>2. ASSUME NEW g \in Depositor PROVE FormStores(g)'
  <2>1. CASE Submission(g)
    BY <1>1, <2>1, SubmissionStores
  <2>2. CASE ~Submission(g)
    <3>1. form'[g] = form[g]
      <4>1. ASSUME NEW f \in Depositor, Submission(f) PROVE form'[g] = form[g]
        <5>1. PICK r : form' = [form EXCEPT ![f] = r]
          BY <4>1, SubmissionRecord
        <5>2. f # g
          BY <2>2, <4>1
        <5> QED BY <5>1, <5>2 DEF TypeInv, FormType
      <4> QED BY <4>1, FormsUnchanged
    <3> QED BY <1>1, <3>1, StoresStays
  <2> QED BY <2>1, <2>2
<1> QED BY <1>2 DEF FormsStore

\* A job is for a deposit whose note is stored, and stays so.
LEMMA JobsStoredStep == ASSUME TypeInv, FormsStore, JobsStored, Next PROVE JobsStored'
<1>1. \A j \in DOMAIN jobs : IsStored(jobs[j].bridge, jobs[j].deposit_id)
  BY DEF JobsStored
<1>2. ASSUME NEW b \in Nat, NEW id \in Nat, IsStored(b, id) PROVE IsStored(b, id)'
  BY <1>2, BaseStep, NotesStay DEF Grows, IsStored, IsDeposit
<1>3. /\ jobs \in Seq(JobRecord) /\ jobs' \in Seq(JobRecord)
      /\ DOMAIN jobs = 1..Len(jobs) /\ DOMAIN jobs' = 1..Len(jobs')
      /\ Len(jobs) \in Nat /\ Len(jobs') \in Nat
  BY JobStep, LenProperties DEF TypeInv, JobType, JobRecord
<1>4. \A j \in DOMAIN jobs : jobs[j] \in JobRecord
  BY <1>3, ElementOfSeq
<1>5. ASSUME NEW j \in DOMAIN jobs',
             \/ \E k \in DOMAIN jobs : /\ jobs'[j].bridge = jobs[k].bridge
                                       /\ jobs'[j].deposit_id = jobs[k].deposit_id
             \/ \E f \in Depositor : /\ Step(f, "enqueue")
                                     /\ jobs'[j].bridge = form[f].bridge
                                     /\ jobs'[j].deposit_id = form[f].id
      PROVE  IsStored(jobs[j].bridge, jobs[j].deposit_id)'
  <2>1. PICK b \in Nat, id \in Nat :
          b = jobs'[j].bridge /\ id = jobs'[j].deposit_id /\ IsStored(b, id)
    <3>1. CASE \E k \in DOMAIN jobs : /\ jobs'[j].bridge = jobs[k].bridge
                                      /\ jobs'[j].deposit_id = jobs[k].deposit_id
      BY <1>1, <1>4, <3>1 DEF JobRecord
    <3>2. CASE \E f \in Depositor : /\ Step(f, "enqueue")
                                    /\ jobs'[j].bridge = form[f].bridge
                                    /\ jobs'[j].deposit_id = form[f].id
      <4>1. PICK f \in Depositor : /\ Step(f, "enqueue")
                                   /\ jobs'[j].bridge = form[f].bridge
                                   /\ jobs'[j].deposit_id = form[f].id
        BY <3>2
      <4>2. form[f].at = "deposited" /\ form[f].done = 1 /\ Note(f) \in notes
        BY <4>1, NoteFirst DEF FormsStore, FormStores, Step, FormAt
      <4>3. form[f].bridge \in Nat /\ form[f].id \in Nat
        BY LenProperties DEF TypeInv, FormType, FormRecord, BaseType
      <4>4. IsStored(form[f].bridge, form[f].id)
        BY <4>2 DEF FormsStore, FormStores, OwnEntry, IsStored
      <4> QED BY <4>1, <4>3, <4>4
    <3> QED BY <1>5, <3>1, <3>2
  <2>2. IsStored(b, id)'
    BY <1>2, <2>1
  <2> QED BY <2>1, <2>2 DEF IsStored, IsDeposit
<1>6. CASE \E f \in Depositor : EnqueueBaseShield(f)
  <2>1. PICK f \in Depositor : EnqueueBaseShield(f)
    BY <1>6
  <2> DEFINE job == [bridge |-> form[f].bridge, deposit_id |-> form[f].id, status |-> "proving"]
  <2>2. jobs' \in {jobs, Append(jobs, job)} /\ Step(f, "enqueue")
    BY <2>1 DEF EnqueueBaseShield
  <2>3. job.bridge = form[f].bridge /\ job.deposit_id = form[f].id
    OBVIOUS
  <2> HIDE DEF job
  <2>4. ASSUME NEW j \in DOMAIN jobs' 
        PROVE  (j \in DOMAIN jobs /\ jobs'[j] = jobs[j]) \/ jobs'[j] = job
    <3>1. CASE jobs' = jobs
      BY <3>1
    <3>2. CASE jobs' = Append(jobs, job)
      <4>1. jobs \in Seq(JobRecord \cup {job})
        BY <1>3, <1>4
      <4>2. /\ Len(jobs') = Len(jobs) + 1 /\ jobs'[Len(jobs) + 1] = job
            /\ \A i \in 1..Len(jobs) : jobs'[i] = jobs[i]
        BY <3>2, <4>1, AppendProperties
      <4> QED BY <1>3, <4>2
    <3> QED BY <2>2, <3>1, <3>2
  <2>5. ASSUME NEW j \in DOMAIN jobs' PROVE IsStored(jobs[j].bridge, jobs[j].deposit_id)'
    BY <1>5, <2>2, <2>3, <2>4
  <2> QED BY <2>5 DEF JobsStored
<1>7. CASE AdvanceMinting
  <2>1. /\ DOMAIN jobs' = DOMAIN jobs
        /\ \A j \in DOMAIN jobs : /\ jobs'[j].bridge = jobs[j].bridge
                                  /\ jobs'[j].deposit_id = jobs[j].deposit_id
    <3>1. PICK i, s : jobs' = [jobs EXCEPT ![i].status = s]
      BY <1>7 DEF AdvanceMinting
    <3> QED BY <1>4, <3>1 DEF JobRecord
  <2>2. ASSUME NEW j \in DOMAIN jobs' PROVE IsStored(jobs[j].bridge, jobs[j].deposit_id)'
    BY <1>5, <2>1
  <2> QED BY <2>2 DEF JobsStored
<1>8. CASE UNCHANGED jobs
  <2>1. ASSUME NEW j \in DOMAIN jobs' PROVE IsStored(jobs[j].bridge, jobs[j].deposit_id)'
    BY <1>5, <1>8
  <2> QED BY <2>1 DEF JobsStored
<1> QED BY <1>6, <1>7, <1>8, JobsUnchanged

\* The worker mints what a job names.
LEMMA MintedStep ==
  ASSUME TypeInv, JobsStored, MintedIsSpendable, Next
  PROVE  MintedIsSpendable'
<1>1. notes \subseteq notes'
  BY NotesStay
<1>2. CASE AdvanceMinting
  <2> DEFINE open == {j \in DOMAIN jobs : jobs[j].status = "proving"}
  <2>1. Min(open) \in DOMAIN jobs
    <3>1. open # {} /\ open \in SUBSET Nat
      BY <1>2, LenProperties DEF AdvanceMinting, TypeInv, JobType
    <3> QED BY <3>1, WorkerTakes
  <2> DEFINE job == jobs[Min(open)]
             new == [bridge |-> job.bridge, deposit_id |-> job.deposit_id,
                     note |-> base[job.bridge][job.deposit_id + 1]]
  <2>2. minted' \in {minted, minted \cup {new}}
    BY <1>2 DEF AdvanceMinting
  <2>3. new.note.by \in Form => new.note \in notes
    BY <2>1 DEF JobsStored, IsStored
  <2> HIDE DEF new
  <2> QED BY <1>1, <2>2, <2>3 DEF MintedIsSpendable
<1>3. CASE ~AdvanceMinting
  <2>1. UNCHANGED minted
    <3>1. ASSUME NEW f \in Depositor, EnqueueBaseShield(f) PROVE UNCHANGED minted
      BY <3>1 DEF EnqueueBaseShield
    <3> QED BY <1>3, <3>1, JobsUnchanged
  <2> QED BY <1>1, <2>1 DEF MintedIsSpendable
<1> QED BY <1>2, <1>3

\* A deposit that a form made is minted only with its note's secrets stored, in
\* whatever order tabs are closed, calls fail and bridges are replaced.
THEOREM MintedStaysSpendable == Spec => []MintedIsSpendable
<1> DEFINE IInv == TypeInv /\ HandedOver
<1>1. Init => IInv
  <2>1. Init => FormsStore /\ JobsStored /\ MintedIsSpendable
    BY DEF Init, InitServer, FormsStore, FormStores, JobsStored, MintedIsSpendable,
           Depositor
  <2> QED BY <2>1, TypeInit DEF HandedOver
<1>2. IInv /\ [Next]_desksVars => IInv'
  <2>1. IInv /\ Next => IInv'
    BY TypeStep, FormsStoreStep, JobsStoredStep, MintedStep DEF HandedOver
  <2>2. IInv /\ UNCHANGED desksVars => IInv'
    BY TypeStep DEF desksVars, deskVars, formVars, jobVars, HandedOver, FormsStore, FormStores,
                    JobsStored, IsStored, MintedIsSpendable, IsDeposit, OwnEntry, Note
  <2> QED BY <2>1, <2>2
<1>3. IInv => MintedIsSpendable
  BY DEF HandedOver
<1> QED
  BY <1>1, <1>2, <1>3, PTL DEF Spec
=============================================================================

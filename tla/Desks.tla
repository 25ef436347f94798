-------------------------------- MODULE Desks --------------------------------
(***************************************************************************)
(* How a desk comes to be and how Base deposits reach it: the deploy       *)
(* handlers of the MCP server (packages/mcp/src/deploy.ts), its desk and   *)
(* job tables (store.ts), the Base form of the browser                     *)
(* (ShieldFromBaseForm.tsx) and the SDK's deploy and shieldFromBase        *)
(* (packages/sdk/src/client.ts).                                           *)
(*                                                                         *)
(* One desk with Base assets is created on the server; another is deployed *)
(* by a browser for itself.  The server runs its calls on one thread: they *)
(* interleave where they wait for Base, but the configuration of the       *)
(* contract is a blocking call, and nothing of another call runs between   *)
(* it and the write of the desk.  A bridge is the number of its            *)
(* deployment; every deployment makes a new one (a random salt).           *)
(***************************************************************************)
EXTENDS Integers, SequencesExt, FiniteSetsExt

CONSTANTS
  Call,        \* calls that the server can hold at once
  Form,        \* submissions of the browser's form: one deposit each
  Agent,       \* calls of shieldFromBase: one deposit each
  MaxBridges,  \* bound on the bridges that are deployed on Base
  MaxFaults    \* bound on failures and restarts

ASSUME DesksAssumption ==
  /\ Form \cap Agent = {}
  /\ MaxBridges \in Nat /\ MaxFaults \in Nat

VARIABLES
  desk,      \* desks: the desk's base_deployment and its sponsor's secret
  contract,  \* the bridge that the desk's contract is configured with
  unsaved,   \* bridges configured by a call that could not write the desk
  base,      \* the bridges on Base: per bridge, its deposits in order
  call,      \* the server's calls
  jobs,      \* base_shields, oldest first
  minted,    \* DataKey::BaseDeposit: what was minted, by deposit id
  form,      \* the forms and the SDK's calls
  notes,     \* the notes whose secrets are stored
  local,     \* the browser's own desk: its deployment
  faults     \* failures and restarts so far

deskVars == <<desk, contract, unsaved, call>>
jobVars  == <<jobs, minted>>
formVars == <<form, notes>>
desksVars == <<deskVars, base, jobVars, formVars, local, faults>>
-----------------------------------------------------------------------------
None   == 0
NoDesk == [status |-> "none", bridge |-> None, secret |-> FALSE]
NoCall == [at |-> "idle", op |-> "none", bridge |-> None]
Closed == [at |-> "closed", bridge |-> None, id |-> 0, done |-> 0]

Note(f) == [by |-> f, secret |-> IF f \in Form THEN "form" ELSE "sdk"]
Bridge  == DOMAIN base

Fault == faults < MaxFaults /\ faults' = faults + 1
NoFault == UNCHANGED faults

At(c, step) == call[c].at = step
Goto(c, step) == call' = [call EXCEPT ![c].at = step]
End(c) == call' = [call EXCEPT ![c] = NoCall]
-----------------------------------------------------------------------------
(***************************************************************************)
(* The server's calls.                                                     *)
(***************************************************************************)

\* Variant: the write of a desk replaces the secret too.
InsertDesk_Overwrites(status, bridge, secret) ==
  desk' = [status |-> status, bridge |-> bridge, secret |-> secret]

\* Variant: an address in the record is not replaced.
InsertDesk_KeepsBridge(status, bridge, secret) ==
  desk' = [status |-> status, bridge |-> IF desk.bridge # None THEN desk.bridge ELSE bridge,
           secret |-> secret \/ desk.secret]

\* insertDesk: the whole record is replaced, the secret only by another one.
InsertDesk(status, bridge, secret) ==
  desk' = [status |-> status, bridge |-> bridge, secret |-> secret \/ desk.secret]

\* createDesk: the sponsor is funded and the contract is deployed; the desk is
\* not in the table before its bridge was tried.
CreateDesk(c) ==
  /\ At(c, "idle") /\ desk = NoDesk /\ \A d \in Call : call[d].op # "create"
  /\ call' = [call EXCEPT ![c] = [at |-> "deploy", op |-> "create", bridge |-> None]]
  /\ contract' = None /\ unsaved' = {}
  /\ UNCHANGED <<desk, base, jobVars, formVars, local, faults>>

\* retryBaseDeployment, up to its first wait: an active desk is answered, one
\* without a sponsor's key refused.
RetryBaseDeployment(c) ==
  /\ At(c, "idle") /\ desk # NoDesk
  /\ desk.status # "active" /\ desk.secret
  /\ call' = [call EXCEPT ![c] = [at |-> "deploy", op |-> "retry", bridge |-> None]]
  /\ UNCHANGED <<desk, contract, unsaved, base, jobVars, formVars, local, faults>>

\* completeBaseDeployment: the bridge is on Base and of the same deployer, with
\* the same assets; the desk's status is not looked at.
CompleteBaseDeployment(c, b) ==
  /\ At(c, "idle") /\ desk # NoDesk /\ desk.secret /\ b \in Bridge \ {local.bridge}
  /\ call' = [call EXCEPT ![c] = [at |-> "configure", op |-> "complete", bridge |-> b]]
  /\ UNCHANGED <<desk, contract, unsaved, base, jobVars, formVars, local, faults>>

\* deployBridgeOnBase.
DeployBridgeOnBase(c) ==
  /\ At(c, "deploy") /\ Len(base) < MaxBridges
  /\ base' = Append(base, <<>>)
  /\ call' = [call EXCEPT ![c].at = "configure", ![c].bridge = Len(base) + 1]
  /\ UNCHANGED <<desk, contract, unsaved, jobVars, formVars, local, faults>>

\* It fails, before the bridge is there or after: the desk is written as failed,
\* without a bridge.
DeployFails(c) ==
  /\ Fault /\ At(c, "deploy")
  /\ base' \in {base} \cup (IF Len(base) < MaxBridges THEN {Append(base, <<>>)} ELSE {})
  /\ InsertDesk("failed", None, call[c].op = "create")
  /\ End(c)
  /\ UNCHANGED <<contract, unsaved, jobVars, formVars, local>>

\* configureBaseBridge (configure_base_bridge replaces what was configured) and
\* the write of the desk.
ConfigureBaseBridge(c) ==
  /\ At(c, "configure")
  /\ contract' = call[c].bridge
  /\ InsertDesk("active", call[c].bridge, call[c].op = "create")
  /\ End(c) /\ NoFault
  /\ UNCHANGED <<unsaved, base, jobVars, formVars, local>>

\* An attempt that fails after its bridge was deployed keeps the bridge's address
\* in the record; complete has nothing that it writes.
ConfigureFailed(c) ==
  IF call[c].op = "complete" THEN UNCHANGED desk
  ELSE InsertDesk("failed", call[c].bridge, call[c].op = "create")

\* The call that configures fails, or its answer is lost.
ConfigureFails(c) ==
  /\ Fault /\ At(c, "configure")
  /\ \/ UNCHANGED <<contract, unsaved>>
     \/ /\ contract' = call[c].bridge
        /\ unsaved' = unsaved \cup {call[c].bridge}
  /\ ConfigureFailed(c) /\ End(c)
  /\ UNCHANGED <<base, jobVars, formVars, local>>

\* The server is restarted; a contract may have been configured just before.
ServerRestart ==
  /\ Fault /\ \E c \in Call : ~At(c, "idle")
  /\ \/ UNCHANGED <<contract, unsaved>>
     \/ \E c \in Call : /\ At(c, "configure") /\ contract' = call[c].bridge
                        /\ unsaved' = unsaved \cup {call[c].bridge}
  /\ call' = [c \in Call |-> NoCall]
  /\ UNCHANGED <<desk, base, jobVars, formVars, local>>
-----------------------------------------------------------------------------
(***************************************************************************)
(* Deposits: the browser's form and the SDK.                               *)
(***************************************************************************)

FormAt(f, step) == form[f].at = step

\* The form is opened and asks base_shield_config: there is a bridge's address,
\* whatever the status, and the answer is kept.
OpenForm(f) ==
  /\ FormAt(f, "none") /\ desk.bridge # None
  /\ form' = [form EXCEPT ![f] = [at |-> "open", bridge |-> desk.bridge, id |-> 0, done |-> 0]]
  /\ UNCHANGED <<deskVars, base, jobVars, notes, local, faults>>

\* baseShield: approve and shield; the deposit has the note's tag and the id of
\* its place on its bridge.
Deposit(f) ==
  LET b == form[f].bridge
  IN  /\ f \in Form /\ FormAt(f, "open")
      /\ base' = [base EXCEPT ![b] = Append(@, Note(f))]
      /\ form' = [form EXCEPT ![f].at = "deposited", ![f].id = Len(base[b])]
      /\ UNCHANGED <<deskVars, jobVars, notes, local, faults>>

\* The caller of shieldFromBase has made the deposit, with a tag of its own.
AgentDeposits(f) ==
  LET b == form[f].bridge
  IN  /\ f \in Agent /\ FormAt(f, "open")
      /\ base' = [base EXCEPT ![b] = Append(@, [by |-> f, secret |-> "caller"])]
      /\ form' = [form EXCEPT ![f].at = "deposited", ![f].id = Len(base[b])]
      /\ UNCHANGED <<deskVars, jobVars, notes, local, faults>>

\* assertBridgeMatches.
BridgeMatches(b) == desk.bridge = b

\* Variant: the deposit is handed over before its note is kept.
Order_Swapped == <<"enqueue", "note">>

\* What the form and shieldFromBase do with a deposit.
Order == <<"note", "enqueue">>

Step(f, step) == FormAt(f, "deposited") /\ Order[form[f].done + 1] = step
StepDone(f) ==
  IF form[f].done = 1 THEN [form EXCEPT ![f].done = 2, ![f].at = "queued"]
                      ELSE [form EXCEPT ![f].done = 1]

\* addNote: the secrets of the deposit's note, or fresh ones in shieldFromBase.
AddNote(f) ==
  /\ Step(f, "note")
  /\ notes' = notes \cup {Note(f)} /\ form' = StepDone(f)
  /\ UNCHANGED <<deskVars, base, jobVars, local, faults>>

\* enqueueBaseShield: refused unless the bridge matches; a job for the deposit,
\* unless there is one.
EnqueueBaseShield(f) ==
  LET job == [bridge |-> form[f].bridge, deposit_id |-> form[f].id, status |-> "proving"]
      enqueued == \E j \in DOMAIN jobs :
                    jobs[j].bridge = job.bridge /\ jobs[j].deposit_id = job.deposit_id
  IN  /\ Step(f, "enqueue")
      /\ IF BridgeMatches(job.bridge)
         THEN jobs' = (IF enqueued THEN jobs ELSE Append(jobs, job)) /\ form' = StepDone(f)
         ELSE form' = [form EXCEPT ![f] = Closed] /\ UNCHANGED jobs
      /\ UNCHANGED <<deskVars, base, minted, notes, local, faults>>

\* The tab is closed, or a call fails and the form reports an error: nothing
\* takes up the deposit later.
CloseForm(f) ==
  /\ Fault /\ form[f].at \in {"open", "deposited"}
  /\ form' = [form EXCEPT ![f] = Closed]
  /\ UNCHANGED <<deskVars, base, jobVars, notes, local>>

\* pollBaseShield: the job's end, or "failed" when the time is up.
PollBaseShield(f) ==
  /\ f \in Agent /\ FormAt(f, "queued")
  /\ \E j \in DOMAIN jobs :
       /\ jobs[j].bridge = form[f].bridge /\ jobs[j].deposit_id = form[f].id
       /\ \/ jobs[j].status \in {"active", "failed"} /\ NoFault
             /\ form' = [form EXCEPT ![f].at = jobs[j].status]
          \/ jobs[j].status = "proving" /\ Fault
             /\ form' = [form EXCEPT ![f].at = "failed"]
  /\ UNCHANGED <<deskVars, base, jobVars, notes, local>>
-----------------------------------------------------------------------------
\* shield_from_base: the journal is of the configured bridge, and no deposit with
\* its id was minted, whichever bridge that one was on.
Mintable(j) ==
  /\ jobs[j].bridge = contract
  /\ \A m \in minted : m.deposit_id # jobs[j].deposit_id

\* The worker takes the oldest open job to its end (BaseShield has the steps);
\* the mint is refused without the sponsor's key or by the contract.
AdvanceMinting ==
  LET open == {j \in DOMAIN jobs : jobs[j].status = "proving"}
      j == Min(open)
      b == jobs[j].bridge
      i == jobs[j].deposit_id
  IN  /\ open # {}
      /\ IF desk.secret /\ Mintable(j)
         THEN /\ minted' = minted \cup {[bridge |-> b, deposit_id |-> i, note |-> base[b][i + 1]]}
              /\ jobs' = [jobs EXCEPT ![j].status = "active"]
         ELSE jobs' = [jobs EXCEPT ![j].status = "failed"] /\ UNCHANGED minted
      /\ UNCHANGED <<deskVars, base, formVars, local, faults>>
-----------------------------------------------------------------------------
(***************************************************************************)
(* The browser's own desk: MosaicClient.deploy and createDeskSelfFunded.   *)
(***************************************************************************)

\* deploySettlement.
DeploySettlement ==
  /\ local.at = "none"
  /\ local' = [local EXCEPT !.at = "bridge", !.contract = None]
  /\ UNCHANGED <<deskVars, base, jobVars, formVars, faults>>

\* baseBridgeDeployer.deploy, with the browser's Ethereum wallet.
DeployOwnBridge ==
  /\ local.at = "bridge" /\ Len(base) < MaxBridges
  /\ base' = Append(base, <<>>)
  /\ local' = [local EXCEPT !.at = "configure", !.bridge = Len(base) + 1]
  /\ UNCHANGED <<deskVars, jobVars, formVars, faults>>

\* configure_base_bridge, then the desk is kept (putLocalDesk).
ConfigureOwnBridge ==
  /\ local.at = "configure"
  /\ local' = [local EXCEPT !.at = "stored", !.contract = local.bridge, !.status = "active"]
  /\ UNCHANGED <<deskVars, base, jobVars, formVars, faults>>

\* DeployDeskError carries the partial desk, which is kept as failed.
DeployDeskError == [local EXCEPT !.at = "stored", !.status = "failed"]

\* A step after the first fails or its tab is closed, which leaves no desk; the
\* configuration may have landed.
OwnDeployFails ==
  /\ Fault /\ local.at \in {"bridge", "configure"}
  /\ \E end \in {DeployDeskError, [local EXCEPT !.at = "lost"]} :
       local' \in {end, [end EXCEPT !.contract = local.bridge]}
  /\ UNCHANGED <<deskVars, base, jobVars, formVars>>
-----------------------------------------------------------------------------
InitServer ==
  /\ desk = NoDesk /\ contract = None /\ unsaved = {}
  /\ base = <<>> /\ call = [c \in Call |-> NoCall]
  /\ jobs = <<>> /\ minted = {} /\ notes = {} /\ faults = 0

Init ==
  /\ InitServer
  /\ form = [f \in Form \cup Agent |-> [at |-> "none", bridge |-> None, id |-> 0, done |-> 0]]
  /\ local = [at |-> "none", status |-> "none", bridge |-> None, contract |-> None]

Serve(c) == DeployBridgeOnBase(c) \/ ConfigureBaseBridge(c)

Submission(f) ==
  OpenForm(f) \/ Deposit(f) \/ AgentDeposits(f) \/ AddNote(f) \/ EnqueueBaseShield(f)
    \/ CloseForm(f) \/ PollBaseShield(f)

Own == DeploySettlement \/ DeployOwnBridge \/ ConfigureOwnBridge \/ OwnDeployFails

Next ==
  \/ \E c \in Call : CreateDesk(c) \/ RetryBaseDeployment(c) \/ Serve(c)
                     \/ DeployFails(c) \/ ConfigureFails(c)
                     \/ \E b \in 1..MaxBridges : CompleteBaseDeployment(c, b)
  \/ ServerRestart
  \/ \E f \in Form \cup Agent : Submission(f)
  \/ AdvanceMinting
  \/ Own

\* The server works on its calls, the desk's creator retries while the desk is
\* not active, and the worker's timer ticks.
Fairness ==
  /\ \A c \in Call : WF_desksVars(Serve(c))
  /\ WF_desksVars(\E c \in Call : RetryBaseDeployment(c))
  /\ WF_desksVars(AdvanceMinting)

Spec == Init /\ [][Next]_desksVars /\ Fairness
-----------------------------------------------------------------------------
(***************************************************************************)
(* A desk that is shown as active is on a contract that is configured with *)
(* the bridge it shows, however calls to deploy, retry and complete        *)
(* overlap; only a configuration whose call could not write the desk       *)
(* afterwards sets them apart.                                             *)
(***************************************************************************)
ActiveIsConfigured ==
  /\ desk.status = "active" => contract \in {desk.bridge} \cup unsaved
  /\ local.status = "active" => local.contract = local.bridge

(***************************************************************************)
(* A deposit that a form made is minted only when the secrets of its note  *)
(* are stored: whatever call fails or tab is closed in between, no value   *)
(* moves into a note that nobody can spend.                                *)
(***************************************************************************)
MintedIsSpendable ==
  \A m \in minted : m.note.by \in Form => m.note \in notes

(***************************************************************************)
(* A desk whose bridge failed becomes active and stays so when failures    *)
(* end and its creator retries, with retries that overlap and restarts in  *)
(* any of them: the sponsor's key is never lost.                           *)
(***************************************************************************)
RetriesConverge == desk # NoDesk ~> [](desk.status = "active")

(***************************************************************************)
(* A job is enqueued only for the bridge that the contract is configured   *)
(* with (store.ts:91, "Reject a base-shield enqueue whose bridge disagrees *)
(* with what the desk was actually configured with on-chain").  The code   *)
(* compares with the record, which keeps the address of a bridge whose     *)
(* configuration failed.                                                   *)
(***************************************************************************)
EnqueuedIsConfigured ==
  [][\A j \in DOMAIN jobs' \ DOMAIN jobs : jobs'[j].bridge = contract]_desksVars

(***************************************************************************)
(* A shieldFromBase that ends well has minted the note that it returns     *)
(* (client.ts:1142, "The Base deposit must already be made *with the       *)
(* returned note's owner tag*").  The code derives the note after it is    *)
(* given the deposit.                                                      *)
(***************************************************************************)
ReturnedNoteIsMinted ==
  \A f \in Agent : FormAt(f, "active") => \E m \in minted : m.note = Note(f)
=============================================================================

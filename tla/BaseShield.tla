----------------------------- MODULE BaseShield -----------------------------
(***************************************************************************)
(* The way of a deposit from Base to Stellar: MosaicBridge on Base, the    *)
(* job table and the worker of the MCP server (packages/mcp/src/store.ts,  *)
(* baseShieldWorker.ts, baseShield.ts), the prove service that it drives   *)
(* over HTTP (backend/src/prove_manager.rs, prover.rs), and the contract's *)
(* end, of which Settlement holds the details.                             *)
(*                                                                         *)
(* The worker and the service may be restarted, and calls may fail,        *)
(* between any two steps.  The block hash is the history that it commits   *)
(* to: the chain up to that block.  A deposit's id is its place among the  *)
(* deposits of the chain, so that after a reorganisation another deposit   *)
(* may have it.                                                            *)
(***************************************************************************)
EXTENDS Integers, SequencesExt, FiniteSets

CONSTANTS
  User,             \* who deposits; each once
  RequireFinality,  \* the desk's base_deployment.require_finality
  MaxBlocks,        \* bound on the length of the chain
  MaxReorgs,        \* bound on reorganisations
  MaxFaults         \* bound on restarts and failed calls

ASSUME ShieldAssumption ==
  /\ RequireFinality \in BOOLEAN
  /\ MaxBlocks \in Nat /\ MaxReorgs \in Nat /\ MaxFaults \in Nat

VARIABLES
  chain,      \* Base: per block, the users whose deposits it holds (0 or 1)
  finalized,  \* how many of its blocks are final
  reorgs,     \* reorganisations so far
  jobs,       \* base_shields: the jobs, oldest first
  worker,     \* the worker's local state
  memory,     \* the service's jobs map: "none", "running" or "error" per job
  waiting,    \* spawned tasks that wait for the permit, as job numbers
  run,        \* the run that holds the permit
  disk,       \* out/<job>: journal.bin and seal.bin of each job
  attested,   \* DataKey::BaseBlock
  minted,     \* the journals that shield_from_base accepted
  faults      \* restarts and failed calls so far

baseVars    == <<chain, finalized, reorgs>>
serviceVars == <<memory, waiting, run, disk>>
stellarVars == <<attested, minted>>
shieldVars  == <<baseVars, jobs, worker, serviceVars, stellarVars, faults>>
-----------------------------------------------------------------------------
None      == "none"
NoJournal == [number |-> 0]
NoRun     == [job |-> 0]
Resting   == [at |-> "idle", job |-> 0]

DepositsOf(history) == SelectSeq(history, LAMBDA b : b # None)
Journal(history, id) ==
  [number |-> Len(history), hash |-> history, deposit_id |-> id,
   owner |-> DepositsOf(history)[id + 1]]

Active == {"proving", "awaiting_finality", "minting"}
Job == DOMAIN jobs

\* read_proof_from_disk: both artifacts are there.
Proved(j) == disk[j].journal # NoJournal /\ disk[j].seal

Fault == faults < MaxFaults /\ faults' = faults + 1
NoFault == UNCHANGED faults
-----------------------------------------------------------------------------
(***************************************************************************)
(* Base.                                                                   *)
(***************************************************************************)

\* A block, with a deposit of a user (shield, shieldNative) or without one.
Mine(b) ==
  /\ Len(chain) < MaxBlocks /\ (b = None \/ b \notin ToSet(chain))
  /\ chain' = Append(chain, b)
  /\ UNCHANGED <<finalized, reorgs, jobs, worker, serviceVars, stellarVars, faults>>

Finalize ==
  /\ finalized < Len(chain)
  /\ finalized' = finalized + 1
  /\ UNCHANGED <<chain, reorgs, jobs, worker, serviceVars, stellarVars, faults>>

\* The blocks after the first n are abandoned; none of them is final.
Reorg(n) ==
  /\ reorgs < MaxReorgs /\ n \in finalized..(Len(chain) - 1)
  /\ chain' = SubSeq(chain, 1, n) /\ reorgs' = reorgs + 1
  /\ UNCHANGED <<finalized, jobs, worker, serviceVars, stellarVars, faults>>

\* enqueueBaseShield: nothing checks that the deposit exists; a second call for
\* the same deposit finds the first job.
Enqueue(id) ==
  /\ \A j \in Job : jobs[j].deposit_id # id
  /\ jobs' = Append(jobs, [deposit_id |-> id, status |-> "proving", proof |-> NoJournal])
  /\ memory' = Append(memory, None)
  /\ disk' = Append(disk, [journal |-> NoJournal, seal |-> FALSE])
  /\ UNCHANGED <<baseVars, worker, waiting, run, stellarVars, faults>>
-----------------------------------------------------------------------------
(***************************************************************************)
(* The prove service.                                                      *)
(***************************************************************************)

\* Variant: a job whose run was lost is not started again.
Submit_OnlyFirst(j) ==
  IF Proved(j) \/ memory[j] = "running" \/ disk[j].journal # NoJournal
  THEN UNCHANGED <<memory, waiting>>
  ELSE memory' = [memory EXCEPT ![j] = "running"] /\ waiting' = Append(waiting, j)

\* ProveManager::submit: nothing to do for a proof on disk or a running task; an
\* earlier error is retried.
Submit(j) ==
  IF Proved(j) \/ memory[j] = "running"
  THEN UNCHANGED <<memory, waiting>>
  ELSE memory' = [memory EXCEPT ![j] = "running"] /\ waiting' = Append(waiting, j)

\* ProveManager::status.
Status(j) == IF Proved(j) THEN "done" ELSE memory[j]

\* A task gets the permit; run_prove fixes the head that it proves at.  (Its own
\* look at the disk finds nothing: a job has at most one task.)
StartRun ==
  /\ run = NoRun /\ waiting # <<>>
  /\ waiting' = Tail(waiting)
  /\ run' = [job |-> Head(waiting), head |-> chain, wrote |-> FALSE]
  /\ UNCHANGED <<baseVars, jobs, worker, memory, disk, stellarVars, faults>>

\* The task ends and gives the permit back; success leaves no entry.
EndRun(result) ==
  /\ run' = NoRun
  /\ memory' = [memory EXCEPT ![run.job] = result]

\* The host proves the deposit at its block and writes the journal first.
WriteJournal ==
  LET id == jobs[run.job].deposit_id
  IN  /\ run # NoRun /\ ~run.wrote
      /\ id < Len(DepositsOf(run.head))
      /\ disk' = [disk EXCEPT ![run.job].journal = Journal(run.head, id)]
      /\ run' = [run EXCEPT !.wrote = TRUE]
      /\ UNCHANGED <<baseVars, jobs, worker, memory, waiting, stellarVars, faults>>

WriteSeal ==
  /\ run # NoRun /\ run.wrote
  /\ disk' = [disk EXCEPT ![run.job].seal = TRUE]
  /\ EndRun(None)
  /\ UNCHANGED <<baseVars, jobs, worker, waiting, stellarVars, faults>>

\* The host finds no such deposit at its block, or a call of its own fails.
RunFails ==
  /\ run # NoRun
  /\ \/ jobs[run.job].deposit_id >= Len(DepositsOf(run.head)) /\ NoFault
     \/ Fault
  /\ EndRun("error")
  /\ UNCHANGED <<baseVars, jobs, worker, waiting, disk, stellarVars>>

\* The service is restarted: only the disk is left.
ServiceRestart ==
  /\ Fault
  /\ memory' = [j \in Job |-> None] /\ waiting' = <<>> /\ run' = NoRun
  /\ UNCHANGED <<baseVars, jobs, worker, disk, stellarVars>>
-----------------------------------------------------------------------------
(***************************************************************************)
(* The worker: one job, the oldest that is not done, one step per tick.    *)
(***************************************************************************)

At(step) == worker.at = step
Goto(step) == worker' = [worker EXCEPT !.at = step]
Rest == worker' = Resting
Current == jobs[worker.job]
SetStatus(status) == jobs' = [jobs EXCEPT ![worker.job].status = status]

OpenJobs == {j \in Job : jobs[j].status \in Active}

\* nextBaseShield: the oldest job that has not ended.
NextBaseShield == CHOOSE j \in OpenJobs : \A k \in OpenJobs : j <= k

Tick ==
  LET next == NextBaseShield
  IN  /\ At("idle") /\ OpenJobs # {}
      /\ worker' = [job |-> next,
                    at |-> CASE jobs[next].status = "proving" -> "submit"
                             [] jobs[next].status = "awaiting_finality" -> "finality"
                             [] jobs[next].status = "minting" -> "attest"]
      /\ UNCHANGED <<baseVars, jobs, serviceVars, stellarVars, faults>>

\* advanceProving: submit, then poll.
SubmitProve ==
  /\ At("submit")
  /\ Submit(worker.job) /\ Goto("poll")
  /\ UNCHANGED <<baseVars, jobs, run, disk, stellarVars, faults>>

\* baseShieldProved: the gate that the desk chose.
AfterProof == IF RequireFinality THEN "awaiting_finality" ELSE "minting"

PollProve ==
  LET j == worker.job
  IN  /\ At("poll") /\ Rest
      /\ \/ /\ Status(j) = "done"
            /\ jobs' = [jobs EXCEPT ![j].status = AfterProof, ![j].proof = disk[j].journal]
         \/ Status(j) = "error" /\ SetStatus("failed")
         \/ Status(j) \in {"running", None} /\ UNCHANGED jobs
      /\ UNCHANGED <<baseVars, serviceVars, stellarVars, faults>>

\* isFinalized compares block numbers.
IsFinalized(number) == finalized >= number

\* advanceFinality.
CheckFinality ==
  /\ At("finality") /\ Rest
  /\ IF IsFinalized(Current.proof.number) THEN SetStatus("minting") ELSE UNCHANGED jobs
  /\ UNCHANGED <<baseVars, serviceVars, stellarVars, faults>>

\* advanceMinting: attest_base_block for the proven block.
Attest ==
  /\ At("attest") /\ Goto("mint")
  /\ attested' = [attested EXCEPT ![Current.proof.number] = Current.proof.hash]
  /\ UNCHANGED <<baseVars, jobs, serviceVars, minted, faults>>

\* shield_from_base: the block is attested and the deposit id is unused.
Mintable(journal) ==
  /\ attested[journal.number] = journal.hash
  /\ \A m \in minted : m.deposit_id # journal.deposit_id

\* The contract accepts, or refuses and the job fails.
Mint ==
  /\ At("mint")
  /\ \/ /\ Mintable(Current.proof) /\ minted' = minted \cup {Current.proof}
        /\ Goto("save") /\ UNCHANGED jobs
     \/ ~Mintable(Current.proof) /\ SetStatus("failed") /\ Rest /\ UNCHANGED minted
  /\ UNCHANGED <<baseVars, serviceVars, attested, faults>>

Save ==
  /\ At("save") /\ SetStatus("active") /\ Rest
  /\ UNCHANGED <<baseVars, serviceVars, stellarVars, faults>>

\* Variant: the job of a mint that was reported lost is closed as done.
MintError_Active == SetStatus("active")

\* A failed call of advanceMinting ends the job.
MintError == SetStatus("failed")

\* A call fails or its answer is lost: in advanceMinting the job ends, although
\* the note may have been minted; elsewhere the next tick tries again.
CallFails ==
  /\ Fault /\ Rest
  /\ \/ worker.at \in {"submit", "poll", "finality"} /\ UNCHANGED jobs
     \/ worker.at \in {"attest", "mint", "save"} /\ MintError
  /\ UNCHANGED <<baseVars, serviceVars, stellarVars>>

\* The MCP server is restarted; the job table is on disk.
WorkerRestart ==
  /\ Fault /\ ~At("idle") /\ Rest
  /\ UNCHANGED <<baseVars, jobs, serviceVars, stellarVars>>
-----------------------------------------------------------------------------
Init ==
  /\ chain = <<>> /\ finalized = 0 /\ reorgs = 0
  /\ jobs = <<>> /\ worker = Resting
  /\ memory = <<>> /\ waiting = <<>> /\ run = NoRun /\ disk = <<>>
  /\ attested = [n \in 1..MaxBlocks |-> <<>>] /\ minted = {}
  /\ faults = 0

Base == \/ \E b \in User \cup {None} : Mine(b)
        \/ Finalize
        \/ \E n \in 0..MaxBlocks : Reorg(n)
Service == StartRun \/ WriteJournal \/ WriteSeal \/ RunFails
Worker == Tick \/ SubmitProve \/ PollProve \/ CheckFinality \/ Attest \/ Mint \/ Save

Next == \/ Base \/ Service \/ Worker
        \/ \E id \in 0..(Cardinality(User) - 1) : Enqueue(id)
        \/ CallFails \/ WorkerRestart \/ ServiceRestart

\* The timer ticks, runs end, and Base finalizes its blocks.
Fairness == WF_shieldVars(Worker) /\ WF_shieldVars(Service) /\ WF_shieldVars(Finalize)

Spec == Init /\ [][Next]_shieldVars /\ Fairness
-----------------------------------------------------------------------------
(***************************************************************************)
(* A job that is reported active has its note on Stellar: the contract     *)
(* accepted exactly the journal that the service has on disk for the job.  *)
(***************************************************************************)
ActiveIsMinted ==
  \A j \in Job : jobs[j].status = "active" =>
    /\ jobs[j].proof \in minted
    /\ disk[j] = [journal |-> jobs[j].proof, seal |-> TRUE]

\* The worker stays with its first open job.  It waits for a deposit that is not
\* on the chain (submit restarts a failed run before poll can see the failure)
\* and for a block number that the chain has not reached.
Blocked ==
  \E j \in Job :
    \/ jobs[j].status = "proving" /\ jobs[j].deposit_id >= Len(DepositsOf(chain))
    \/ jobs[j].status = "awaiting_finality" /\ jobs[j].proof.number > Len(chain)

(***************************************************************************)
(* Unless the worker is held up again and again by a job whose deposit or  *)
(* block is not on Base, every job ends, active or failed, although calls  *)
(* fail, both servers are restarted and Base abandons blocks: a lost run   *)
(* is submitted again and a lost tick is repeated.                         *)
(***************************************************************************)
JobsEnd ==
  <>[](~Blocked) =>
    \A id \in 0..(Cardinality(User) - 1) :
      (\E j \in Job : jobs[j].deposit_id = id)
        ~> (\E j \in Job : jobs[j].deposit_id = id /\ jobs[j].status \in {"active", "failed"})

(***************************************************************************)
(* With the finality gate, the worker attests only blocks of the canonical *)
(* chain (contracts/settlement/src/lib.rs:774, "Attest a finalized Base    *)
(* block hash").  The gate compares numbers, not hashes: after a           *)
(* reorganisation the number of the abandoned block becomes final and the  *)
(* abandoned hash is attested.                                             *)
(***************************************************************************)
AttestsCanonical ==
  [][RequireFinality => \A n \in 1..MaxBlocks :
       attested'[n] # attested[n] =>
         n <= Len(chain) /\ attested'[n] = SubSeq(chain, 1, n)]_shieldVars
=============================================================================

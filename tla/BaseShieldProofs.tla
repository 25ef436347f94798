-------------------------- MODULE BaseShieldProofs --------------------------
(***************************************************************************)
(* Theorems about the Base pipeline, for any number of users, blocks,      *)
(* reorganisations, restarts and lost calls.                               *)
(*                                                                         *)
(* That an active job is minted rests on its proof staying as it is on     *)
(* disk once it was read: no task is left that would prove the job again.  *)
(* TaskInv says so of the tasks that wait and of the run, WorkerInv which  *)
(* status the worker's job has at each of its steps.                       *)
(***************************************************************************)
EXTENDS BaseShield, WellFoundedInduction, SequenceTheorems, TLAPS

History  == Seq(User \cup {None})
Journals == {Journal(h, id) : h \in History, id \in Int}
Artifact == Journals \cup {NoJournal}

JobStatus == Active \cup {"active", "failed"}
JobRecord == [deposit_id : Int, status : JobStatus, proof : Artifact]
DiskRecord == [journal : Artifact, seal : BOOLEAN]

WorkerStep == {"idle", "submit", "poll", "finality", "attest", "mint", "save"}

ServiceType ==
  /\ memory \in Seq({None, "running", "error"}) /\ Len(memory) = Len(jobs)
  /\ disk \in Seq(DiskRecord) /\ Len(disk) = Len(jobs)
  /\ waiting \in Seq(Nat)
  /\ run = NoRun \/ run \in [job : Nat, head : History, wrote : BOOLEAN]

WorkerType ==
  /\ jobs \in Seq(JobRecord)
  /\ worker \in [at : WorkerStep, job : Nat]
  /\ worker.at # "idle" => worker.job \in Job

TypeInv == chain \in History /\ ServiceType /\ WorkerType

\* A job has one task at most, and none once its proof is on disk.
HasTask(j) == j \in Job /\ memory[j] = "running" /\ ~disk[j].seal
TaskInv ==
  /\ \A i \in DOMAIN waiting : HasTask(waiting[i])
  /\ \A i, k \in DOMAIN waiting : waiting[i] = waiting[k] => i = k
  /\ run # NoRun =>
       /\ HasTask(run.job) /\ \A i \in DOMAIN waiting : waiting[i] # run.job
       /\ run.wrote => disk[run.job].journal # NoJournal
  /\ \A j \in Job : disk[j].seal => disk[j].journal # NoJournal

\* What a job that was proved has is what is on disk.
ProofInv ==
  \A j \in Job :
    /\ jobs[j].status \in {"awaiting_finality", "minting", "active"} =>
         disk[j] = [journal |-> jobs[j].proof, seal |-> TRUE]
    /\ jobs[j].status = "active" => jobs[j].proof \in minted

WorkerInv ==
  /\ worker.at = "finality" => Current.status = "awaiting_finality"
  /\ worker.at \in {"attest", "mint", "save"} => Current.status = "minting"
  /\ worker.at = "save" => Current.proof \in minted

IInv == TypeInv /\ TaskInv /\ ProofInv /\ WorkerInv
-----------------------------------------------------------------------------
(***************************************************************************)
(* What steps have in common.                                              *)
(***************************************************************************)

\* The jobs, the service's entries and the directories are in step.
LEMMA Places ==
  ASSUME TypeInv
  PROVE  /\ Len(jobs) \in Nat /\ Job = 1..Len(jobs)
         /\ DOMAIN memory = Job /\ DOMAIN disk = Job
         /\ \A j \in Job : jobs[j] \in JobRecord /\ disk[j] \in DiskRecord
<1>1. /\ jobs \in Seq(JobRecord) /\ memory \in Seq({None, "running", "error"})
      /\ disk \in Seq(DiskRecord)
  BY DEF TypeInv, ServiceType, WorkerType
<1>2. Len(memory) = Len(jobs) /\ Len(disk) = Len(jobs)
  BY DEF TypeInv, ServiceType
<1>3. /\ Len(jobs) \in Nat /\ jobs \in [1..Len(jobs) -> JobRecord]
      /\ DOMAIN memory = 1..Len(memory)
      /\ DOMAIN disk = 1..Len(disk) /\ disk \in [1..Len(disk) -> DiskRecord]
  BY <1>1, LenProperties
<1> QED BY <1>2, <1>3 DEF Job

\* A journal is not the absence of one.
LEMMA JournalIsThere == ASSUME NEW h, NEW id PROVE Journal(h, id) # NoJournal
<1> SUFFICES ASSUME Journal(h, id) = NoJournal PROVE FALSE
  OBVIOUS
<1>1. "hash" \in DOMAIN Journal(h, id)
  BY DEF Journal
<1>2. ~("hash" \in DOMAIN NoJournal)
  BY DEF NoJournal
<1> QED BY <1>1, <1>2

\* Steps of Base and of the worker leave the service as it is.
LEMMA ServiceStays ==
  ASSUME TypeInv, TaskInv, UNCHANGED serviceVars, Len(jobs') = Len(jobs), Job' = Job
  PROVE  ServiceType' /\ TaskInv'
BY DEF serviceVars, TypeInv, ServiceType, TaskInv, HasTask

\* Steps that leave jobs and worker alone, and every proof that is on disk.
LEMMA WorkerStays ==
  ASSUME IInv, UNCHANGED <<jobs, worker, minted>>,
         \A j \in Job : disk[j].seal => disk'[j] = disk[j]
  PROVE  WorkerType' /\ ProofInv' /\ WorkerInv'
<1>1. WorkerType' /\ WorkerInv'
  BY DEF IInv, TypeInv, WorkerType, WorkerInv, Current, Job
<1>2. ASSUME NEW j \in Job, jobs[j].status \in {"awaiting_finality", "minting", "active"}
      PROVE  disk'[j] = [journal |-> jobs[j].proof, seal |-> TRUE]
  <2>1. disk[j] = [journal |-> jobs[j].proof, seal |-> TRUE]
    BY <1>2 DEF IInv, ProofInv
  <2> QED BY <2>1
<1>3. ProofInv'
  BY <1>2 DEF IInv, ProofInv, Job
<1> QED BY <1>1, <1>3

\* The worker's job gets another status.
LEMMA SetStatusFacts ==
  ASSUME TypeInv, worker.job \in Job, NEW s \in JobStatus, SetStatus(s)
  PROVE  /\ jobs' \in Seq(JobRecord) /\ Len(jobs') = Len(jobs) /\ Job' = Job
         /\ \A k \in Job : k # worker.job => jobs'[k] = jobs[k]
         /\ jobs'[worker.job].status = s /\ jobs'[worker.job].proof = jobs[worker.job].proof
<1> DEFINE r == [jobs[worker.job] EXCEPT !.status = s]
<1>1. jobs[worker.job] \in JobRecord /\ Job = 1..Len(jobs) /\ jobs \in Seq(JobRecord)
  BY Places DEF TypeInv, WorkerType
<1>2. /\ r \in JobRecord /\ r.status = s /\ r.proof = jobs[worker.job].proof
      /\ jobs' = [jobs EXCEPT ![worker.job] = r]
  BY <1>1 DEF SetStatus, JobRecord
<1> HIDE DEF r
<1>3. /\ jobs' \in Seq(JobRecord) /\ Len(jobs') = Len(jobs)
      /\ \A k \in 1..Len(jobs) : jobs'[k] = IF k = worker.job THEN r ELSE jobs[k]
  BY <1>1, <1>2, ExceptSeq
<1>4. Job' = Job
  BY <1>1, <1>3, LenProperties DEF Job
<1> QED BY <1>1, <1>2, <1>3, <1>4
-----------------------------------------------------------------------------
(***************************************************************************)
(* Base and the service.                                                   *)
(***************************************************************************)

\* Blocks come, become final and are abandoned.
LEMMA BaseStep == ASSUME IInv, Base PROVE IInv'
<1>1. UNCHANGED <<jobs, worker, serviceVars, minted>>
  BY DEF Base, Mine, Finalize, Reorg, stellarVars
<1>2. ServiceType' /\ TaskInv'
  BY <1>1, ServiceStays DEF IInv, Job
<1>3. WorkerType' /\ ProofInv' /\ WorkerInv'
  BY <1>1, WorkerStays DEF serviceVars
<1>4. chain' \in History
  <2>1. ASSUME NEW b \in User \cup {None}, Mine(b) PROVE chain' \in History
    BY <2>1, AppendProperties DEF Mine, History, IInv, TypeInv
  <2>2. ASSUME NEW n \in 0..MaxBlocks, Reorg(n) PROVE chain' \in History
    <3>1. chain \in Seq(User \cup {None}) /\ Len(chain) \in Nat /\ n \in Nat /\ n <= Len(chain)
      BY <2>2, LenProperties DEF Reorg, History, IInv, TypeInv
    <3>2. \A i \in 1..n : chain[i] \in User \cup {None}
      BY <3>1, ElementOfSeq
    <3>3. SubSeq(chain, 1, n) \in Seq(User \cup {None})
      BY <3>1, <3>2, SubSeqProperties
    <3> QED BY <2>2, <3>3 DEF Reorg, History
  <2>3. ASSUME Finalize PROVE chain' \in History
    BY <2>3 DEF Finalize, IInv, TypeInv
  <2> QED BY <2>1, <2>2, <2>3 DEF Base
<1> QED BY <1>2, <1>3, <1>4 DEF IInv, TypeInv

\* A task gets the permit.
LEMMA StartRunStep == ASSUME IInv, StartRun PROVE IInv'
<1>1. /\ run = NoRun /\ waiting # <<>> /\ waiting' = Tail(waiting)
      /\ run' = [job |-> Head(waiting), head |-> chain, wrote |-> FALSE]
      /\ UNCHANGED <<chain, jobs, worker, memory, disk, minted>>
  BY DEF StartRun, baseVars, stellarVars
<1>2. waiting \in Seq(Nat)
  BY DEF IInv, TypeInv, ServiceType
<1>3. /\ Head(waiting) \in Nat /\ waiting' \in Seq(Nat) /\ Len(waiting') = Len(waiting) - 1
      /\ \A i \in 1..Len(waiting') : waiting'[i] = waiting[i + 1]
  BY <1>1, <1>2, HeadTailProperties
<1>4. Len(waiting) \in Nat \ {0} /\ DOMAIN waiting = 1..Len(waiting)
      /\ DOMAIN waiting' = 1..(Len(waiting) - 1) /\ Head(waiting) = waiting[1]
  BY <1>1, <1>2, <1>3, LenProperties, EmptySeq
<1>5. ServiceType'
  BY <1>1, <1>3 DEF IInv, TypeInv, ServiceType
<1>6. WorkerType' /\ ProofInv' /\ WorkerInv'
  BY <1>1, WorkerStays
<1>7. TaskInv'
  <2>1. \A i \in DOMAIN waiting' :
          /\ i + 1 \in DOMAIN waiting /\ i + 1 # 1 /\ i \in Int /\ waiting'[i] = waiting[i + 1]
    BY <1>3, <1>4
  <2>2. 1 \in DOMAIN waiting /\ run'.job = waiting[1] /\ ~run'.wrote
    BY <1>1, <1>4
  <2>3. \A j : HasTask(j)' <=> HasTask(j)
    BY <1>1 DEF HasTask, Job
  <2>4. \A i \in DOMAIN waiting' : HasTask(waiting'[i])
    BY <2>1 DEF IInv, TaskInv
  <2>5. \A i, k \in DOMAIN waiting' : waiting'[i] = waiting'[k] => i = k
    BY <2>1 DEF IInv, TaskInv
  <2>6. HasTask(run'.job) /\ \A i \in DOMAIN waiting' : waiting'[i] # run'.job
    BY <2>1, <2>2 DEF IInv, TaskInv
  <2>7. \A j \in Job' : disk'[j].seal => disk'[j].journal # NoJournal
    BY <1>1 DEF IInv, TaskInv, Job
  <2> QED BY <1>1, <2>2, <2>3, <2>4, <2>5, <2>6, <2>7 DEF TaskInv, HasTask, Job
<1> QED BY <1>1, <1>5, <1>6, <1>7 DEF IInv, TypeInv

\* The run's artifacts are written, and the run ends, well or not.
LEMMA RunStep ==
  ASSUME IInv, WriteJournal \/ WriteSeal \/ RunFails
  PROVE  IInv'
<1> DEFINE j == run.job
<1>1. /\ run # NoRun /\ UNCHANGED <<chain, jobs, worker, waiting, minted>>
      /\ j \in Job /\ memory[j] = "running" /\ ~disk[j].seal
      /\ \A i \in DOMAIN waiting : waiting[i] # j
      /\ run \in [job : Nat, head : History, wrote : BOOLEAN]
  BY DEF WriteJournal, WriteSeal, RunFails, baseVars, stellarVars, IInv, TaskInv, HasTask,
         TypeInv, ServiceType
<1>2. /\ Len(jobs) \in Nat /\ Job = 1..Len(jobs) /\ disk[j] \in DiskRecord /\ jobs[j] \in JobRecord
      /\ disk \in Seq(DiskRecord) /\ Len(disk) = Len(jobs) /\ DOMAIN disk = Job
      /\ memory \in Seq({None, "running", "error"}) /\ Len(memory) = Len(jobs)
  BY <1>1, Places DEF IInv, TypeInv, ServiceType
<1> HIDE DEF j
<1>3. ASSUME NEW d \in DiskRecord, disk' = [disk EXCEPT ![j] = d], d.seal => d.journal # NoJournal
      PROVE  /\ disk' \in Seq(DiskRecord) /\ Len(disk') = Len(jobs) /\ disk'[j] = d
             /\ \A k \in Job : k # j => disk'[k] = disk[k]
             /\ \A k \in Job : disk'[k].seal => disk'[k].journal # NoJournal
             /\ WorkerType' /\ ProofInv' /\ WorkerInv'
  <2>1. /\ disk' \in Seq(DiskRecord) /\ Len(disk') = Len(jobs)
        /\ \A k \in Job : disk'[k] = IF k = j THEN d ELSE disk[k]
    BY <1>1, <1>2, <1>3, ExceptSeq
  <2>2. \A k \in Job : disk'[k].seal => disk'[k].journal # NoJournal
    BY <1>3, <2>1 DEF IInv, TaskInv
  <2>3. WorkerType' /\ ProofInv' /\ WorkerInv'
    BY <1>1, <2>1, WorkerStays
  <2> QED BY <1>1, <2>1, <2>2, <2>3
<1>4. ASSUME NEW result \in {None, "error"}, EndRun(result),
             disk' \in Seq(DiskRecord), Len(disk') = Len(jobs),
             \A k \in Job : k # j => disk'[k] = disk[k],
             \A k \in Job : disk'[k].seal => disk'[k].journal # NoJournal
      PROVE  ServiceType' /\ TaskInv'
  <2>1. run' = NoRun /\ memory' = [memory EXCEPT ![j] = result]
    BY <1>4 DEF EndRun, j
  <2>2. /\ memory' \in Seq({None, "running", "error"}) /\ Len(memory') = Len(jobs)
        /\ \A k \in Job : k # j => memory'[k] = memory[k]
    BY <1>1, <1>2, <2>1, ExceptSeq
  <2>3. ServiceType'
    BY <1>1, <1>4, <2>1, <2>2 DEF IInv, TypeInv, ServiceType
  <2>4. \A i \in DOMAIN waiting : waiting[i] \in Job /\ waiting[i] # j /\ HasTask(waiting[i])
    BY <1>1 DEF IInv, TaskInv, HasTask
  <2>5. ASSUME NEW k, k \in Job, k # j, HasTask(k)
        PROVE  k \in DOMAIN jobs' /\ memory'[k] = "running" /\ ~disk'[k].seal
    BY <1>1, <1>4, <2>2, <2>5 DEF HasTask, Job
  <2>6. \A i \in DOMAIN waiting' :
          /\ waiting'[i] \in DOMAIN jobs' /\ memory'[waiting'[i]] = "running"
          /\ ~disk'[waiting'[i]].seal
    BY <1>1, <2>4, <2>5
  <2>7. TaskInv'
    BY <1>1, <1>4, <2>1, <2>6 DEF IInv, TaskInv, HasTask, Job
  <2> QED BY <2>3, <2>7
<1>5. CASE WriteJournal
  <2> DEFINE x == Journal(run.head, jobs[j].deposit_id)
  <2>1. /\ disk' = [disk EXCEPT ![j] = [disk[j] EXCEPT !.journal = x]]
        /\ run' = [run EXCEPT !.wrote = TRUE] /\ memory' = memory
    BY <1>5 DEF WriteJournal, j
  <2>2. x \in Journals /\ x # NoJournal
    <3>1. run.head \in History /\ jobs[j].deposit_id \in Int
      BY <1>1, <1>2 DEF JobRecord
    <3>2. x \in Journals
      BY <3>1 DEF Journals
    <3> QED BY <3>2, JournalIsThere
  <2> HIDE DEF x
  <2>3. PICK d \in DiskRecord :
          d = [disk[j] EXCEPT !.journal = x] /\ d.journal = x /\ ~d.seal
    <3> DEFINE e == [disk[j] EXCEPT !.journal = x]
    <3>1. disk[j] \in [journal : Artifact, seal : BOOLEAN] /\ x \in Artifact
      BY <1>2, <2>2 DEF DiskRecord, Artifact
    <3>2. e \in [journal : Artifact, seal : BOOLEAN] /\ e.journal = x /\ e.seal = disk[j].seal
      BY <3>1
    <3> HIDE DEF e
    <3>3. e \in DiskRecord /\ e.journal = x /\ ~e.seal
      BY <1>1, <3>2 DEF DiskRecord
    <3> QED BY <3>3 DEF e
  <2>4. /\ disk' \in Seq(DiskRecord) /\ Len(disk') = Len(jobs) /\ disk'[j] = d
        /\ \A k \in Job : k # j => disk'[k] = disk[k]
        /\ \A k \in Job : disk'[k].seal => disk'[k].journal # NoJournal
        /\ WorkerType' /\ ProofInv' /\ WorkerInv'
    BY <1>3, <2>1, <2>3
  <2>5. run' \in [job : Nat, head : History, wrote : BOOLEAN] /\ run'.job = j
    BY <1>1, <2>1 DEF j
  <2>6. ServiceType'
    BY <1>1, <2>1, <2>4, <2>5 DEF IInv, TypeInv, ServiceType
  <2>7. \A k : HasTask(k) => HasTask(k)'
    BY <1>1, <2>1, <2>3, <2>4 DEF HasTask, Job
  <2>8. HasTask(run'.job) /\ disk'[run'.job].journal # NoJournal
    BY <1>1, <2>2, <2>3, <2>4, <2>5 DEF HasTask
  <2>9. TaskInv'
    BY <1>1, <2>4, <2>5, <2>7, <2>8 DEF IInv, TaskInv, HasTask, Job
  <2> QED BY <1>1, <2>4, <2>6, <2>9 DEF IInv, TypeInv
<1>6. CASE WriteSeal
  <2>1. /\ disk' = [disk EXCEPT ![j] = [disk[j] EXCEPT !.seal = TRUE]] /\ EndRun(None)
        /\ disk[j].journal # NoJournal
    BY <1>6 DEF WriteSeal, IInv, TaskInv, j
  <2>2. PICK d \in DiskRecord :
          d = [disk[j] EXCEPT !.seal = TRUE] /\ d.journal # NoJournal
    BY <1>2, <2>1 DEF DiskRecord
  <2>3. /\ disk' \in Seq(DiskRecord) /\ Len(disk') = Len(jobs)
        /\ \A k \in Job : k # j => disk'[k] = disk[k]
        /\ \A k \in Job : disk'[k].seal => disk'[k].journal # NoJournal
        /\ WorkerType' /\ ProofInv' /\ WorkerInv'
    BY <1>3, <2>1, <2>2
  <2>4. ServiceType' /\ TaskInv'
    BY <1>4, <2>1, <2>3
  <2> QED BY <1>1, <2>3, <2>4 DEF IInv, TypeInv
<1>7. CASE RunFails
  <2>1. UNCHANGED disk /\ EndRun("error")
    BY <1>7 DEF RunFails
  <2>2. ServiceType' /\ TaskInv'
    BY <1>2, <1>4, <2>1 DEF IInv, TaskInv
  <2>3. WorkerType' /\ ProofInv' /\ WorkerInv'
    BY <1>1, <2>1, WorkerStays
  <2> QED BY <1>1, <2>2, <2>3 DEF IInv, TypeInv
<1> QED BY <1>5, <1>6, <1>7

\* A restart of the service loses its tasks.
LEMMA ServiceRestartStep == ASSUME IInv, ServiceRestart PROVE IInv'
<1>1. /\ memory' = [j \in Job |-> None] /\ waiting' = <<>> /\ run' = NoRun
      /\ UNCHANGED <<chain, jobs, worker, disk, minted>>
  BY DEF ServiceRestart, baseVars, stellarVars
<1>2. memory' \in Seq({None, "running", "error"}) /\ Len(memory') = Len(jobs)
  <2>1. Job = 1..Len(jobs) /\ Len(jobs) \in Nat
    BY Places DEF IInv
  <2>2. memory' \in Seq({None, "running", "error"})
    BY <1>1, <2>1, IsASeq
  <2>3. DOMAIN memory' = 1..Len(memory') /\ Len(memory') \in Nat /\ DOMAIN memory' = 1..Len(jobs)
    BY <1>1, <2>1, <2>2, LenProperties
  <2> QED BY <2>1, <2>2, <2>3
<1>3. ServiceType'
  BY <1>1, <1>2, EmptySeq DEF IInv, TypeInv, ServiceType
<1>4. TaskInv'
  BY <1>1 DEF IInv, TaskInv, Job
<1>5. WorkerType' /\ ProofInv' /\ WorkerInv'
  BY <1>1, WorkerStays
<1> QED BY <1>1, <1>3, <1>4, <1>5 DEF IInv, TypeInv
-----------------------------------------------------------------------------
(***************************************************************************)
(* The job table and the worker.                                           *)
(***************************************************************************)

\* A new job has no task and no proof.
LEMMA EnqueueStep == ASSUME IInv, NEW id \in Int, Enqueue(id) PROVE IInv'
<1> DEFINE new == [deposit_id |-> id, status |-> "proving", proof |-> NoJournal]
           dir == [journal |-> NoJournal, seal |-> FALSE]
<1>1. /\ jobs' = Append(jobs, new) /\ memory' = Append(memory, None) /\ disk' = Append(disk, dir)
      /\ UNCHANGED <<chain, worker, waiting, run, minted>>
  BY DEF Enqueue, baseVars, stellarVars
<1>2. /\ new \in JobRecord /\ dir \in DiskRecord /\ new.status = "proving" /\ ~dir.seal
      /\ None \in {None, "running", "error"}
  BY DEF JobRecord, DiskRecord, Artifact, JobStatus, Active
<1> HIDE DEF new, dir
<1>3. /\ Len(jobs) \in Nat /\ Job = 1..Len(jobs)
      /\ jobs \in Seq(JobRecord) /\ memory \in Seq({None, "running", "error"})
      /\ disk \in Seq(DiskRecord) /\ Len(memory) = Len(jobs) /\ Len(disk) = Len(jobs)
  BY Places DEF IInv, TypeInv, ServiceType, WorkerType
<1>4. /\ jobs' \in Seq(JobRecord) /\ Len(jobs') = Len(jobs) + 1
      /\ jobs'[Len(jobs) + 1] = new /\ \A j \in 1..Len(jobs) : jobs'[j] = jobs[j]
  BY <1>1, <1>2, <1>3, AppendProperties
<1>5. /\ memory' \in Seq({None, "running", "error"}) /\ Len(memory') = Len(jobs) + 1
      /\ \A j \in 1..Len(jobs) : memory'[j] = memory[j]
  BY <1>1, <1>2, <1>3, AppendProperties
<1>6. /\ disk' \in Seq(DiskRecord) /\ Len(disk') = Len(jobs) + 1
      /\ disk'[Len(jobs) + 1] = dir /\ \A j \in 1..Len(jobs) : disk'[j] = disk[j]
  BY <1>1, <1>2, <1>3, AppendProperties
<1>7. DOMAIN jobs' = 1..(Len(jobs) + 1)
  BY <1>4, LenProperties
<1>8. \A j : HasTask(j) => j \in DOMAIN jobs' /\ memory'[j] = "running" /\ ~disk'[j].seal
  BY <1>3, <1>5, <1>6, <1>7 DEF HasTask
<1>9. \A j \in DOMAIN jobs' : disk'[j].seal => j \in Job /\ disk'[j].journal # NoJournal
  BY <1>2, <1>3, <1>6, <1>7 DEF IInv, TaskInv
<1>10. TaskInv'
  <2>1. \A j \in Job : disk'[j] = disk[j]
    BY <1>3, <1>6
  <2>2. run # NoRun => HasTask(run.job) /\ (run.wrote => disk'[run.job].journal # NoJournal)
    BY <2>1 DEF IInv, TaskInv, HasTask
  <2> QED BY <1>1, <1>8, <1>9, <2>2 DEF IInv, TaskInv, HasTask, Job
<1>11. ProofInv'
  <2>1. ASSUME NEW j \in DOMAIN jobs', jobs'[j].status # "proving" PROVE j \in Job
    BY <1>2, <1>3, <1>4, <1>7, <2>1
  <2>2. ASSUME NEW j \in DOMAIN jobs'
        PROVE  /\ jobs'[j].status \in {"awaiting_finality", "minting", "active"} =>
                    disk'[j] = [journal |-> jobs'[j].proof, seal |-> TRUE]
               /\ jobs'[j].status = "active" => jobs'[j].proof \in minted
    BY <1>3, <1>4, <1>6, <2>1, <2>2 DEF IInv, ProofInv
  <2> QED BY <1>1, <2>2 DEF ProofInv, Job
<1>12. WorkerType' /\ WorkerInv'
  <2>1. worker.at # "idle" => worker.job \in DOMAIN jobs' /\ jobs'[worker.job] = Current
    BY <1>3, <1>4, <1>7 DEF IInv, TypeInv, WorkerType, Current
  <2> QED BY <1>1, <1>4, <2>1 DEF IInv, TypeInv, WorkerType, WorkerInv, Current, Job
<1> QED BY <1>1, <1>4, <1>5, <1>6, <1>10, <1>11, <1>12 DEF IInv, TypeInv, ServiceType

\* The worker takes a job that is there.
LEMMA TakesOpen == ASSUME TypeInv, OpenJobs # {} PROVE NextBaseShield \in OpenJobs
<1> DEFINE R == OpToRel(<, Nat)
<1>1. IsWellFoundedOn(R, Nat)
  BY NatLessThanWellFounded, Zenon
<1>2. OpenJobs \in SUBSET Nat
  BY Places DEF OpenJobs
<1>3. PICK x \in OpenJobs : \A y \in OpenJobs : ~(<<y, x>> \in R)
  BY <1>1, <1>2, WFMin, Zenon
<1>4. \A y \in OpenJobs : ~(y < x)
  BY <1>2, <1>3 DEF OpToRel
<1>5. \A y \in OpenJobs : x <= y
  BY <1>2, <1>4
<1> QED BY <1>5 DEF NextBaseShield

\* A tick finds the job in the status that the step is for.
LEMMA TickStep == ASSUME IInv, Tick PROVE IInv'
<1> PICK j \in OpenJobs : j = NextBaseShield
  BY TakesOpen DEF Tick, IInv
<1>1. /\ UNCHANGED <<chain, jobs, serviceVars, minted>> /\ j \in Job /\ j \in Nat
      /\ jobs[j].status \in Active
      /\ worker' = [job |-> j, at |-> CASE jobs[j].status = "proving" -> "submit"
                                      [] jobs[j].status = "awaiting_finality" -> "finality"
                                      [] jobs[j].status = "minting" -> "attest"]
  BY Places DEF Tick, OpenJobs, baseVars, stellarVars, IInv
<1>2. /\ worker'.job = j /\ worker' \in [at : WorkerStep, job : Nat]
      /\ worker'.at = "finality" => jobs[j].status = "awaiting_finality"
      /\ worker'.at \in {"attest", "mint", "save"} =>
           jobs[j].status = "minting" /\ worker'.at = "attest"
  <2>1. CASE jobs[j].status = "proving"
    BY <1>1, <2>1 DEF WorkerStep
  <2>2. CASE jobs[j].status = "awaiting_finality"
    BY <1>1, <2>2 DEF WorkerStep
  <2>3. CASE jobs[j].status = "minting"
    BY <1>1, <2>3 DEF WorkerStep
  <2> QED BY <1>1, <2>1, <2>2, <2>3 DEF Active
<1>3. ServiceType' /\ TaskInv'
  BY <1>1, ServiceStays DEF IInv, Job
<1>4. ProofInv'
  BY <1>1 DEF IInv, ProofInv, Job, serviceVars
<1>5. WorkerType' /\ WorkerInv'
  BY <1>1, <1>2 DEF IInv, TypeInv, WorkerType, WorkerInv, Current, Job
<1> QED BY <1>1, <1>3, <1>4, <1>5 DEF IInv, TypeInv

\* A submission starts one task, and only for a job that has no proof.
LEMMA SubmitStep == ASSUME IInv, SubmitProve PROVE IInv'
<1> DEFINE j == worker.job
<1>1. /\ At("submit") /\ Submit(j) /\ worker' = [worker EXCEPT !.at = "poll"]
      /\ UNCHANGED <<chain, jobs, run, disk, minted>>
  BY DEF SubmitProve, Goto, baseVars, stellarVars
<1>2. /\ j \in Job /\ j \in Nat /\ worker \in [at : WorkerStep, job : Nat]
      /\ Job = 1..Len(jobs) /\ Len(jobs) \in Nat
      /\ memory \in Seq({None, "running", "error"}) /\ Len(memory) = Len(jobs)
      /\ waiting \in Seq(Nat)
  BY <1>1, Places DEF At, IInv, TypeInv, WorkerType, ServiceType
<1>3. WorkerType' /\ WorkerInv' /\ ProofInv'
  <2>1. worker' \in [at : WorkerStep, job : Nat] /\ worker'.at = "poll" /\ worker'.job = j
    BY <1>1, <1>2 DEF WorkerStep
  <2> QED BY <1>1, <1>2, <2>1 DEF IInv, TypeInv, WorkerType, WorkerInv, ProofInv, Job
<1>4. ServiceType' /\ TaskInv'
  <2>1. CASE Proved(j) \/ memory[j] = "running"
    <3>1. UNCHANGED <<memory, waiting>>
      BY <1>1, <2>1 DEF Submit
    <3> QED BY <1>1, <3>1, ServiceStays DEF serviceVars, IInv, Job
  <2>2. CASE ~(Proved(j) \/ memory[j] = "running")
    <3>1. memory' = [memory EXCEPT ![j] = "running"] /\ waiting' = Append(waiting, j)
      BY <1>1, <2>2 DEF Submit
    <3> HIDE DEF j
    <3>2. /\ memory' \in Seq({None, "running", "error"}) /\ Len(memory') = Len(jobs)
          /\ \A k \in Job : memory'[k] = IF k = j THEN "running" ELSE memory[k]
      BY <1>2, <3>1, ExceptSeq
    <3>3. /\ waiting' \in Seq(Nat) /\ Len(waiting') = Len(waiting) + 1
          /\ waiting'[Len(waiting) + 1] = j
          /\ \A i \in 1..Len(waiting) : waiting'[i] = waiting[i]
      BY <1>2, <3>1, AppendProperties
    <3>4. /\ Len(waiting) \in Nat /\ DOMAIN waiting = 1..Len(waiting)
          /\ DOMAIN waiting' = 1..(Len(waiting) + 1)
      BY <1>2, <3>3, LenProperties
    <3>5. ~disk[j].seal /\ ~HasTask(j)
      BY <1>2, <2>2 DEF Proved, HasTask, IInv, TaskInv
    <3>6. \A i \in DOMAIN waiting : HasTask(waiting[i]) /\ waiting[i] # j
      BY <3>5 DEF IInv, TaskInv
    <3>7. \A k : HasTask(k) \/ k = j => k \in Job /\ memory'[k] = "running" /\ ~disk[k].seal
      BY <1>2, <3>2, <3>5 DEF HasTask
    <3>8. \A i \in DOMAIN waiting' :
            \/ i \in DOMAIN waiting /\ waiting'[i] = waiting[i]
            \/ i = Len(waiting) + 1 /\ waiting'[i] = j
      BY <3>3, <3>4
    <3>9. \A i \in DOMAIN waiting' : HasTask(waiting'[i]) \/ waiting'[i] = j
      BY <3>6, <3>8
    <3>10. \A i, k \in DOMAIN waiting' : waiting'[i] = waiting'[k] => i = k
      BY <3>6, <3>8 DEF IInv, TaskInv
    <3>11. run # NoRun => HasTask(run.job) /\ \A i \in DOMAIN waiting' : waiting'[i] # run.job
      BY <3>5, <3>8 DEF IInv, TaskInv
    <3>12. TaskInv'
      BY <1>1, <3>7, <3>9, <3>10, <3>11 DEF IInv, TaskInv, HasTask, Job
    <3> QED BY <1>1, <3>2, <3>3, <3>12 DEF IInv, TypeInv, ServiceType
  <2> QED BY <2>1, <2>2
<1> QED BY <1>1, <1>3, <1>4 DEF IInv, TypeInv

\* The worker's own writes: of the job it is at, and of what is minted.
LEMMA WorkerWrites ==
  ASSUME IInv, worker.job \in Job, UNCHANGED <<chain, serviceVars>>,
         jobs' \in Seq(JobRecord), Len(jobs') = Len(jobs), Job' = Job,
         \A k \in Job : k # worker.job => jobs'[k] = jobs[k],
         minted \subseteq minted',
         LET r == jobs'[worker.job]
         IN  /\ r.status \in {"awaiting_finality", "minting", "active"} =>
                  disk[worker.job] = [journal |-> r.proof, seal |-> TRUE]
             /\ r.status = "active" => r.proof \in minted',
         worker' \in [at : WorkerStep, job : Nat],
         worker'.at # "idle" => worker'.job = worker.job,
         WorkerInv'
  PROVE  IInv'
<1>1. ServiceType' /\ TaskInv'
  BY ServiceStays DEF IInv
<1>2. ProofInv'
  <2>1. ASSUME NEW k \in Job
        PROVE  /\ jobs'[k].status \in {"awaiting_finality", "minting", "active"} =>
                    disk'[k] = [journal |-> jobs'[k].proof, seal |-> TRUE]
               /\ jobs'[k].status = "active" => jobs'[k].proof \in minted'
    <3>1. CASE k = worker.job
      BY <3>1 DEF serviceVars
    <3>2. CASE k # worker.job
      BY <3>2 DEF IInv, ProofInv, serviceVars
    <3> QED BY <3>1, <3>2
  <2> QED BY <2>1 DEF ProofInv
<1>3. WorkerType'
  BY DEF WorkerType
<1> QED BY <1>1, <1>2, <1>3 DEF IInv, TypeInv

\* The worker goes on, or leaves a job to its next tick.
LEMMA WorkerMoves ==
  ASSUME IInv, worker.job \in Job, UNCHANGED <<chain, serviceVars, jobs>>,
         minted \subseteq minted', worker' \in [at : WorkerStep, job : Nat],
         worker'.at # "idle" => worker'.job = worker.job, WorkerInv'
  PROVE  IInv'
<1>1. /\ jobs' \in Seq(JobRecord) /\ Len(jobs') = Len(jobs) /\ Job' = Job
      /\ \A k \in Job : jobs'[k] = jobs[k]
  BY DEF IInv, TypeInv, WorkerType, Job
<1>2. /\ jobs'[worker.job].status \in {"awaiting_finality", "minting", "active"} =>
           disk[worker.job] = [journal |-> jobs'[worker.job].proof, seal |-> TRUE]
      /\ jobs'[worker.job].status = "active" => jobs'[worker.job].proof \in minted'
  BY <1>1 DEF IInv, ProofInv
<1> QED BY <1>1, <1>2, WorkerWrites

\* A worker that rests has nothing left to do for the job.
LEMMA Rests == ASSUME Rest PROVE /\ worker' \in [at : WorkerStep, job : Nat] /\ worker'.at = "idle"
                                 /\ WorkerInv'
<1>1. worker' = [at |-> "idle", job |-> 0]
  BY DEF Rest, Resting
<1>2. worker' \in [at : WorkerStep, job : Nat] /\ worker'.at = "idle"
  BY <1>1 DEF WorkerStep
<1> QED BY <1>2 DEF WorkerInv

\* The worker's job ends as failed.
LEMMA FailsStep ==
  ASSUME IInv, worker.job \in Job, UNCHANGED <<chain, serviceVars, minted>>,
         SetStatus("failed"), Rest
  PROVE  IInv'
<1>1. /\ jobs' \in Seq(JobRecord) /\ Len(jobs') = Len(jobs) /\ Job' = Job
      /\ \A k \in Job : k # worker.job => jobs'[k] = jobs[k]
      /\ jobs'[worker.job].status = "failed"
  BY SetStatusFacts DEF IInv, JobStatus
<1> QED BY <1>1, Rests, WorkerWrites

\* What the worker reads from disk is what stays there.
LEMMA PollStep == ASSUME IInv, PollProve PROVE IInv'
<1> DEFINE j == worker.job
           p == disk[j].journal
<1>1. At("poll") /\ Rest /\ UNCHANGED <<chain, serviceVars, minted>>
  BY DEF PollProve, baseVars, stellarVars
<1>2. j \in Job /\ jobs[j] \in JobRecord /\ disk[j] \in DiskRecord
      /\ jobs \in Seq(JobRecord) /\ Job = 1..Len(jobs)
  BY <1>1, Places DEF At, IInv, TypeInv, WorkerType
<1>3. CASE /\ Status(j) = "done"
           /\ jobs' = [jobs EXCEPT ![j].status = AfterProof, ![j].proof = p]
  <2> DEFINE r == [jobs[j] EXCEPT !.status = AfterProof, !.proof = p]
  <2>1. Proved(j)
    <3>1. memory[j] # "done"
      <4>1. memory \in Seq({None, "running", "error"}) /\ j \in 1..Len(memory)
        BY <1>2 DEF IInv, TypeInv, ServiceType
      <4>2. memory[j] \in {None, "running", "error"}
        BY <4>1, ElementOfSeq
      <4> QED BY <4>2 DEF None
    <3> QED BY <1>3, <3>1 DEF Status
  <2>2. disk[j] = [journal |-> p, seal |-> TRUE] /\ p \in Artifact
    BY <1>2, <2>1 DEF Proved, DiskRecord
  <2>3. AfterProof \in JobStatus /\ AfterProof # "active"
    BY DEF AfterProof, JobStatus, Active
  <2>4. jobs' = [jobs EXCEPT ![j] = r]
    BY <1>2, <1>3 DEF JobRecord
  <2>5. r \in JobRecord /\ r.status = AfterProof /\ r.proof = p
    BY <1>2, <2>2, <2>3 DEF JobRecord
  <2> HIDE DEF r
  <2>6. /\ jobs' \in Seq(JobRecord) /\ Len(jobs') = Len(jobs)
        /\ \A k \in 1..Len(jobs) : jobs'[k] = IF k = j THEN r ELSE jobs[k]
    BY <1>2, <2>4, <2>5, ExceptSeq
  <2>7. Job' = Job
    BY <1>2, <2>6, LenProperties DEF Job
  <2> QED BY <1>1, <1>2, <2>2, <2>3, <2>5, <2>6, <2>7, Rests, WorkerWrites
<1>4. CASE SetStatus("failed")
  BY <1>1, <1>2, <1>4, FailsStep
<1>5. CASE UNCHANGED jobs
  BY <1>1, <1>2, <1>5, Rests, WorkerMoves
<1> QED BY <1>3, <1>4, <1>5 DEF PollProve

\* The finality gate.
LEMMA FinalityStep == ASSUME IInv, CheckFinality PROVE IInv'
<1>1. /\ Rest /\ UNCHANGED <<chain, serviceVars, minted>> /\ worker.job \in Job
      /\ Current.status = "awaiting_finality"
  BY DEF CheckFinality, At, baseVars, stellarVars, IInv, TypeInv, WorkerType, WorkerInv
<1>2. CASE SetStatus("minting")
  <2>1. /\ jobs' \in Seq(JobRecord) /\ Len(jobs') = Len(jobs) /\ Job' = Job
        /\ \A k \in Job : k # worker.job => jobs'[k] = jobs[k]
        /\ jobs'[worker.job].status = "minting"
        /\ jobs'[worker.job].proof = jobs[worker.job].proof
    BY <1>1, <1>2, SetStatusFacts DEF IInv, JobStatus, Active
  <2>2. disk[worker.job] = [journal |-> jobs[worker.job].proof, seal |-> TRUE]
    BY <1>1 DEF IInv, ProofInv, Current
  <2> QED BY <1>1, <2>1, <2>2, Rests, WorkerWrites
<1>3. CASE UNCHANGED jobs
  BY <1>1, <1>3, Rests, WorkerMoves
<1> QED BY <1>2, <1>3 DEF CheckFinality

\* The attestation, and the mint that the contract accepts or refuses.
LEMMA MintStep == ASSUME IInv, Attest \/ Mint \/ Save PROVE IInv'
<1>1. /\ UNCHANGED <<chain, serviceVars>> /\ worker.job \in Job /\ Current.status = "minting"
      /\ worker \in [at : WorkerStep, job : Nat]
      /\ disk[worker.job] = [journal |-> Current.proof, seal |-> TRUE]
  <2>1. /\ UNCHANGED <<chain, serviceVars>> /\ worker.job \in Job /\ Current.status = "minting"
        /\ worker \in [at : WorkerStep, job : Nat]
    BY DEF Attest, Mint, Save, At, baseVars, stellarVars, IInv, TypeInv, WorkerType, WorkerInv
  <2> QED BY <2>1 DEF IInv, ProofInv, Current
<1>2. CASE Attest
  <2>1. worker' = [worker EXCEPT !.at = "mint"] /\ UNCHANGED <<jobs, minted>>
    BY <1>2 DEF Attest, Goto
  <2>2. /\ worker' \in [at : WorkerStep, job : Nat] /\ worker'.job = worker.job
        /\ worker'.at = "mint"
    BY <1>1, <2>1 DEF WorkerStep
  <2>3. WorkerInv'
    BY <1>1, <2>1, <2>2 DEF WorkerInv, Current
  <2> QED BY <1>1, <2>1, <2>2, <2>3, WorkerMoves
<1>3. CASE Mint /\ Goto("save") /\ UNCHANGED jobs /\ minted' = minted \cup {Current.proof}
  <2>1. /\ worker' \in [at : WorkerStep, job : Nat] /\ worker'.job = worker.job
        /\ worker'.at = "save"
    BY <1>1, <1>3 DEF WorkerStep, Goto
  <2>2. WorkerInv'
    BY <1>1, <1>3, <2>1 DEF WorkerInv, Current
  <2> QED BY <1>1, <1>3, <2>1, <2>2, WorkerMoves
<1>4. CASE SetStatus("failed") /\ Rest /\ UNCHANGED minted
  BY <1>1, <1>4, FailsStep
<1>5. CASE Save
  <2>1. SetStatus("active") /\ Rest /\ UNCHANGED minted /\ Current.proof \in minted
    BY <1>5 DEF Save, At, stellarVars, IInv, WorkerInv
  <2>2. /\ jobs' \in Seq(JobRecord) /\ Len(jobs') = Len(jobs) /\ Job' = Job
        /\ \A k \in Job : k # worker.job => jobs'[k] = jobs[k]
        /\ jobs'[worker.job].status = "active"
        /\ jobs'[worker.job].proof = jobs[worker.job].proof
    BY <1>1, <2>1, SetStatusFacts DEF IInv, JobStatus
  <2> QED BY <1>1, <2>1, <2>2, Rests, WorkerWrites DEF Current
<1> QED BY <1>2, <1>3, <1>4, <1>5 DEF Mint

\* Failed calls and restarts of the worker.
LEMMA FaultStep == ASSUME IInv, CallFails \/ WorkerRestart PROVE IInv'
<1>1. /\ Rest /\ UNCHANGED <<chain, serviceVars, minted>> /\ worker.at # "idle"
      /\ worker.job \in Job
  BY DEF CallFails, WorkerRestart, At, baseVars, stellarVars, IInv, TypeInv, WorkerType
<1>2. CASE UNCHANGED jobs
  BY <1>1, <1>2, Rests, WorkerMoves
<1>3. CASE SetStatus("failed")
  BY <1>1, <1>3, FailsStep
<1> QED BY <1>2, <1>3 DEF CallFails, WorkerRestart, MintError
-----------------------------------------------------------------------------
\* The pipeline starts with nothing.
LEMMA InitEmpty == ASSUME Init PROVE IInv
<1>1. Len(<<>>) = 0 /\ DOMAIN jobs = {}
  BY EmptySeq, LenProperties DEF Init
<1>2. TypeInv
  <2>1. /\ chain \in History /\ jobs \in Seq(JobRecord) /\ disk \in Seq(DiskRecord)
        /\ memory \in Seq({None, "running", "error"}) /\ waiting \in Seq(Nat)
    BY EmptySeq DEF Init, History
  <2>2. worker \in [at : WorkerStep, job : Nat] /\ worker.at = "idle"
    BY DEF Init, Resting, WorkerStep
  <2> QED BY <2>1, <2>2 DEF Init, TypeInv, ServiceType, WorkerType
<1>3. DOMAIN waiting = {}
  BY EmptySeq, LenProperties DEF Init
<1> QED BY <1>1, <1>2, <1>3 DEF Init, IInv, TaskInv, ProofInv, WorkerInv, Job, Resting

\* Every step keeps the invariant.
LEMMA PipelineStep == ASSUME IInv, [Next]_shieldVars PROVE IInv'
<1>1. CASE UNCHANGED shieldVars
  <2>1. /\ UNCHANGED <<chain, jobs, worker, serviceVars, minted>>
        /\ Job' = Job /\ Len(jobs') = Len(jobs)
    BY <1>1 DEF shieldVars, baseVars, stellarVars, Job
  <2>2. ServiceType' /\ TaskInv'
    BY <2>1, ServiceStays DEF IInv
  <2>3. WorkerType' /\ ProofInv' /\ WorkerInv'
    BY <2>1, WorkerStays DEF serviceVars
  <2> QED BY <2>1, <2>2, <2>3 DEF IInv, TypeInv
<1>2. CASE Base
  BY <1>2, BaseStep
<1>3. CASE Service
  BY <1>3, StartRunStep, RunStep DEF Service
<1>4. CASE Worker
  BY <1>4, TickStep, SubmitStep, PollStep, FinalityStep, MintStep DEF Worker
<1>5. CASE \E id \in 0..(Cardinality(User) - 1) : Enqueue(id)
  <2>1. PICK id \in 0..(Cardinality(User) - 1) : Enqueue(id)
    BY <1>5
  <2>2. id \in Int
    BY <2>1
  <2> QED BY <2>1, <2>2, EnqueueStep
<1>6. CASE CallFails \/ WorkerRestart
  BY <1>6, FaultStep
<1>7. CASE ServiceRestart
  BY <1>7, ServiceRestartStep
<1> QED BY <1>1, <1>2, <1>3, <1>4, <1>5, <1>6, <1>7 DEF Next

\* A job that is reported active has its note on Stellar, minted from exactly the
\* journal that the service has on disk (baseShieldWorker.ts, prove_manager.rs):
\* for any number of deposits, reorganisations, restarts and lost calls.
THEOREM ActiveStaysMinted == Spec => []ActiveIsMinted
<1>1. Init => IInv
  BY InitEmpty
<1>2. IInv /\ [Next]_shieldVars => IInv'
  BY PipelineStep
<1>3. IInv => ActiveIsMinted
  BY DEF IInv, ProofInv, ActiveIsMinted
<1> QED BY <1>1, <1>2, <1>3, PTL DEF Spec
=============================================================================

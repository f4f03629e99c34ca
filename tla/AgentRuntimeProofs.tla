------------------------- MODULE AgentRuntimeProofs -------------------------
(***************************************************************************)
(* Type correctness of AgentRuntime.  TypeOK is inductive together with    *)
(* Linked: a row is written under an id some process holds, so its type is *)
(* preserved only because that id refers to an existing row.  The effects  *)
(* of the operators come first, then what a step does to the rows and to   *)
(* one process, then every action.                                         *)
(***************************************************************************)
EXTENDS AgentRuntime, TLAPS

\* The inductive invariant of this module.
Typed == TypeOK /\ Linked

-----------------------------------------------------------------------------
(* What the operators the actions are built from leave behind. *)

\* A program counter moves and nothing else of the process changes.
LEMMA GotoEffect ==
  ASSUME WorkerTypeOK, NEW w \in Workers, NEW pc \in Pc, Goto(w, pc)
  PROVE  /\ worker' \in [Workers -> WorkerRow]
         /\ \A v \in Workers : v # w => worker'[v] = worker[v]
         /\ worker'[w] = [worker[w] EXCEPT !.pc = pc]
         /\ worker'[w].pc = pc
         /\ worker'[w].job = worker[w].job
         /\ worker'[w].attempt = worker[w].attempt
         /\ worker'[w].outcome = worker[w].outcome
  BY DEF WorkerTypeOK, WorkerRow, Goto

\* The same, with an outcome.
LEMMA FinishEffect ==
  ASSUME WorkerTypeOK, NEW w \in Workers, NEW pc \in Pc, NEW outcome \in Outcome,
         Finish(w, pc, outcome)
  PROVE  /\ worker' \in [Workers -> WorkerRow]
         /\ \A v \in Workers : v # w => worker'[v] = worker[v]
         /\ worker'[w].pc = pc
         /\ worker'[w].job = worker[w].job
         /\ worker'[w].attempt = worker[w].attempt
         /\ worker'[w].outcome = outcome
  BY DEF WorkerTypeOK, WorkerRow, Finish

\* A process moves on with the action it resumes for, or asks for.
LEMMA ActionEffect ==
  ASSUME WorkerTypeOK, NEW w \in Workers, NEW pc \in Pc, NEW a \in Actions \cup {None},
         \/ worker' = [worker EXCEPT ![w].pc = pc, ![w].resume = a]
         \/ worker' = [worker EXCEPT ![w].pc = pc, ![w].asks = a]
  PROVE  /\ worker' \in [Workers -> WorkerRow]
         /\ \A v \in Workers : v # w => worker'[v] = worker[v]
         /\ worker'[w].pc = pc
         /\ worker'[w].job = worker[w].job
         /\ worker'[w].attempt = worker[w].attempt
  <1> DEFINE resumes == [worker[w] EXCEPT !.pc = pc, !.resume = a]
             asks    == [worker[w] EXCEPT !.pc = pc, !.asks = a]
  <1>1. worker[w] \in WorkerRow
    BY DEF WorkerTypeOK
  <1>2. resumes \in WorkerRow /\ asks \in WorkerRow
    BY <1>1 DEF WorkerRow
  <1>3. \A row \in {resumes, asks} : /\ row.pc = pc
                                    /\ row.job = worker[w].job
                                    /\ row.attempt = worker[w].attempt
    BY <1>1 DEF WorkerRow
  <1>4. PICK row \in {resumes, asks} : worker' = [worker EXCEPT ![w] = row]
    OBVIOUS
  <1> HIDE DEF resumes, asks
  <1> QED
    BY <1>2, <1>3, <1>4 DEF WorkerTypeOK

\* A process lets go of its job and of what it knew of it.
LEMMA ReleaseEffect ==
  ASSUME WorkerTypeOK, NEW w \in Workers, Release(w)
  PROVE  /\ worker' \in [Workers -> WorkerRow]
         /\ \A v \in Workers : v # w => worker'[v] = worker[v]
         /\ worker'[w].pc = "idle"
         /\ worker'[w].job = 0
         /\ worker'[w].outcome = "none"
  BY DEF WorkerTypeOK, WorkerRow, Release, Idle, Pc, Outcome

\* The fields of a process's local state.
LEMMA WorkerFields ==
  ASSUME WorkerTypeOK, NEW w \in Workers
  PROVE  /\ worker[w].pc \in Pc
         /\ worker[w].job \in JobId \cup {0}
         /\ worker[w].attempt \in Nat
         /\ worker[w].resume \in Actions \cup {None}
         /\ worker[w].asks \in Actions \cup {None}
         /\ worker[w].outcome \in Outcome
  BY DEF WorkerTypeOK, WorkerRow

\* The columns of a job.
LEMMA JobFields ==
  ASSUME StoreTypeOK, NEW j \in JobId
  PROVE  /\ job[j].run \in Runs \cup {None}
         /\ job[j].status \in JobStatus \cup {"absent"}
         /\ job[j].owner \in Workers \cup {None}
         /\ job[j].expired \in BOOLEAN
         /\ job[j].attempts \in Nat
  BY DEF StoreTypeOK, JobRow

\* A status write either takes effect as a whole or leaves the table alone.
LEMMA RunWriteEffect ==
  ASSUME StoreTypeOK, NEW r \in Runs, NEW status \in RunStatus,
         NEW error \in {"none", "attempt", "worker"},
         \/ run' = SetRunStatus(r, status, error)
         \/ run' = UpdateRun(r, status, error)
  PROVE  /\ run' \in [Runs -> RunRow]
         /\ \A s \in Runs : s # r => run'[s] = run[s]
         /\ RunWritable(r, status) => run'[r].status = status /\ run'[r].error = error
         /\ ~RunWritable(r, status) => run' = run
  <1>1. run' = IF RunWritable(r, status)
               THEN [run EXCEPT ![r] = [status |-> status, error |-> error]]
               ELSE run
    BY DEF SetRunStatus, UpdateRun
  <1>2. [status |-> status, error |-> error] \in RunRow
    BY DEF RunRow
  <1> QED
    BY <1>1, <1>2 DEF StoreTypeOK

\* Settling a job writes its status and frees its lease, under the lease only.
LEMMA SettledEffect ==
  ASSUME StoreTypeOK, NEW j \in JobId, NEW w \in Workers, NEW status \in JobStatus,
         job' = Settled(j, w, status)
  PROVE  /\ job' \in [JobId -> JobRow]
         /\ \A i \in JobId : i # j => job'[i] = job[i]
         /\ Leased(j, w) => /\ job'[j].status = status
                            /\ job'[j].owner = None
         /\ ~Leased(j, w) => job' = job
         /\ job'[j].run = job[j].run
         /\ job'[j].attempts = job[j].attempts
  BY DEF StoreTypeOK, JobRow, Settled

\* A claim takes the lease and counts an attempt.
LEMMA ClaimedEffect ==
  ASSUME StoreTypeOK, NEW j \in JobId, NEW w \in Workers, job' = ClaimedBy(j, w)
  PROVE  /\ job' \in [JobId -> JobRow]
         /\ \A i \in JobId : i # j => job'[i] = job[i]
         /\ job'[j].status = "running"
         /\ job'[j].owner = w
         /\ job'[j].expired = FALSE
         /\ job'[j].run = job[j].run
         /\ job'[j].attempts = job[j].attempts + 1
  BY DEF StoreTypeOK, JobRow, JobStatus, ClaimedBy

\* A new job is queued for its run, and nobody owns it.
LEMMA QueuedEffect ==
  ASSUME StoreTypeOK, NEW r \in Runs, NEW j \in JobId,
         job' = [job EXCEPT ![j] = QueuedJob(r)]
  PROVE  /\ job' \in [JobId -> JobRow]
         /\ \A i \in JobId : i # j => job'[i] = job[i]
         /\ job'[j].status = "queued"
         /\ job'[j].owner = None
         /\ job'[j].expired = FALSE
         /\ job'[j].run = r
  BY DEF StoreTypeOK, JobRow, JobStatus, QueuedJob, NoJob

\* Appending keeps timelines sequences of life-cycle events.
LEMMA AppendTyped ==
  ASSUME StoreTypeOK, NEW r \in Runs, NEW e \in Event
  PROVE  AppendEvent(r, e) \in [Runs -> Seq(Event)]
  BY DEF StoreTypeOK, AppendEvent
-----------------------------------------------------------------------------
(* Types, and what the identifiers a process holds refer to. *)

\* Every row a busy process, a job or an emission refers to exists.
LEMMA Refers ==
  ASSUME Typed
  PROVE  /\ \A w \in Workers : Busy(w) => /\ Job(w) \in JobId
                                          /\ Run(w) \in Runs
                                          /\ Exists(Run(w))
         /\ \A w \in Workers : \A e \in outbox[w] :
              /\ e.job \in JobId /\ job[e.job].run \in Runs /\ Exists(job[e.job].run)
              /\ e.attempt \in Nat /\ e.type \in {"run.started", "run.completed"}
  <1>1. \A w \in Workers : Job(w) \in JobId \cup {0}
    BY WorkerFields DEF Typed, TypeOK, Job
  <1>2. \A w \in Workers : \A e \in outbox[w] : e.job \in JobId /\ e.attempt \in Nat
    BY DEF Typed, TypeOK, WorkerTypeOK, Emission
  <1> QED
    BY <1>1, <1>2 DEF Typed, Linked, Run, Job

\* An empty database and idle processes are typed and linked.
LEMMA TypedInit == Init => Typed
  BY StoreAssumption, BoundAssumption
  DEF Typed, Init, StoreInit, WorkerInit, ApiInit, TypeOK, StoreTypeOK, WorkerTypeOK,
      ApiTypeOK, Linked, RunRow, JobRow, WorkerRow, NoRun, NoJob, Idle, JobId, Emission,
      RunStatus, JobStatus, ApprovalStatus, Busy, Job, Exists, Outcome, Pc

\* Rows are never deleted, and a job stays with its run.
RowsKept == /\ run' \in [Runs -> RunRow]
            /\ job' \in [JobId -> JobRow]
            /\ \A r \in Runs : run[r].status # "absent" => run'[r].status # "absent"
            /\ \A j \in JobId : job[j].status # "absent" =>
                 job'[j].status # "absent" /\ job'[j].run = job[j].run
            /\ \A j \in JobId : IF job'[j].status = "absent"
                                THEN job'[j].run = None
                                ELSE job'[j].run \in Runs /\ run'[job'[j].run].status # "absent"

\* What Linked says of one process.
LinkedWorker(w) ==
  /\ IF Busy(w) THEN Job(w) # 0 /\ job[Job(w)].status # "absent" ELSE Job(w) = 0
  /\ worker[w].pc \in {"draining", "storing"}
       => worker[w].outcome \in {"completed", "paused", "cancelled", "retryable", "fatal"}
  /\ \A e \in outbox[w] : /\ job[e.job].status # "absent"
                          /\ e.type \in {"run.started", "run.completed"}

\* A step of one process, or of none, that keeps the rows keeps Linked once
\* the process itself is linked again.
LEMMA LinkedKept ==
  ASSUME Typed, RowsKept, NEW w \in Workers,
         \A v \in Workers : v # w => worker'[v] = worker[v] /\ outbox'[v] = outbox[v],
         LinkedWorker(w)'
  PROVE  Linked'
  <1>1. ASSUME NEW v \in Workers, v # w
        PROVE  LinkedWorker(v)'
    <2>1. worker'[v] = worker[v] /\ outbox'[v] = outbox[v]
      BY <1>1
    <2>2. LinkedWorker(v)
      BY DEF Typed, Linked, LinkedWorker
    <2>3. /\ Busy(v) => Job(v) \in JobId
          /\ \A e \in outbox[v] : e.job \in JobId
      BY Refers
    <2> QED
      BY <2>1, <2>2, <2>3 DEF LinkedWorker, Busy, Job, RowsKept
  <1>2. \A v \in Workers : LinkedWorker(v)'
    BY <1>1
  <1>3. \A j \in JobId : IF job'[j].status = "absent"
                         THEN job'[j].run = None
                         ELSE job'[j].run \in Runs /\ run'[job'[j].run].status # "absent"
    BY DEF RowsKept
  <1> QED
    BY <1>2, <1>3 DEF Linked, LinkedWorker, Exists

\* A step that leaves runs and jobs alone keeps their rows, and so does one
\* that rewrites the row of an existing run, or of an existing job.
LEMMA RowsSame ==
  ASSUME Typed, UNCHANGED <<run, job>>
  PROVE  RowsKept
  BY DEF Typed, TypeOK, StoreTypeOK, Linked, Exists, RowsKept

\* Rewriting the row of an existing run keeps the rows.
LEMMA RowsOfRun ==
  ASSUME Typed, NEW r \in Runs, Exists(r), UNCHANGED job,
         run' \in [Runs -> RunRow],
         \A s \in Runs : s # r => run'[s] = run[s],
         run'[r].status # "absent"
  PROVE  RowsKept
  BY DEF Typed, TypeOK, StoreTypeOK, Linked, Exists, RowsKept

\* Rewriting the row of an existing job keeps the rows.
LEMMA RowsOfJob ==
  ASSUME Typed, NEW j \in JobId, UNCHANGED run,
         job' \in [JobId -> JobRow],
         \A i \in JobId : i # j => job'[i] = job[i],
         job[j].status # "absent", job'[j].status # "absent", job'[j].run = job[j].run
  PROVE  RowsKept
  BY DEF Typed, TypeOK, StoreTypeOK, Linked, Exists, RowsKept

\* A status write of a busy process keeps the rows.
LEMMA RowsOfStatus ==
  ASSUME Typed, NEW r \in Runs, Exists(r), NEW status \in RunStatus,
         NEW error \in {"none", "attempt", "worker"}, UNCHANGED job,
         \/ run' = SetRunStatus(r, status, error)
         \/ run' = UpdateRun(r, status, error)
  PROVE  RowsKept
  <1>1. StoreTypeOK /\ status # "absent"
    BY DEF Typed, TypeOK, RunStatus, TerminalStatus
  <1>2. /\ run' \in [Runs -> RunRow]
        /\ \A s \in Runs : s # r => run'[s] = run[s]
        /\ RunWritable(r, status) => run'[r].status = status
        /\ ~RunWritable(r, status) => run' = run
    BY <1>1, RunWriteEffect
  <1>3. run'[r].status # "absent"
    BY <1>1, <1>2 DEF Exists
  <1> QED
    BY <1>2, <1>3, RowsOfRun

\* A process that stays with its job stays linked, and so does one that
\* drops it.
LEMMA StillLinked ==
  ASSUME Typed, RowsKept, NEW w \in Workers, Busy(w),
         worker'[w].job = worker[w].job,
         worker'[w].pc \notin {"idle", "dead"},
         worker'[w].pc \in {"draining", "storing"}
           => worker'[w].outcome \in {"completed", "paused", "cancelled", "retryable", "fatal"},
         outbox'[w] \subseteq outbox[w] \cup {Emits(w, "run.started"), Emits(w, "run.completed")}
  PROVE  LinkedWorker(w)'
  <1>1. LinkedWorker(w)
    BY DEF Typed, Linked, LinkedWorker
  <1>2. Job(w) \in JobId /\ \A e \in outbox[w] : e.job \in JobId
    BY Refers
  <1>3. Job(w)' # 0 /\ job'[Job(w)'].status # "absent"
    BY <1>1, <1>2 DEF LinkedWorker, RowsKept, Job
  <1>4. \A e \in outbox'[w] : /\ job'[e.job].status # "absent"
                              /\ e.type \in {"run.started", "run.completed"}
    <2>1. ASSUME NEW e \in outbox[w]
          PROVE  job'[e.job].status # "absent" /\ e.type \in {"run.started", "run.completed"}
      BY <1>1, <1>2 DEF LinkedWorker, RowsKept
    <2>2. ASSUME NEW t \in {"run.started", "run.completed"}
          PROVE  /\ job'[Emits(w, t).job].status # "absent"
                 /\ Emits(w, t).type \in {"run.started", "run.completed"}
      BY <1>3 DEF Emits, Job
    <2> QED
      BY <2>1, <2>2
  <1> QED
    BY <1>3, <1>4 DEF LinkedWorker, Busy

\* A process without a job is linked as long as its emissions are.
LEMMA DroppedLinked ==
  ASSUME Typed, RowsKept, NEW w \in Workers,
         worker'[w].pc \in {"idle", "dead"}, worker'[w].job = 0,
         outbox'[w] \subseteq outbox[w]
  PROVE  LinkedWorker(w)'
  <1>1. LinkedWorker(w)
    BY DEF Typed, Linked, LinkedWorker
  <1>2. \A e \in outbox[w] : e.job \in JobId
    BY Refers
  <1> QED
    BY <1>1, <1>2 DEF LinkedWorker, RowsKept, Busy, Job

\* Emissions of a busy process are well typed.
LEMMA EmitsTyped ==
  ASSUME Typed, NEW w \in Workers, Busy(w), NEW e \in Event
  PROVE  Emits(w, e) \in Emission
  <1>1. Job(w) \in JobId /\ worker[w].attempt \in Nat
    BY Refers, WorkerFields DEF Typed, TypeOK
  <1> QED
    BY <1>1 DEF Emits, Emission

\* The outboxes after one emission, or none, of a busy process.
LEMMA OutboxTyped ==
  ASSUME Typed, NEW w \in Workers, Busy(w), NEW e \in {"run.started", "run.completed"},
         UNCHANGED outbox \/ Emit(w, e)
  PROVE  /\ outbox' \in [Workers -> SUBSET Emission]
         /\ \A v \in Workers : v # w => outbox'[v] = outbox[v]
         /\ outbox'[w] \subseteq outbox[w] \cup {Emits(w, "run.started"), Emits(w, "run.completed")}
  <1>1. Emits(w, e) \in Emission
    BY EmitsTyped DEF Event, TerminalEvent
  <1>2. outbox \in [Workers -> SUBSET Emission]
    BY DEF Typed, TypeOK, WorkerTypeOK
  <1> QED
    BY <1>1, <1>2 DEF Emit

\* Moving on, finishing the handler and letting go of a job keep the local
\* state typed and linked, whatever rows they write beside it.
LEMMA GotoKeeps ==
  ASSUME Typed, RowsKept, NEW w \in Workers, Busy(w),
         NEW pc \in Pc \ {"idle", "dead", "draining"},
         pc = "storing" => At(w, "draining"),
         Goto(w, pc),
         UNCHANGED outbox \/ Emit(w, "run.started")
  PROVE  WorkerTypeOK' /\ Linked'
  <1>1. /\ worker' \in [Workers -> WorkerRow]
        /\ \A v \in Workers : v # w => worker'[v] = worker[v]
        /\ worker'[w].pc = pc
        /\ worker'[w].job = worker[w].job
        /\ worker'[w].outcome = worker[w].outcome
    BY GotoEffect DEF Typed, TypeOK
  <1>2. /\ outbox' \in [Workers -> SUBSET Emission]
        /\ \A v \in Workers : v # w => outbox'[v] = outbox[v]
        /\ outbox'[w] \subseteq outbox[w] \cup {Emits(w, "run.started"), Emits(w, "run.completed")}
    BY OutboxTyped
  <1>3. pc = "storing" => worker[w].outcome \in {"completed", "paused", "cancelled",
                                                  "retryable", "fatal"}
    BY DEF Typed, Linked, At
  <1>4. LinkedWorker(w)'
    BY <1>1, <1>2, <1>3, StillLinked
  <1> QED
    BY <1>1, <1>2, <1>4, LinkedKept DEF WorkerTypeOK

\* The same for the end of the handler.
LEMMA FinishKeeps ==
  ASSUME Typed, RowsKept, NEW w \in Workers, Busy(w), NEW pc \in {"settling", "draining"},
         NEW outcome \in {"completed", "paused", "cancelled", "failed", "retryable", "fatal"},
         pc = "draining" => outcome # "failed",
         Finish(w, pc, outcome),
         UNCHANGED outbox \/ Emit(w, "run.completed")
  PROVE  WorkerTypeOK' /\ Linked'
  <1>1. pc \in Pc /\ outcome \in Outcome
    BY DEF Pc, Handling, Settling, Outcome
  <1>2. /\ worker' \in [Workers -> WorkerRow]
        /\ \A v \in Workers : v # w => worker'[v] = worker[v]
        /\ worker'[w].pc = pc
        /\ worker'[w].job = worker[w].job
        /\ worker'[w].outcome = outcome
    BY <1>1, FinishEffect DEF Typed, TypeOK
  <1>3. /\ outbox' \in [Workers -> SUBSET Emission]
        /\ \A v \in Workers : v # w => outbox'[v] = outbox[v]
        /\ outbox'[w] \subseteq outbox[w] \cup {Emits(w, "run.started"), Emits(w, "run.completed")}
    BY OutboxTyped
  <1>4. LinkedWorker(w)'
    BY <1>2, <1>3, StillLinked
  <1> QED
    BY <1>2, <1>3, <1>4, LinkedKept DEF WorkerTypeOK

\* The same for a process that lets go of its job.
LEMMA ReleaseKeeps ==
  ASSUME Typed, RowsKept, NEW w \in Workers, Release(w), UNCHANGED outbox
  PROVE  WorkerTypeOK' /\ Linked'
  <1>1. /\ worker' \in [Workers -> WorkerRow]
        /\ \A v \in Workers : v # w => worker'[v] = worker[v]
        /\ worker'[w].pc = "idle"
        /\ worker'[w].job = 0
    BY ReleaseEffect DEF Typed, TypeOK
  <1>2. LinkedWorker(w)'
    BY <1>1, DroppedLinked
  <1> QED
    BY <1>1, <1>2, LinkedKept DEF Typed, TypeOK, WorkerTypeOK

\* An action of the API, of the clock, or of nobody, that keeps the rows.
LEMMA LocalKeeps ==
  ASSUME Typed, RowsKept, UNCHANGED local
  PROVE  WorkerTypeOK' /\ Linked'
  <1>1. ASSUME NEW w \in Workers
        PROVE  LinkedWorker(w)'
    <2>1. LinkedWorker(w)
      BY DEF Typed, Linked, LinkedWorker
    <2>2. /\ Busy(w) => Job(w) \in JobId
          /\ \A e \in outbox[w] : e.job \in JobId
      BY Refers
    <2> QED
      BY <2>1, <2>2 DEF LinkedWorker, Busy, Job, RowsKept, local
  <1> QED
    BY <1>1 DEF Linked, LinkedWorker, RowsKept, Exists, Typed, TypeOK, WorkerTypeOK, local
-----------------------------------------------------------------------------
(* The types of every action. *)

CoreTyped == StoreTypeOK /\ WorkerTypeOK /\ ApiTypeOK /\ Linked

\* Types of claim_next up to the start of the execution.
LEMMA StartTyped ==
  ASSUME Typed, NEW w \in Workers, UNCHANGED announcing,
         Claim(w) \/ SetRunning(w) \/ ReadRun(w) \/ ReadForResume(w) \/ CheckStarted(w)
  PROVE  CoreTyped'
  <1> USE DEF CoreTyped, ApiTypeOK
  <1>0. StoreTypeOK /\ WorkerTypeOK /\ ApiTypeOK
    BY DEF Typed, TypeOK
  <1>1. CASE Claim(w)
    <2>1. PICK j \in JobId : /\ Claimable(j)
                             /\ job' = ClaimedBy(j, w)
                             /\ worker' = [worker EXCEPT ![w] = Claimed(j, job[j].attempts + 1)]
      BY <1>1 DEF Claim
    <2>2. /\ job' \in [JobId -> JobRow]
          /\ \A i \in JobId : i # j => job'[i] = job[i]
          /\ job'[j].status = "running"
          /\ job'[j].run = job[j].run
      BY <1>0, <2>1, ClaimedEffect
    <2>3. job[j].status # "absent" /\ job[j].attempts \in Nat
      BY <1>0, <2>1, JobFields DEF Claimable
    <2>4. RowsKept
      BY <1>1, <2>2, <2>3, RowsOfJob DEF Claim
    <2>5. /\ worker' \in [Workers -> WorkerRow]
          /\ \A v \in Workers : v # w => worker'[v] = worker[v]
          /\ worker'[w].pc = "claimed"
          /\ worker'[w].job = j
      <3>1. Claimed(j, job[j].attempts + 1) \in WorkerRow
        <4>1. job[j].attempts + 1 \in Nat
          BY <2>3
        <4> QED
          BY <4>1 DEF Claimed, WorkerRow, Pc, Outcome
      <3>2. /\ Claimed(j, job[j].attempts + 1).pc = "claimed"
            /\ Claimed(j, job[j].attempts + 1).job = j
        BY DEF Claimed
      <3> QED
        BY <1>0, <2>1, <3>1, <3>2 DEF WorkerTypeOK
    <2>6. LinkedWorker(w)'
      <3>1. LinkedWorker(w) /\ \A e \in outbox[w] : e.job \in JobId
        BY Refers DEF Typed, Linked, LinkedWorker
      <3>2. outbox' = outbox /\ j # 0
        <4>1. outbox' = outbox
          BY <1>1 DEF Claim
        <4>2. j # 0
          BY StoreAssumption DEF JobId
        <4> QED
          BY <4>1, <4>2
      <3> QED
        BY <2>2, <2>4, <2>5, <3>1, <3>2 DEF LinkedWorker, RowsKept, Busy, Job
    <2>7. Linked'
      BY <1>1, <2>4, <2>5, <2>6, LinkedKept DEF Claim
    <2> QED
      BY <1>0, <1>1, <2>2, <2>5, <2>7 DEF Claim, StoreTypeOK, WorkerTypeOK
  <1>2. CASE SetRunning(w)
    <2>1. Busy(w)
      BY <1>2 DEF SetRunning, At, Busy
    <2>2. RowsKept
      <3>1. Run(w) \in Runs /\ Exists(Run(w))
        BY <2>1, Refers
      <3>2. "running" \in RunStatus
        BY DEF RunStatus
      <3> QED
        BY <1>2, <3>1, <3>2, RowsOfStatus DEF SetRunning
    <2>3. "reading" \in Pc \ {"idle", "dead", "draining"}
      BY DEF Pc, Handling
    <2>4. WorkerTypeOK' /\ Linked'
      BY <1>2, <2>1, <2>2, <2>3, GotoKeeps DEF SetRunning
    <2> QED
      BY <1>0, <1>2, <2>2, <2>4 DEF SetRunning, RowsKept, StoreTypeOK
  <1>3. CASE ReadRun(w)
    <2>1. Busy(w) /\ RowsKept
      BY <1>3, RowsSame DEF ReadRun, At, Busy, store
    <2>2. CASE Finish(w, "settling", run[Run(w)].status) /\ Terminal(Run(w))
      BY <1>3, <2>1, <2>2, FinishKeeps, <1>0 DEF ReadRun, Terminal, TerminalStatus, store, StoreTypeOK
    <2>3. CASE Goto(w, "resuming")
      <3>1. "resuming" \in Pc \ {"idle", "dead", "draining"}
        BY DEF Pc, Handling
      <3>2. WorkerTypeOK' /\ Linked'
        BY <1>3, <2>1, <2>3, <3>1, GotoKeeps DEF ReadRun
      <3> QED
        BY <1>0, <1>3, <3>2 DEF ReadRun, store, StoreTypeOK
    <2> QED
      BY <1>3, <2>2, <2>3 DEF ReadRun
  <1>4. CASE ReadForResume(w)
    <2>1. Busy(w) /\ RowsKept
      BY <1>4, RowsSame DEF ReadForResume, At, Busy, store
    <2>2. WorkerTypeOK' /\ Linked'
      <3>1. CASE Goto(w, "starting")
        <4>1. "starting" \in Pc \ {"idle", "dead", "draining"}
          BY DEF Pc, Handling
        <4> QED
          BY <1>4, <2>1, <3>1, <4>1, GotoKeeps DEF ReadForResume
      <3>2. CASE Finish(w, "settling", "paused")
        BY <1>4, <2>1, <3>2, FinishKeeps DEF ReadForResume
      <3>3. CASE worker' = [worker EXCEPT ![w].pc = "starting", ![w].resume = latest[Run(w)]]
        <4>1. latest[Run(w)] \in Actions \cup {None}
          BY <1>0, <2>1, Refers DEF StoreTypeOK
        <4>2. /\ worker' \in [Workers -> WorkerRow]
              /\ \A v \in Workers : v # w => worker'[v] = worker[v]
              /\ worker'[w].pc = "starting"
              /\ worker'[w].job = worker[w].job
          <5>1. "starting" \in Pc
            BY DEF Pc, Handling
          <5> QED
            BY <1>0, <3>3, <4>1, <5>1, ActionEffect
        <4>3. LinkedWorker(w)'
          BY <1>4, <2>1, <4>2, StillLinked DEF ReadForResume
        <4> QED
          BY <1>0, <1>4, <2>1, <4>2, <4>3, LinkedKept DEF ReadForResume, WorkerTypeOK
      <3> QED
        BY <1>4, <3>1, <3>2, <3>3 DEF ReadForResume
    <2> QED
      BY <1>0, <1>4, <2>2 DEF ReadForResume, store, StoreTypeOK
  <1>5. CASE CheckStarted(w)
    <2>1. Busy(w) /\ RowsKept
      BY <1>5, RowsSame DEF CheckStarted, At, Busy, store
    <2>2. "invoking" \in Pc \ {"idle", "dead", "draining"}
      BY DEF Pc, Handling
    <2>3. WorkerTypeOK' /\ Linked'
      BY <1>5, <2>1, <2>2, GotoKeeps DEF CheckStarted
    <2> QED
      BY <1>0, <1>5, <2>3 DEF CheckStarted, store, StoreTypeOK
  <1> QED
    BY <1>1, <1>2, <1>3, <1>4, <1>5

\* Types of the invocation, the resumption and every end of the graph.
LEMMA GraphTyped ==
  ASSUME Typed, NEW w \in Workers, UNCHANGED announcing,
         \/ InvokeGraph(w) \/ ResumeGraph(w) \/ GraphCompletes(w) \/ GraphFails(w)
         \/ GraphCancelled(w) \/ RequestApproval(w) \/ Interrupt(w)
  PROVE  CoreTyped'
  <1> USE DEF CoreTyped, ApiTypeOK
  <1>0. StoreTypeOK /\ WorkerTypeOK /\ ApiTypeOK
    BY DEF Typed, TypeOK
  <1>a. Busy(w)
    BY DEF InvokeGraph, ResumeGraph, GraphCompletes, GraphFails, GraphCancelled,
           RequestApproval, Interrupt, At, Busy
  <1>b. RowsKept
    BY RowsSame DEF InvokeGraph, ResumeGraph, GraphCompletes, GraphFails, GraphCancelled,
                    RequestApproval, Interrupt, store
  <1>c. Run(w) \in Runs
    BY <1>a, Refers
  <1>d. "graph" \in Pc \ {"idle", "dead", "draining"}
    BY DEF Pc, Handling
  <1>1. CASE InvokeGraph(w)
    <2>1. WorkerTypeOK' /\ Linked'
      BY <1>1, <1>a, <1>b, <1>d, GotoKeeps DEF InvokeGraph
    <2>2. asked' \in [Runs -> Actions \cup {None}]
      BY <1>0, <1>1 DEF InvokeGraph, StoreTypeOK
    <2> QED
      BY <1>0, <1>1, <2>1, <2>2 DEF InvokeGraph, StoreTypeOK
  <1>2. CASE ResumeGraph(w)
    <2>1. WorkerTypeOK' /\ Linked'
      BY <1>2, <1>a, <1>b, <1>d, GotoKeeps DEF ResumeGraph
    <2>2. asked' \in [Runs -> Actions \cup {None}]
      BY <1>0, <1>2 DEF ResumeGraph, StoreTypeOK
    <2>3. asked[Run(w)] \in Actions \cup {None}
      BY <1>0, <1>c DEF StoreTypeOK
    <2>4. granted' \in [Runs -> SUBSET Actions]
      BY <1>0, <1>2, <2>3 DEF ResumeGraph, StoreTypeOK
    <2> QED
      BY <1>0, <1>2, <2>1, <2>2, <2>4 DEF ResumeGraph, StoreTypeOK
  <1>3. CASE GraphCompletes(w)
    <2>1. WorkerTypeOK' /\ Linked'
      BY <1>3, <1>a, <1>b, FinishKeeps DEF GraphCompletes
    <2> QED
      BY <1>0, <1>3, <2>1 DEF GraphCompletes, store, StoreTypeOK
  <1>4. CASE GraphFails(w)
    <2>1. WorkerTypeOK' /\ Linked'
      BY <1>4, <1>a, <1>b, FinishKeeps DEF GraphFails
    <2> QED
      BY <1>0, <1>4, <2>1 DEF GraphFails, store, StoreTypeOK
  <1>5. CASE GraphCancelled(w)
    <2>1. WorkerTypeOK' /\ Linked'
      BY <1>5, <1>a, <1>b, FinishKeeps DEF GraphCancelled
    <2> QED
      BY <1>0, <1>5, <2>1 DEF GraphCancelled, store, StoreTypeOK
  <1>6. CASE RequestApproval(w)
    <2>1. PICK a \in Actions :
            /\ approval' = CreatePending(Run(w), a)
            /\ worker' = [worker EXCEPT ![w].pc = "asking", ![w].asks = a]
      BY <1>6 DEF RequestApproval
    <2>2. "asking" \in Pc
      BY DEF Pc, Handling
    <2>3. /\ worker' \in [Workers -> WorkerRow]
          /\ \A v \in Workers : v # w => worker'[v] = worker[v]
          /\ worker'[w].pc = "asking"
          /\ worker'[w].job = worker[w].job
      BY <1>0, <2>1, <2>2, ActionEffect
    <2>4. LinkedWorker(w)'
      BY <1>6, <1>a, <1>b, <2>3, StillLinked DEF RequestApproval
    <2>5. WorkerTypeOK' /\ Linked'
      BY <1>0, <1>6, <1>b, <2>3, <2>4, LinkedKept DEF RequestApproval, WorkerTypeOK
    <2>6. approval' \in [Runs -> [Actions -> ApprovalStatus \cup {"absent"}]]
      BY <1>0, <2>1 DEF StoreTypeOK, CreatePending, ApprovalStatus
    <2> QED
      BY <1>0, <1>6, <2>5, <2>6 DEF RequestApproval, StoreTypeOK
  <1>7. CASE Interrupt(w)
    <2>1. WorkerTypeOK' /\ Linked'
      BY <1>7, <1>a, <1>b, FinishKeeps DEF Interrupt
    <2>2. worker[w].asks \in Actions \cup {None}
      BY <1>0, WorkerFields
    <2>3. asked' \in [Runs -> Actions \cup {None}]
      BY <1>0, <1>7, <2>2 DEF Interrupt, StoreTypeOK
    <2> QED
      BY <1>0, <1>7, <2>1, <2>3 DEF Interrupt, StoreTypeOK
  <1> QED
    BY <1>1, <1>2, <1>3, <1>4, <1>5, <1>6, <1>7

\* Types of drain, _update_run, the persist tasks and the heartbeat loop.
LEMMA StoringTyped ==
  ASSUME Typed, NEW w \in Workers, UNCHANGED announcing,
         Drained(w) \/ StoreOutcome(w) \/ Persist(w) \/ Heartbeat(w) \/ LeaseLost(w)
  PROVE  CoreTyped'
  <1> USE DEF CoreTyped, ApiTypeOK
  <1>0. StoreTypeOK /\ WorkerTypeOK /\ ApiTypeOK
    BY DEF Typed, TypeOK
  <1>1. CASE Drained(w)
    <2>1. Busy(w) /\ RowsKept
      BY <1>1, RowsSame DEF Drained, At, Busy, store
    <2>2. "storing" \in Pc \ {"idle", "dead", "draining"}
      BY DEF Pc, Handling
    <2>3. WorkerTypeOK' /\ Linked'
      BY <1>1, <2>1, <2>2, GotoKeeps DEF Drained
    <2> QED
      BY <1>0, <1>1, <2>3 DEF Drained, store, StoreTypeOK
  <1>2. CASE StoreOutcome(w)
    <2> DEFINE outcome == worker[w].outcome
    <2>1. Busy(w) /\ At(w, "storing")
      BY <1>2 DEF StoreOutcome, At, Busy
    <2>2. outcome \in {"completed", "paused", "cancelled", "retryable", "fatal"}
      BY <2>1 DEF Typed, Linked, At
    <2>3. /\ PersistedStatus(outcome) \in RunStatus
          /\ PersistedError(outcome) \in {"none", "attempt", "worker"}
      BY <2>2 DEF PersistedStatus, PersistedError, RunStatus, TerminalStatus
    <2>4. Run(w) \in Runs /\ Exists(Run(w))
      BY <2>1, Refers
    <2>5. RowsKept
      BY <1>2, <2>3, <2>4, RowsOfStatus DEF StoreOutcome
    <2>6. PICK pc \in {"failing", "rejecting", "settling"} : Goto(w, pc)
      BY <1>2, <2>2 DEF StoreOutcome
    <2>7. pc \in Pc \ {"idle", "dead", "draining"} /\ pc # "storing"
      BY DEF Pc, Settling
    <2>8. WorkerTypeOK' /\ Linked'
      BY <1>2, <2>1, <2>5, <2>6, <2>7, GotoKeeps DEF StoreOutcome
    <2> QED
      BY <1>0, <1>2, <2>5, <2>8 DEF StoreOutcome, StoreTypeOK, RowsKept
  <1>3. CASE Persist(w)
    <2>1. PICK e \in outbox[w] : /\ log' = AppendEvent(job[e.job].run, e.type)
                                 /\ outbox' = [outbox EXCEPT ![w] = @ \ {e}]
      BY <1>3 DEF Persist
    <2>2. job[e.job].run \in Runs /\ e.type \in Event
      BY Refers DEF Event, TerminalEvent
    <2>3. log' \in [Runs -> Seq(Event)]
      BY <1>0, <2>1, <2>2, AppendTyped
    <2>4. /\ outbox' \in [Workers -> SUBSET Emission]
          /\ \A v \in Workers : v # w => outbox'[v] = outbox[v]
          /\ outbox'[w] \subseteq outbox[w]
      BY <1>0, <2>1 DEF WorkerTypeOK
    <2>5. RowsKept
      BY <1>3, RowsSame DEF Persist
    <2>6. LinkedWorker(w)'
      <3>1. LinkedWorker(w)
        BY DEF Typed, Linked, LinkedWorker
      <3>2. /\ Busy(w) => Job(w) \in JobId
            /\ \A f \in outbox[w] : f.job \in JobId
        BY Refers
      <3>3. worker' = worker
        BY <1>3 DEF Persist
      <3> QED
        BY <2>4, <2>5, <3>1, <3>2, <3>3 DEF LinkedWorker, RowsKept, Busy, Job
    <2>7. Linked'
      BY <1>3, <2>4, <2>5, <2>6, LinkedKept DEF Persist
    <2> QED
      BY <1>0, <1>3, <2>3, <2>4, <2>7 DEF Persist, StoreTypeOK, WorkerTypeOK
  <1>4. CASE Heartbeat(w)
    <2>1. Job(w) \in JobId /\ job[Job(w)].status = "running"
      <3>1. Busy(w)
        BY <1>4 DEF Heartbeat, Busy, Handling
      <3> QED
        BY <1>4, <3>1, Refers DEF Heartbeat
    <2>2. /\ job' \in [JobId -> JobRow]
          /\ \A i \in JobId : i # Job(w) => job'[i] = job[i]
          /\ job'[Job(w)].status = "running"
          /\ job'[Job(w)].run = job[Job(w)].run
      <3>1. job' = [job EXCEPT ![Job(w)].expired = FALSE]
        BY <1>4 DEF Heartbeat
      <3> QED
        BY <1>0, <2>1, <3>1 DEF StoreTypeOK, JobRow
    <2>3. RowsKept
      BY <1>4, <2>1, <2>2, RowsOfJob DEF Heartbeat
    <2>4. WorkerTypeOK' /\ Linked'
      BY <1>4, <2>3, LocalKeeps DEF Heartbeat
    <2> QED
      BY <1>0, <1>4, <2>2, <2>4 DEF Heartbeat, StoreTypeOK
  <1>5. CASE LeaseLost(w)
    <2>1. /\ worker' \in [Workers -> WorkerRow]
          /\ \A v \in Workers : v # w => worker'[v] = worker[v]
          /\ worker'[w].pc = "idle"
          /\ worker'[w].job = 0
      BY <1>0, <1>5, ReleaseEffect DEF LeaseLost
    <2>2. /\ outbox' \in [Workers -> SUBSET Emission]
          /\ \A v \in Workers : v # w => outbox'[v] = outbox[v]
          /\ outbox'[w] \subseteq outbox[w]
      BY <1>0, <1>5 DEF LeaseLost, WorkerTypeOK
    <2>3. RowsKept
      BY <1>5, RowsSame DEF LeaseLost, store
    <2>4. LinkedWorker(w)'
      BY <2>1, <2>2, <2>3, DroppedLinked
    <2>5. Linked'
      BY <2>1, <2>2, <2>3, <2>4, LinkedKept
    <2> QED
      BY <1>0, <1>5, <2>1, <2>2, <2>5 DEF LeaseLost, store, StoreTypeOK, WorkerTypeOK
  <1> QED
    BY <1>1, <1>2, <1>3, <1>4, <1>5

\* Types of the writes after the handler.
LEMMA SettleTyped ==
  ASSUME Typed, NEW w \in Workers, UNCHANGED announcing, SettleStep(w)
  PROVE  CoreTyped'
  <1> USE DEF CoreTyped, ApiTypeOK
  <1>0. StoreTypeOK /\ WorkerTypeOK /\ ApiTypeOK
    BY DEF Typed, TypeOK
  <1>a. Busy(w)
    BY DEF SettleStep, CompleteJob, PromoteRun, RejectJob, FailRun, FailJob, RequeueRun,
           EmitRunFailed, At, Busy
  <1>b. Job(w) \in JobId /\ Run(w) \in Runs /\ Exists(Run(w)) /\ job[Job(w)].status # "absent"
    BY <1>a, Refers DEF Typed, Linked
  <1>c. ASSUME NEW status \in JobStatus, job' = Settled(Job(w), w, status), UNCHANGED run
        PROVE  RowsKept
    <2>1. /\ job' \in [JobId -> JobRow]
          /\ \A i \in JobId : i # Job(w) => job'[i] = job[i]
          /\ job'[Job(w)].run = job[Job(w)].run
          /\ Leased(Job(w), w) => job'[Job(w)].status = status
          /\ ~Leased(Job(w), w) => job' = job
      BY <1>0, <1>b, <1>c, SettledEffect
    <2>2. job'[Job(w)].status # "absent"
      BY <1>b, <2>1 DEF JobStatus
    <2> QED
      BY <1>b, <1>c, <2>1, <2>2, RowsOfJob
  <1>1. CASE CompleteJob(w)
    <2>1. RowsKept
      BY <1>1, <1>c DEF CompleteJob, JobStatus
    <2>2. "promoting" \in Pc \ {"idle", "dead", "draining"}
      BY DEF Pc, Settling
    <2>3. WorkerTypeOK' /\ Linked'
      BY <1>1, <1>a, <2>1, <2>2, GotoKeeps, ReleaseKeeps DEF CompleteJob
    <2> QED
      BY <1>0, <1>1, <2>1, <2>3 DEF CompleteJob, RowsKept, StoreTypeOK
  <1>2. CASE PromoteRun(w)
    <2>1. RowsKept
      BY <1>2, <1>b, RowsOfStatus DEF PromoteRun, RunStatus, TerminalStatus
    <2>2. WorkerTypeOK' /\ Linked'
      BY <1>2, <2>1, ReleaseKeeps DEF PromoteRun
    <2> QED
      BY <1>0, <1>2, <2>1, <2>2 DEF PromoteRun, RowsKept, StoreTypeOK
  <1>3. CASE RejectJob(w)
    <2>1. RowsKept
      BY <1>3, <1>c DEF RejectJob, JobStatus
    <2>2. "rejected" \in Pc \ {"idle", "dead", "draining"}
      BY DEF Pc, Settling
    <2>3. WorkerTypeOK' /\ Linked'
      BY <1>3, <1>a, <2>1, <2>2, GotoKeeps DEF RejectJob
    <2> QED
      BY <1>0, <1>3, <2>1, <2>3 DEF RejectJob, RowsKept, StoreTypeOK
  <1>4. CASE FailRun(w)
    <2>1. RowsKept
      BY <1>4, <1>b, RowsOfStatus DEF FailRun, RunStatus, TerminalStatus
    <2>2. "reporting" \in Pc \ {"idle", "dead", "draining"}
      BY DEF Pc, Settling
    <2>3. WorkerTypeOK' /\ Linked'
      BY <1>4, <1>a, <2>1, <2>2, GotoKeeps DEF FailRun
    <2> QED
      BY <1>0, <1>4, <2>1, <2>3 DEF FailRun, RowsKept, StoreTypeOK
  <1>5. CASE FailJob(w)
    <2>1. RowsKept
      BY <1>5, <1>c DEF FailJob, JobStatus
    <2>2. "retrying" \in Pc \ {"idle", "dead", "draining"}
      BY DEF Pc, Settling
    <2>3. WorkerTypeOK' /\ Linked'
      BY <1>5, <1>a, <2>1, <2>2, GotoKeeps DEF FailJob
    <2> QED
      BY <1>0, <1>5, <2>1, <2>3 DEF FailJob, RowsKept, StoreTypeOK
  <1>6. CASE RequeueRun(w)
    <2>1. PICK status \in {"failed", "queued"} : run' = SetRunStatus(Run(w), status, "worker")
      BY <1>6 DEF RequeueRun
    <2>2. RowsKept
      BY <1>6, <1>b, <2>1, RowsOfStatus DEF RequeueRun, RunStatus, TerminalStatus
    <2>3. "reporting" \in Pc \ {"idle", "dead", "draining"}
      BY DEF Pc, Settling
    <2>4. WorkerTypeOK' /\ Linked'
      BY <1>6, <1>a, <2>2, <2>3, GotoKeeps, ReleaseKeeps DEF RequeueRun
    <2> QED
      BY <1>0, <1>6, <2>2, <2>4 DEF RequeueRun, RowsKept, StoreTypeOK
  <1>7. CASE EmitRunFailed(w)
    <2>1. RowsKept
      BY <1>7, RowsSame DEF EmitRunFailed
    <2>2. WorkerTypeOK' /\ Linked'
      BY <1>7, <2>1, ReleaseKeeps DEF EmitRunFailed
    <2>3. log' \in [Runs -> Seq(Event)]
      BY <1>0, <1>7, <1>b, AppendTyped DEF EmitRunFailed, Event, TerminalEvent
    <2> QED
      BY <1>0, <1>7, <2>2, <2>3 DEF EmitRunFailed, StoreTypeOK
  <1> QED
    BY <1>1, <1>2, <1>3, <1>4, <1>5, <1>6, <1>7 DEF SettleStep

\* Types of a failing database call and of a dying process.
LEMMA FailureTyped ==
  ASSUME Typed, NEW w \in Workers, UNCHANGED announcing, DbFault(w) \/ Crash(w)
  PROVE  CoreTyped'
  <1> USE DEF CoreTyped, ApiTypeOK
  <1>0. StoreTypeOK /\ WorkerTypeOK /\ ApiTypeOK
    BY DEF Typed, TypeOK
  <1>1. RowsKept
    BY RowsSame DEF DbFault, Crash, store
  <1>2. StoreTypeOK'
    BY <1>0 DEF DbFault, Crash, store, StoreTypeOK
  <1>3. "failing" \in Pc \ {"idle", "dead", "draining"}
    BY DEF Pc, Settling
  <1>4. CASE worker[w].pc \in {"claimed", "reading", "resuming", "storing", "settling",
                               "promoting"} /\ Goto(w, "failing") /\ UNCHANGED outbox
    <2>1. Busy(w)
      BY <1>4 DEF Busy
    <2> QED
      BY <1>0, <1>1, <1>2, <1>3, <1>4, <2>1, GotoKeeps
  <1>5. CASE /\ worker[w].pc \in {"starting", "invoking", "asking"}
             /\ Finish(w, "draining", "retryable") /\ UNCHANGED outbox
    <2>1. Busy(w)
      BY <1>5 DEF Busy
    <2> QED
      BY <1>0, <1>1, <1>2, <1>5, <2>1, FinishKeeps
  <1>6. CASE /\ At(w, "draining")
             /\ \/ UNCHANGED outbox
                \/ \E e \in Own(w) : outbox' = [outbox EXCEPT ![w] = @ \ {e}]
             /\ Goto(w, "failing")
    <2>1. Busy(w)
      BY <1>6 DEF Busy, At
    <2>2. /\ worker' \in [Workers -> WorkerRow]
          /\ \A v \in Workers : v # w => worker'[v] = worker[v]
          /\ worker'[w].pc = "failing"
          /\ worker'[w].job = worker[w].job
      BY <1>0, <1>3, <1>6, GotoEffect
    <2>3. /\ outbox' \in [Workers -> SUBSET Emission]
          /\ \A v \in Workers : v # w => outbox'[v] = outbox[v]
          /\ outbox'[w] \subseteq outbox[w]
      BY <1>0, <1>6 DEF WorkerTypeOK
    <2>4. LinkedWorker(w)'
      BY <1>1, <2>1, <2>2, <2>3, StillLinked
    <2>5. Linked'
      BY <1>1, <2>2, <2>3, <2>4, LinkedKept
    <2> QED
      BY <1>0, <1>2, <2>2, <2>3, <2>5 DEF WorkerTypeOK
  <1>7. CASE Release(w) /\ UNCHANGED outbox
    BY <1>0, <1>1, <1>2, <1>7, ReleaseKeeps
  <1>8. CASE Crash(w)
    <2>1. [Idle EXCEPT !.pc = "dead"] = [pc |-> "dead", job |-> 0, attempt |-> 0,
                                         resume |-> None, asks |-> None,
                                         outcome |-> "none"]
      BY DEF Idle
    <2>2. [pc |-> "dead", job |-> 0, attempt |-> 0, resume |-> None, asks |-> None,
           outcome |-> "none"]
            \in WorkerRow
      BY DEF WorkerRow, Pc, Outcome
    <2>3. /\ worker' \in [Workers -> WorkerRow]
          /\ \A v \in Workers : v # w => worker'[v] = worker[v]
          /\ worker'[w].pc = "dead"
          /\ worker'[w].job = 0
      BY <1>0, <1>8, <2>1, <2>2 DEF Crash, WorkerTypeOK
    <2>4. /\ outbox' \in [Workers -> SUBSET Emission]
          /\ \A v \in Workers : v # w => outbox'[v] = outbox[v]
          /\ outbox'[w] \subseteq outbox[w]
      BY <1>0, <1>8 DEF Crash, WorkerTypeOK
    <2>5. LinkedWorker(w)'
      BY <1>1, <2>3, <2>4, DroppedLinked
    <2>6. Linked'
      BY <1>1, <2>3, <2>4, <2>5, LinkedKept
    <2> QED
      BY <1>0, <1>2, <2>3, <2>4, <2>6 DEF WorkerTypeOK
  <1> QED
    BY <1>4, <1>5, <1>6, <1>7, <1>8 DEF DbFault

\* A new job for an existing, or just created, run.
LEMMA RowsOfNewJob ==
  ASSUME Typed, NEW r \in Runs, NEW j \in JobId, NextJob(j),
         job' = [job EXCEPT ![j] = QueuedJob(r)],
         run' = [run EXCEPT ![r].status = "queued"]
  PROVE  RowsKept
  <1>0. StoreTypeOK
    BY DEF Typed, TypeOK
  <1>1. /\ job' \in [JobId -> JobRow]
        /\ \A i \in JobId : i # j => job'[i] = job[i]
        /\ job'[j].status = "queued"
        /\ job'[j].run = r
    BY <1>0, QueuedEffect
  <1>2. /\ run' \in [Runs -> RunRow]
        /\ \A s \in Runs : s # r => run'[s] = run[s]
        /\ run'[r].status = "queued"
    BY <1>0 DEF StoreTypeOK, RunRow, RunStatus
  <1> QED
    BY <1>1, <1>2 DEF Typed, Linked, Exists, RowsKept, NextJob

\* Types of the HTTP handlers.
LEMMA ApiTyped ==
  ASSUME Typed, NEW r \in Runs, UNCHANGED local,
         \/ CreateRun(r) \/ CancelRun(r) \/ AnnounceCancel(r) \/ LoseAnnouncement(r)
         \/ \E a \in Actions : \/ \E d \in Resolution : ResolveApproval(r, a, d)
                               \/ ExpireApproval(r, a)
  PROVE  CoreTyped'
  <1> USE DEF CoreTyped, ApiTypeOK
  <1>0. StoreTypeOK /\ WorkerTypeOK /\ ApiTypeOK
    BY DEF Typed, TypeOK
  <1>1. CASE CreateRun(r)
    <2>1. RowsKept
      BY <1>1, RowsOfNewJob DEF CreateRun
    <2>2. WorkerTypeOK' /\ Linked'
      BY <2>1, LocalKeeps
    <2> QED
      BY <1>0, <1>1, <2>1, <2>2 DEF CreateRun, RowsKept, StoreTypeOK
  <1>2. CASE CancelRun(r)
    <2>1. /\ run' \in [Runs -> RunRow]
          /\ \A s \in Runs : s # r => run'[s] = run[s]
          /\ run'[r].status = "cancelled"
      BY <1>0, <1>2 DEF CancelRun, StoreTypeOK, RunRow, RunStatus, TerminalStatus
    <2>2. RowsKept
      BY <1>2, <2>1, RowsOfRun DEF CancelRun
    <2>3. WorkerTypeOK' /\ Linked'
      BY <2>2, LocalKeeps
    <2> QED
      BY <1>0, <1>2, <2>1, <2>3 DEF CancelRun, StoreTypeOK
  <1>3. CASE AnnounceCancel(r)
    <2>1. RowsKept
      BY <1>3, RowsSame DEF AnnounceCancel
    <2>2. WorkerTypeOK' /\ Linked'
      BY <2>1, LocalKeeps
    <2>3. log' \in [Runs -> Seq(Event)]
      BY <1>0, <1>3, AppendTyped DEF AnnounceCancel, Event, TerminalEvent
    <2> QED
      BY <1>0, <1>3, <2>2, <2>3 DEF AnnounceCancel, StoreTypeOK
  <1>4. CASE LoseAnnouncement(r)
    <2>1. RowsKept
      BY <1>4, RowsSame DEF LoseAnnouncement, store
    <2>2. WorkerTypeOK' /\ Linked'
      BY <2>1, LocalKeeps
    <2> QED
      BY <1>0, <1>4, <2>2 DEF LoseAnnouncement, store, StoreTypeOK
  <1>5. ASSUME NEW a \in Actions, NEW d \in Resolution, ResolveApproval(r, a, d)
        PROVE  CoreTyped'
    <2>1. RowsKept
      <3>1. CASE UNCHANGED <<run, job>>
        BY <3>1, RowsSame
      <3>2. CASE /\ run' = [run EXCEPT ![r].status = "queued"]
                 /\ \E j \in JobId : NextJob(j) /\ job' = [job EXCEPT ![j] = QueuedJob(r)]
        BY <3>2, RowsOfNewJob
      <3> QED
        BY <1>5, <3>1, <3>2 DEF ResolveApproval
    <2>2. WorkerTypeOK' /\ Linked'
      BY <2>1, LocalKeeps
    <2>3. latest' \in [Runs -> Actions \cup {None}]
      BY <1>0, <1>5 DEF ResolveApproval, StoreTypeOK
    <2>4. approval' \in [Runs -> [Actions -> ApprovalStatus \cup {"absent"}]]
      BY <1>0, <1>5 DEF ResolveApproval, StoreTypeOK, ApprovalStatus
    <2> QED
      BY <1>0, <1>5, <2>1, <2>2, <2>3, <2>4 DEF ResolveApproval, RowsKept, StoreTypeOK
  <1>6. ASSUME NEW a \in Actions, ExpireApproval(r, a)
        PROVE  CoreTyped'
    <2>1. RowsKept
      BY <1>6, RowsSame DEF ExpireApproval
    <2>2. WorkerTypeOK' /\ Linked'
      BY <2>1, LocalKeeps
    <2>3. approval' \in [Runs -> [Actions -> ApprovalStatus \cup {"absent"}]]
      BY <1>0, <1>6 DEF ExpireApproval, StoreTypeOK, ApprovalStatus
    <2> QED
      BY <1>0, <1>6, <2>2, <2>3 DEF ExpireApproval, StoreTypeOK
  <1> QED
    BY <1>1, <1>2, <1>3, <1>4, <1>5, <1>6

\* Types of an expiring lease.
LEMMA LeaseTyped ==
  ASSUME Typed, NEW j \in JobId, LeaseExpires(j)
  PROVE  CoreTyped'
  <1> USE DEF CoreTyped, ApiTypeOK
  <1>0. StoreTypeOK /\ WorkerTypeOK /\ ApiTypeOK
    BY DEF Typed, TypeOK
  <1>1. job' = [job EXCEPT ![j].expired = TRUE] /\ job[j].status = "running"
    BY DEF LeaseExpires
  <1>2. /\ job' \in [JobId -> JobRow]
        /\ \A i \in JobId : i # j => job'[i] = job[i]
        /\ job'[j].status = "running"
        /\ job'[j].run = job[j].run
    BY <1>0, <1>1 DEF StoreTypeOK, JobRow
  <1>3. RowsKept
    BY <1>1, <1>2, RowsOfJob DEF LeaseExpires
  <1>4. WorkerTypeOK' /\ Linked'
    BY <1>3, LocalKeeps DEF LeaseExpires
  <1> QED
    BY <1>0, <1>2, <1>4 DEF LeaseExpires, StoreTypeOK

\* Typed is inductive.
LEMMA TypedStep == Typed /\ [Next]_vars => Typed'
  <1> SUFFICES ASSUME Typed, [Next]_vars
               PROVE  Typed'
    OBVIOUS
  <1>0. /\ StoreTypeOK /\ WorkerTypeOK /\ ApiTypeOK /\ Linked
        /\ stalls \in 0 .. MaxStalls /\ crashes \in 0 .. MaxCrashes /\ faults \in 0 .. MaxFaults
    BY DEF Typed, TypeOK
  <1>1. CoreTyped'
    <2>1. ASSUME NEW w \in Workers, WorkerStep(w) \/ Claim(w) \/ Persist(w) \/ Heartbeat(w)
                                    \/ LeaseLost(w) \/ DbFault(w) \/ Crash(w),
                 UNCHANGED announcing
          PROVE  CoreTyped'
      BY <2>1, StartTyped, GraphTyped, StoringTyped, SettleTyped, FailureTyped
      DEF WorkerStep, HandlerStep
    <2>2. CASE WorkerNext
      BY <2>1, <2>2 DEF WorkerNext
    <2>3. CASE ApiNext
      BY <2>3, ApiTyped DEF ApiNext
    <2>4. CASE \E j \in JobId : LeaseExpires(j)
      BY <2>4, LeaseTyped
    <2>5. CASE UNCHANGED vars
      <3>1. RowsKept
        BY <2>5, RowsSame DEF vars, store
      <3>2. WorkerTypeOK' /\ Linked'
        BY <2>5, <3>1, LocalKeeps DEF vars
      <3> QED
        BY <1>0, <2>5, <3>2 DEF vars, store, StoreTypeOK, ApiTypeOK, CoreTyped
    <2> QED
      BY <2>2, <2>3, <2>4, <2>5 DEF Next
  <1>2. /\ stalls' \in 0 .. MaxStalls
        /\ crashes' \in 0 .. MaxCrashes
        /\ faults' \in 0 .. MaxFaults
    BY <1>0, BoundAssumption
    DEF Next, WorkerNext, ApiNext, LeaseExpires, vars, bounds
  <1> QED
    BY <1>1, <1>2 DEF Typed, TypeOK, CoreTyped

\* Typed holds in every reachable state.
LEMMA TypedAlways == Spec => []Typed
  <1>1. Init => Typed
    BY TypedInit
  <1>2. Typed /\ [Next]_vars => Typed'
    BY TypedStep
  <1> QED
    BY <1>1, <1>2, PTL DEF Spec

\* Type correctness: every row, event and local variable has its type in
\* every reachable state, whatever interleaves and fails (run_once, the
\* repositories and the HTTP handlers).
THEOREM TypeCorrect == Spec => []TypeOK
  <1>1. Typed => TypeOK
    BY DEF Typed
  <1> QED
    BY <1>1, TypedAlways, PTL
=============================================================================

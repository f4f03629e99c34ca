---------------------------- MODULE FencingProofs ----------------------------
(***************************************************************************)
(* Leases and attempt counts: Fenced is inductive relative to Typed, and   *)
(* from it follow AttemptsDistinct and OnlyHolderSettles.                  *)
(***************************************************************************)
EXTENDS AgentRuntimeProofs

Guarded == Typed /\ Fenced

\* Every process that is busy after the step was busy with the same job, at
\* the same attempt, before it.
HoldsKept == \A v \in Workers :
               Busy(v)' => /\ Busy(v)
                           /\ worker'[v].job = worker[v].job
                           /\ worker'[v].attempt = worker[v].attempt

\* Jobs keep their attempt counts, and their owners or lose them.
LeasesKept ==
  \A j \in JobId : /\ job'[j].status = "running" <=> job'[j].owner # None
                   /\ job[j].status # "absent" =>
                        /\ job'[j].attempts = job[j].attempts
                        /\ job'[j].owner \in {job[j].owner, None}

\* A busy process holds a job, an idle one does not.
LEMMA BusyHolds ==
  ASSUME Typed, NEW w \in Workers
  PROVE  /\ Busy(w) <=> Job(w) # 0
         /\ Busy(w) => Job(w) \in JobId /\ job[Job(w)].status # "absent"
  <1>1. Job(w) \in JobId \cup {0}
    BY WorkerFields DEF Typed, TypeOK, Job
  <1> QED
    BY <1>1 DEF Typed, Linked

\* All steps but Claim preserve Fenced for one reason: holds and leases are
\* only ever kept or given up.
LEMMA FencedKept ==
  ASSUME Guarded, Typed', HoldsKept, LeasesKept
  PROVE  Fenced'
  <1>1. ASSUME NEW w \in Workers, Busy(w)'
        PROVE  /\ worker'[w].attempt <= job'[Job(w)'].attempts
               /\ job'[Job(w)'].owner = w => worker'[w].attempt = job'[Job(w)'].attempts
    <2>1. /\ Busy(w) /\ Job(w)' = Job(w)
          /\ worker'[w].attempt = worker[w].attempt
      BY <1>1 DEF HoldsKept, Job
    <2>2. Job(w) \in JobId /\ job[Job(w)].status # "absent"
      BY <2>1, BusyHolds DEF Guarded
    <2>3. /\ worker[w].attempt <= job[Job(w)].attempts
          /\ job[Job(w)].owner = w => worker[w].attempt = job[Job(w)].attempts
      BY <2>1 DEF Guarded, Fenced
    <2>4. w # None
      BY StoreAssumption
    <2> QED
      BY <2>1, <2>2, <2>3, <2>4 DEF LeasesKept
  <1>2. AttemptsDistinct'
    <2> SUFFICES ASSUME NEW v \in Workers, NEW w \in Workers, v # w,
                        Job(v)' # 0, Job(v)' = Job(w)'
                 PROVE  worker'[v].attempt # worker'[w].attempt
      BY DEF AttemptsDistinct
    <2>1. \A u \in Workers : Busy(u)' <=> Job(u)' # 0
      <3>1. \A u \in Workers : Job(u)' \in JobId \cup {0}
        BY DEF Typed, TypeOK, WorkerTypeOK, WorkerRow, Job
      <3> QED
        BY <3>1 DEF Typed, Linked
    <2>2. /\ Busy(v) /\ Job(v)' = Job(v) /\ worker'[v].attempt = worker[v].attempt
          /\ Busy(w) /\ Job(w)' = Job(w) /\ worker'[w].attempt = worker[w].attempt
      BY <2>1 DEF HoldsKept, Job
    <2> QED
      BY <2>2 DEF Guarded, Fenced, AttemptsDistinct
  <1>3. \A j \in JobId : job'[j].status = "running" <=> job'[j].owner # None
    BY DEF LeasesKept
  <1> QED
    BY <1>1, <1>2, <1>3 DEF Fenced

\* What a move of one process does to what processes hold.
LEMMA MoveHolds ==
  ASSUME WorkerTypeOK, NEW w \in Workers, NEW pc, NEW outcome, Busy(w),
         Goto(w, pc) \/ Finish(w, pc, outcome)
  PROVE  HoldsKept
  BY DEF WorkerTypeOK, WorkerRow, Goto, Finish, HoldsKept, Busy

\* A process that lets go of its job, or dies, takes hold of none.
LEMMA DropHolds ==
  ASSUME WorkerTypeOK, NEW w \in Workers, NEW row,
         worker' = [worker EXCEPT ![w] = row], row.pc \in {"idle", "dead"}
  PROVE  HoldsKept
  BY DEF WorkerTypeOK, HoldsKept, Busy

\* No process moves, no hold changes.
LEMMA SameHolds ==
  ASSUME UNCHANGED worker
  PROVE  HoldsKept
  BY DEF HoldsKept, Busy

\* No job is written, no lease changes.
LEMMA SameLeases ==
  ASSUME Guarded, UNCHANGED job
  PROVE  LeasesKept
  BY DEF Guarded, Fenced, LeasesKept

\* Settling a job gives up its lease and counts nothing.
LEMMA SettledLeases ==
  ASSUME Guarded, NEW j \in JobId, NEW w \in Workers, NEW status \in JobStatus \ {"running"},
         job' = Settled(j, w, status)
  PROVE  LeasesKept
  <1>1. /\ \A i \in JobId : i # j => job'[i] = job[i]
        /\ Leased(j, w) => job'[j].status = status /\ job'[j].owner = None
        /\ ~Leased(j, w) => job' = job
        /\ job'[j].attempts = job[j].attempts
    BY SettledEffect DEF Guarded, Typed, TypeOK
  <1>2. \A i \in JobId : job[i].status = "running" <=> job[i].owner # None
    BY DEF Guarded, Fenced
  <1> QED
    BY <1>1, <1>2 DEF LeasesKept

\* The steps of a process that holds a job.
LEMMA HeldSteps ==
  ASSUME Guarded, NEW w \in Workers,
         WorkerStep(w) \/ Persist(w) \/ Heartbeat(w) \/ LeaseLost(w) \/ DbFault(w) \/ Crash(w)
  PROVE  HoldsKept /\ LeasesKept
  <1>0. StoreTypeOK /\ WorkerTypeOK
    BY DEF Guarded, Typed, TypeOK
  <1>1. CASE HandlerStep(w)
    <2>1. UNCHANGED job
      BY <1>1 DEF HandlerStep, SetRunning, ReadRun, ReadForResume, CheckStarted, InvokeGraph,
                  ResumeGraph, GraphCompletes, GraphFails, GraphCancelled, RequestApproval,
                  Interrupt, Drained, StoreOutcome, store
    <2>2. Busy(w)
      BY <1>1 DEF HandlerStep, SetRunning, ReadRun, ReadForResume, CheckStarted, InvokeGraph,
                  ResumeGraph, GraphCompletes, GraphFails, GraphCancelled, RequestApproval,
                  Interrupt, Drained, StoreOutcome, At, Busy
    <2>3. \/ \E pc \in Pc : \E outcome \in Outcome : Goto(w, pc) \/ Finish(w, pc, outcome)
          \/ worker' = [worker EXCEPT ![w].pc = "starting", ![w].resume = latest[Run(w)]]
          \/ \E a \in Actions : worker' = [worker EXCEPT ![w].pc = "asking", ![w].asks = a]
      <3>1. CASE SetRunning(w) \/ CheckStarted(w) \/ InvokeGraph(w) \/ ResumeGraph(w)
                 \/ Drained(w)
        BY <3>1 DEF SetRunning, CheckStarted, InvokeGraph, ResumeGraph, Drained,
                    Pc, Handling, Outcome
      <3>2. CASE GraphCompletes(w) \/ GraphFails(w) \/ GraphCancelled(w) \/ Interrupt(w)
        BY <3>2 DEF GraphCompletes, GraphFails, GraphCancelled, Interrupt, Pc, Handling, Outcome
      <3>3. CASE ReadRun(w)
        BY <3>3 DEF ReadRun, Terminal, TerminalStatus, Pc, Handling, Settling, Outcome
      <3>4. CASE ReadForResume(w)
        BY <3>4 DEF ReadForResume, Pc, Handling, Settling, Outcome
      <3>5. CASE StoreOutcome(w)
        BY <3>5 DEF StoreOutcome, Pc, Settling, Outcome
      <3>6. CASE RequestApproval(w)
        BY <3>6 DEF RequestApproval
      <3> QED
        BY <1>1, <3>1, <3>2, <3>3, <3>4, <3>5, <3>6 DEF HandlerStep
    <2>4. HoldsKept
      <3>1. CASE \E pc \in Pc : \E outcome \in Outcome : Goto(w, pc) \/ Finish(w, pc, outcome)
        BY <1>0, <2>2, <3>1, MoveHolds
      <3>2. CASE worker' = [worker EXCEPT ![w].pc = "starting", ![w].resume = latest[Run(w)]]
        BY <1>0, <2>2, <3>2 DEF WorkerTypeOK, WorkerRow, HoldsKept, Busy
      <3>3. CASE \E a \in Actions : worker' = [worker EXCEPT ![w].pc = "asking", ![w].asks = a]
        BY <1>0, <2>2, <3>3 DEF WorkerTypeOK, WorkerRow, HoldsKept, Busy
      <3> QED
        BY <2>3, <3>1, <3>2, <3>3
    <2> QED
      BY <2>1, <2>4, SameLeases
  <1>2. CASE SettleStep(w)
    <2>1. Busy(w)
      BY <1>2 DEF SettleStep, CompleteJob, PromoteRun, RejectJob, FailRun, FailJob, RequeueRun,
                  EmitRunFailed, At, Busy
    <2>2. \/ \E pc \in Pc : Goto(w, pc)
          \/ Release(w)
      BY <1>2 DEF SettleStep, CompleteJob, PromoteRun, RejectJob, FailRun, FailJob, RequeueRun,
                  EmitRunFailed, Pc, Settling
    <2>3. HoldsKept
      <3>1. CASE \E pc \in Pc : Goto(w, pc)
        BY <1>0, <2>1, <3>1, MoveHolds
      <3>2. CASE Release(w)
        BY <1>0, <3>2, DropHolds DEF Release, Idle
      <3> QED
        BY <2>2, <3>1, <3>2
    <2>4. \/ UNCHANGED job
          \/ \E status \in JobStatus \ {"running"} : job' = Settled(Job(w), w, status)
      BY <1>2 DEF SettleStep, CompleteJob, PromoteRun, RejectJob, FailRun, FailJob, RequeueRun,
                  EmitRunFailed, JobStatus
    <2>5. Job(w) \in JobId
      BY <2>1, BusyHolds DEF Guarded
    <2> QED
      BY <2>3, <2>4, <2>5, SameLeases, SettledLeases
  <1>3. CASE Persist(w)
    BY <1>3, SameHolds, SameLeases DEF Persist
  <1>4. CASE Heartbeat(w)
    <2>1. HoldsKept
      BY <1>4, SameHolds DEF Heartbeat, local
    <2>2. job' = [job EXCEPT ![Job(w)].expired = FALSE]
      BY <1>4 DEF Heartbeat
    <2>3. \A j \in JobId : /\ job'[j].status = job[j].status
                           /\ job'[j].owner = job[j].owner
                           /\ job'[j].attempts = job[j].attempts
      BY <1>0, <2>2 DEF StoreTypeOK, JobRow
    <2> QED
      BY <2>1, <2>3 DEF Guarded, Fenced, LeasesKept
  <1>5. CASE LeaseLost(w)
    BY <1>0, <1>5, DropHolds, SameLeases DEF LeaseLost, Release, Idle, store
  <1>6. CASE DbFault(w)
    <2>1. UNCHANGED job
      BY <1>6 DEF DbFault, store
    <2>2. Busy(w)
      BY <1>6 DEF DbFault, At, Busy, Settling
    <2>3. \/ Goto(w, "failing")
          \/ Finish(w, "draining", "retryable")
          \/ Release(w)
      BY <1>6 DEF DbFault
    <2>4. HoldsKept
      <3>1. CASE Goto(w, "failing") \/ Finish(w, "draining", "retryable")
        BY <1>0, <2>2, <3>1, MoveHolds
      <3>2. CASE Release(w)
        BY <1>0, <3>2, DropHolds DEF Release, Idle
      <3> QED
        BY <2>3, <3>1, <3>2
    <2> QED
      BY <2>1, <2>4, SameLeases
  <1>7. CASE Crash(w)
    BY <1>0, <1>7, DropHolds, SameLeases DEF Crash, Idle, store
  <1> QED
    BY <1>1, <1>2, <1>3, <1>4, <1>5, <1>6, <1>7 DEF WorkerStep

\* The steps of the API and of the clock.
LEMMA OutsideSteps ==
  ASSUME Guarded, ApiNext \/ \E j \in JobId : LeaseExpires(j)
  PROVE  HoldsKept /\ LeasesKept
  <1>0. StoreTypeOK
    BY DEF Guarded, Typed, TypeOK
  <1>1. HoldsKept
    BY SameHolds DEF ApiNext, LeaseExpires, local
  <1>2. ASSUME NEW r \in Runs, NEW j \in JobId, NextJob(j), job' = [job EXCEPT ![j] = QueuedJob(r)]
        PROVE  LeasesKept
    <2>1. /\ \A i \in JobId : i # j => job'[i] = job[i]
          /\ job'[j].status = "queued" /\ job'[j].owner = None
      BY <1>0, <1>2, QueuedEffect
    <2> QED
      BY <1>2, <2>1 DEF Guarded, Fenced, LeasesKept, NextJob
  <1>3. CASE ApiNext
    <2>1. \/ UNCHANGED job
          \/ \E r \in Runs : \E j \in JobId : NextJob(j) /\ job' = [job EXCEPT ![j] = QueuedJob(r)]
      BY <1>3 DEF ApiNext, CreateRun, CancelRun, AnnounceCancel, LoseAnnouncement,
                  ResolveApproval, ExpireApproval, store
    <2> QED
      BY <1>1, <1>2, <2>1, SameLeases
  <1>4. ASSUME NEW j \in JobId, LeaseExpires(j)
        PROVE  LeasesKept
    <2>1. job' = [job EXCEPT ![j].expired = TRUE]
      BY <1>4 DEF LeaseExpires
    <2>2. \A i \in JobId : /\ job'[i].status = job[i].status
                           /\ job'[i].owner = job[i].owner
                           /\ job'[i].attempts = job[i].attempts
      BY <1>0, <2>1 DEF StoreTypeOK, JobRow
    <2> QED
      BY <2>2 DEF Guarded, Fenced, LeasesKept
  <1> QED
    BY <1>1, <1>3, <1>4

\* A claim counts past every attempt any process still holds of the job.
LEMMA ClaimStep ==
  ASSUME Guarded, Typed', NEW w \in Workers, Claim(w)
  PROVE  /\ Fenced'
         /\ \A i \in JobId : job[i].status = "running" => job'[i].status = "running"
  <1>0. StoreTypeOK /\ WorkerTypeOK
    BY DEF Guarded, Typed, TypeOK
  <1>1. PICK j \in JobId : /\ Claimable(j)
                           /\ job' = ClaimedBy(j, w)
                           /\ worker' = [worker EXCEPT ![w] = Claimed(j, job[j].attempts + 1)]
    BY DEF Claim
  <1>2. /\ \A i \in JobId : i # j => job'[i] = job[i]
        /\ job'[j].status = "running"
        /\ job'[j].owner = w
        /\ job'[j].attempts = job[j].attempts + 1
    BY <1>0, <1>1, ClaimedEffect
  <1>3. /\ \A v \in Workers : v # w => worker'[v] = worker[v]
        /\ worker'[w].job = j
        /\ worker'[w].attempt = job[j].attempts + 1
        /\ worker'[w].pc = "claimed"
    BY <1>0, <1>1 DEF WorkerTypeOK, Claimed
  <1>4. \A i \in JobId : job[i].attempts \in Nat
    BY <1>0, JobFields
  <1>5. w # None
    BY StoreAssumption
  <1>6. \A i \in JobId : job'[i].status = "running" <=> job'[i].owner # None
    BY <1>2, <1>5 DEF Guarded, Fenced
  <1>7. ASSUME NEW v \in Workers, v # w, Busy(v)
        PROVE  /\ worker'[v] = worker[v] /\ Job(v) \in JobId
               /\ worker[v].attempt \in Nat
               /\ worker[v].attempt <= job[Job(v)].attempts
               /\ job[Job(v)].owner = v => worker[v].attempt = job[Job(v)].attempts
    BY <1>0, <1>3, <1>7, BusyHolds, WorkerFields DEF Guarded, Fenced
  <1>8. ASSUME NEW v \in Workers, Busy(v)'
        PROVE  /\ worker'[v].attempt <= job'[Job(v)'].attempts
               /\ job'[Job(v)'].owner = v => worker'[v].attempt = job'[Job(v)'].attempts
    <2>1. CASE v = w
      <3>1. Job(v)' = j
        BY <1>3, <2>1 DEF Job
      <3> QED
        BY <1>2, <1>3, <1>4, <2>1, <3>1
    <2>2. CASE v # w
      <3>1. Busy(v)
        BY <1>3, <1>8, <2>2 DEF Busy
      <3>2. Job(v)' = Job(v) /\ worker'[v].attempt = worker[v].attempt
        BY <1>7, <2>2, <3>1 DEF Job
      <3>3. CASE Job(v) = j
        BY <1>2, <1>4, <1>7, <2>2, <3>1, <3>2, <3>3
      <3>4. CASE Job(v) # j
        BY <1>2, <1>7, <2>2, <3>1, <3>2, <3>4
      <3> QED
        BY <3>3, <3>4
    <2> QED
      BY <2>1, <2>2
  <1>9. AttemptsDistinct'
    <2>1. ASSUME NEW v \in Workers, v # w, Job(v)' = j
          PROVE  worker'[v].attempt # worker'[w].attempt
      <3>1. Job(v) = j
        BY <1>3, <2>1 DEF Job
      <3>2. Busy(v)
        <4>1. j # 0
          BY StoreAssumption DEF JobId
        <4> QED
          BY <3>1, <4>1, BusyHolds DEF Guarded
      <3>3. worker[v].attempt <= job[j].attempts /\ worker[v].attempt \in Nat
        BY <1>7, <2>1, <3>1, <3>2
      <3>4. worker'[v].attempt = worker[v].attempt
        BY <1>3, <2>1
      <3> QED
        BY <1>3, <1>4, <3>3, <3>4
    <2>2. Job(w)' = j
      BY <1>3 DEF Job
    <2>3. \A u, v \in Workers : u # w /\ v # w /\ u # v /\ Job(v)' # 0 /\ Job(v)' = Job(u)'
                                => worker'[v].attempt # worker'[u].attempt
      BY <1>3 DEF Guarded, Fenced, AttemptsDistinct, Job
    <2> QED
      BY <2>1, <2>2, <2>3 DEF AttemptsDistinct
  <1> QED
    BY <1>2, <1>6, <1>8, <1>9 DEF Fenced

\* Guarded is inductive.
LEMMA FencedStep == Guarded /\ [Next]_vars => Guarded'
  <1> SUFFICES ASSUME Guarded, [Next]_vars
               PROVE  Guarded'
    OBVIOUS
  <1>1. Typed'
    BY TypedStep DEF Guarded
  <1>2. CASE WorkerNext
    BY <1>1, <1>2, ClaimStep, HeldSteps, FencedKept DEF WorkerNext, Guarded
  <1>3. CASE ApiNext \/ \E j \in JobId : LeaseExpires(j)
    BY <1>1, <1>3, OutsideSteps, FencedKept DEF Guarded
  <1>4. CASE UNCHANGED vars
    BY <1>1, <1>4, SameHolds, SameLeases, FencedKept DEF Guarded, vars, store, local
  <1> QED
    BY <1>2, <1>3, <1>4 DEF Next

\* It holds of an empty database.
LEMMA FencedInit == Init => Guarded
  <1>1. Init => Fenced
    BY DEF Init, StoreInit, WorkerInit, Fenced, AttemptsDistinct, NoJob, Idle, Busy, Job
  <1> QED
    BY <1>1, TypedInit DEF Guarded

\* It holds in every reachable state.
LEMMA FencedAlways == Spec => []Guarded
  <1>1. Init => Guarded
    BY FencedInit
  <1>2. Guarded /\ [Next]_vars => Guarded'
    BY FencedStep
  <1> QED
    BY <1>1, <1>2, PTL DEF Spec

\* However leases run out and claims overtake each other, two processes that
\* work on one job do so at different attempts (claim_next).
THEOREM AttemptsAlwaysDistinct == Spec => []AttemptsDistinct
  <1>1. Guarded => AttemptsDistinct
    BY DEF Guarded, Fenced
  <1> QED
    BY <1>1, FencedAlways, PTL

\* A job leaves "running" only by the hand of the process that made its
\* latest claim (complete, fail, _fail_without_retry).
LEMMA OnlyHolderStep ==
  ASSUME Guarded, [Next]_vars, NEW j \in JobId,
         job[j].status = "running", job'[j].status # "running"
  PROVE  \E w \in Workers : /\ job[j].owner = w
                            /\ Job(w) = j
                            /\ worker[w].attempt = job[j].attempts
  <1>0. StoreTypeOK /\ Typed'
    BY TypedStep DEF Guarded, Typed, TypeOK
  <1>1. ASSUME NEW w \in Workers, SettleStep(w), ~ UNCHANGED job
        PROVE  /\ Busy(w) /\ Job(w) = j /\ job[j].owner = w
               /\ worker[w].attempt = job[j].attempts
    <2>1. Busy(w)
      BY <1>1 DEF SettleStep, CompleteJob, PromoteRun, RejectJob, FailRun, FailJob, RequeueRun,
                  EmitRunFailed, At, Busy
    <2>2. Job(w) \in JobId
      BY <2>1, BusyHolds DEF Guarded
    <2>3. PICK status \in JobStatus : job' = Settled(Job(w), w, status)
      BY <1>1 DEF SettleStep, CompleteJob, PromoteRun, RejectJob, FailRun, FailJob, RequeueRun,
                  EmitRunFailed, JobStatus
    <2>4. /\ \A i \in JobId : i # Job(w) => job'[i] = job[i]
          /\ ~Leased(Job(w), w) => job' = job
      BY <1>0, <2>2, <2>3, SettledEffect
    <2>5. Job(w) = j /\ job[j].owner = w
      BY <2>2, <2>4 DEF Leased
    <2> QED
      BY <2>1, <2>5 DEF Guarded, Fenced
  <1>2. ASSUME NEW w \in Workers, Heartbeat(w)
        PROVE  FALSE
    <2>1. job' = [job EXCEPT ![Job(w)].expired = FALSE]
      BY <1>2 DEF Heartbeat
    <2> QED
      BY <1>0, <2>1 DEF StoreTypeOK, JobRow
  <1>3. ASSUME NEW i \in JobId, LeaseExpires(i)
        PROVE  FALSE
    <2>1. job' = [job EXCEPT ![i].expired = TRUE]
      BY <1>3 DEF LeaseExpires
    <2> QED
      BY <1>0, <2>1 DEF StoreTypeOK, JobRow
  <1>4. ASSUME NEW r \in Runs, NEW i \in JobId, NextJob(i), job' = [job EXCEPT ![i] = QueuedJob(r)]
        PROVE  FALSE
    <2>1. \A k \in JobId : k # i => job'[k] = job[k]
      BY <1>0, <1>4, QueuedEffect
    <2> QED
      BY <1>4, <2>1 DEF NextJob
  <1>5. ASSUME NEW w \in Workers, Claim(w)
        PROVE  FALSE
    BY <1>0, <1>5, ClaimStep
  <1>6. ASSUME UNCHANGED job
        PROVE  FALSE
    BY <1>6
  <1>7. CASE WorkerNext
    <2>1. PICK w \in Workers :
            Claim(w) \/ WorkerStep(w) \/ Persist(w) \/ Heartbeat(w) \/ LeaseLost(w)
              \/ DbFault(w) \/ Crash(w)
      BY <1>7 DEF WorkerNext
    <2>2. HandlerStep(w) \/ Persist(w) \/ LeaseLost(w) \/ DbFault(w) \/ Crash(w) => UNCHANGED job
      BY DEF HandlerStep, SetRunning, ReadRun, ReadForResume, CheckStarted, InvokeGraph,
             ResumeGraph, GraphCompletes, GraphFails, GraphCancelled, RequestApproval, Interrupt,
             Drained, StoreOutcome, Persist, LeaseLost, DbFault, Crash, store
    <2> QED
      BY <1>1, <1>2, <1>5, <1>6, <2>1, <2>2 DEF WorkerStep
  <1>8. CASE ApiNext
    <2>1. \/ UNCHANGED job
          \/ \E r \in Runs : \E i \in JobId : NextJob(i) /\ job' = [job EXCEPT ![i] = QueuedJob(r)]
      BY <1>8 DEF ApiNext, CreateRun, CancelRun, AnnounceCancel, LoseAnnouncement,
                  ResolveApproval, ExpireApproval, store
    <2> QED
      BY <1>4, <1>6, <2>1
  <1>9. CASE UNCHANGED vars
    BY <1>6, <1>9 DEF vars, store
  <1> QED
    BY <1>3, <1>7, <1>8, <1>9 DEF Next

\* The same for every step of every behaviour: a process that lost its lease
\* never settles the job its successor works on.
THEOREM OnlyTheHolderSettles == Spec => OnlyHolderSettles
  <1>1. Guarded /\ [Next]_vars
        => [\A j \in JobId :
              job[j].status = "running" /\ job'[j].status # "running"
              => \E w \in Workers : /\ job[j].owner = w
                                    /\ Job(w) = j
                                    /\ worker[w].attempt = job[j].attempts]_vars
    BY OnlyHolderStep
  <1> QED
    BY <1>1, FencedAlways, PTL DEF Spec, OnlyHolderSettles
-----------------------------------------------------------------------------
(* Exclusive: while no lease has run out under a live worker. *)

\* The program counters of a worker that relies on its lease.
Relying == Handling \cup {"claimed"}

\* The invariant of this part.
Excluded == Guarded /\ Exclusive

\* A step moves at most one process, which was alive.
LEMMA OneMoves ==
  ASSUME Typed, [Next]_vars
  PROVE  \/ UNCHANGED worker
         \/ \E w \in Workers : /\ worker[w].pc # "dead"
                               /\ \A v \in Workers : v # w => worker'[v] = worker[v]
  <1>0. worker \in [Workers -> WorkerRow]
    BY DEF Typed, TypeOK, WorkerTypeOK
  <1>1. CASE WorkerNext
    <2>1. PICK w \in Workers :
            Claim(w) \/ WorkerStep(w) \/ Persist(w) \/ Heartbeat(w) \/ LeaseLost(w)
              \/ DbFault(w) \/ Crash(w)
      BY <1>1 DEF WorkerNext
    <2>2. UNCHANGED worker \/ \E row : worker' = [worker EXCEPT ![w] = row]
      BY <1>0, <2>1
      DEF WorkerStep, HandlerStep, SettleStep, Claim, Persist, Heartbeat, LeaseLost, DbFault,
          Crash, SetRunning, ReadRun, ReadForResume, CheckStarted, InvokeGraph, ResumeGraph,
          GraphCompletes, GraphFails, GraphCancelled, RequestApproval, Interrupt, Drained,
          StoreOutcome, CompleteJob, PromoteRun, RejectJob, FailRun, FailJob, RequeueRun,
          EmitRunFailed, Goto, Finish, Release, local
    <2>3. UNCHANGED worker \/ worker[w].pc # "dead"
      BY <2>1
      DEF WorkerStep, HandlerStep, SettleStep, Claim, Persist, Heartbeat, LeaseLost, DbFault,
          Crash, SetRunning, ReadRun, ReadForResume, CheckStarted, InvokeGraph, ResumeGraph,
          GraphCompletes, GraphFails, GraphCancelled, RequestApproval, Interrupt, Drained,
          StoreOutcome, CompleteJob, PromoteRun, RejectJob, FailRun, FailJob, RequeueRun,
          EmitRunFailed, At, Handling, Settling, local
    <2> QED
      BY <1>0, <2>2, <2>3
  <1>2. CASE ApiNext \/ (\E j \in JobId : LeaseExpires(j)) \/ UNCHANGED vars
    BY <1>2 DEF ApiNext, LeaseExpires, local, vars
  <1> QED
    BY <1>1, <1>2 DEF Next

\* A process that relies on its lease after a step other than its claim did so
\* before.
LEMMA ReliedBefore ==
  ASSUME Typed, [Next]_vars, NEW w \in Workers, ~Claim(w), worker'[w].pc \in Relying
  PROVE  worker[w].pc \in Relying
  <1>0. worker \in [Workers -> WorkerRow]
    BY DEF Typed, TypeOK, WorkerTypeOK
  <1>1. CASE worker'[w] = worker[w]
    BY <1>1
  <1>2. ASSUME NEW v \in Workers,
               WorkerStep(v) \/ Persist(v) \/ Heartbeat(v) \/ LeaseLost(v) \/ DbFault(v) \/ Crash(v),
               worker'[w] # worker[w]
        PROVE  worker[w].pc \in Relying
    <2>1. CASE HandlerStep(v)
      <3>1. worker[v].pc \in Relying
        BY <2>1
        DEF HandlerStep, SetRunning, ReadRun, ReadForResume, CheckStarted, InvokeGraph,
            ResumeGraph, GraphCompletes, GraphFails, GraphCancelled, RequestApproval, Interrupt,
            Drained, StoreOutcome, At, Handling, Relying
      <3>2. \E row : worker' = [worker EXCEPT ![v] = row]
        BY <1>0, <2>1
        DEF HandlerStep, SetRunning, ReadRun, ReadForResume, CheckStarted, InvokeGraph,
            ResumeGraph, GraphCompletes, GraphFails, GraphCancelled, RequestApproval, Interrupt,
            Drained, StoreOutcome, Goto, Finish
      <3> QED
        BY <1>0, <1>2, <3>1, <3>2
    <2>2. CASE SettleStep(v)
      <3>1. \/ \E pc \in {"promoting", "rejected", "reporting", "retrying"} : Goto(v, pc)
            \/ Release(v)
        BY <2>2 DEF SettleStep, CompleteJob, PromoteRun, RejectJob, FailRun, FailJob, RequeueRun,
                    EmitRunFailed
      <3> QED
        BY <1>0, <1>2, <3>1 DEF Goto, Release, Idle, WorkerRow, Relying, Handling
    <2>3. CASE Persist(v) \/ Heartbeat(v)
      BY <1>2, <2>3 DEF Persist, Heartbeat, local
    <2>4. CASE LeaseLost(v) \/ Crash(v)
      BY <1>0, <1>2, <2>4 DEF LeaseLost, Crash, Release, Idle, Relying, Handling
    <2>5. CASE DbFault(v)
      <3>1. \/ Goto(v, "failing") \/ Release(v)
            \/ /\ worker[v].pc \in {"starting", "invoking", "asking"}
               /\ Finish(v, "draining", "retryable")
        BY <2>5 DEF DbFault
      <3> QED
        BY <1>0, <1>2, <3>1 DEF Goto, Finish, Release, Idle, WorkerRow, Relying, Handling
    <2> QED
      BY <1>2, <2>1, <2>2, <2>3, <2>4, <2>5 DEF WorkerStep
  <1>3. CASE WorkerNext
    <2>1. PICK v \in Workers :
            Claim(v) \/ WorkerStep(v) \/ Persist(v) \/ Heartbeat(v) \/ LeaseLost(v)
              \/ DbFault(v) \/ Crash(v)
      BY <1>3 DEF WorkerNext
    <2>2. CASE Claim(v)
      BY <1>0, <1>1, <2>2 DEF Claim
    <2> QED
      BY <1>1, <1>2, <2>1, <2>2
  <1>4. CASE ApiNext \/ (\E j \in JobId : LeaseExpires(j)) \/ UNCHANGED vars
    BY <1>1, <1>4 DEF ApiNext, LeaseExpires, local, vars
  <1> QED
    BY <1>3, <1>4 DEF Next

\* Who gives up a lease no longer relies on it.
LEMMA LeaseGivenUp ==
  ASSUME Guarded, [Next]_vars, NEW j \in JobId, \A w \in Workers : ~Claim(w),
         job[j].status # "absent", job'[j].owner # job[j].owner
  PROVE  \E w \in Workers : job[j].owner = w /\ worker'[w].pc \notin Relying
  <1>0. StoreTypeOK /\ WorkerTypeOK
    BY DEF Guarded, Typed, TypeOK
  <1>1. ASSUME NEW w \in Workers, SettleStep(w), ~ UNCHANGED job
        PROVE  job[j].owner = w /\ worker'[w].pc \notin Relying
    <2>1. Busy(w)
      BY <1>1 DEF SettleStep, CompleteJob, PromoteRun, RejectJob, FailRun, FailJob, RequeueRun,
                  EmitRunFailed, At, Busy
    <2>2. Job(w) \in JobId
      BY <2>1, BusyHolds DEF Guarded
    <2>3. PICK status \in JobStatus : job' = Settled(Job(w), w, status)
      BY <1>1 DEF SettleStep, CompleteJob, PromoteRun, RejectJob, FailRun, FailJob, RequeueRun,
                  EmitRunFailed, JobStatus
    <2>4. /\ \A i \in JobId : i # Job(w) => job'[i] = job[i]
          /\ ~Leased(Job(w), w) => job' = job
      BY <1>0, <2>2, <2>3, SettledEffect
    <2>5. \/ \E pc \in {"promoting", "rejected", "reporting", "retrying"} : Goto(w, pc)
          \/ Release(w)
      BY <1>1 DEF SettleStep, CompleteJob, PromoteRun, RejectJob, FailRun, FailJob, RequeueRun,
                  EmitRunFailed
    <2>6. worker'[w].pc \notin Relying
      BY <1>0, <2>5 DEF WorkerTypeOK, WorkerRow, Goto, Release, Idle, Relying, Handling
    <2> QED
      BY <2>2, <2>4, <2>6 DEF Leased
  <1>2. ASSUME NEW w \in Workers, Heartbeat(w)
        PROVE  FALSE
    <2>1. job' = [job EXCEPT ![Job(w)].expired = FALSE]
      BY <1>2 DEF Heartbeat
    <2> QED
      BY <1>0, <2>1 DEF StoreTypeOK, JobRow
  <1>3. ASSUME NEW i \in JobId, LeaseExpires(i)
        PROVE  FALSE
    <2>1. job' = [job EXCEPT ![i].expired = TRUE]
      BY <1>3 DEF LeaseExpires
    <2> QED
      BY <1>0, <2>1 DEF StoreTypeOK, JobRow
  <1>4. CASE WorkerNext
    <2>1. PICK w \in Workers :
            WorkerStep(w) \/ Persist(w) \/ Heartbeat(w) \/ LeaseLost(w) \/ DbFault(w) \/ Crash(w)
      BY <1>4 DEF WorkerNext
    <2>2. HandlerStep(w) \/ Persist(w) \/ LeaseLost(w) \/ DbFault(w) \/ Crash(w) => UNCHANGED job
      BY DEF HandlerStep, SetRunning, ReadRun, ReadForResume, CheckStarted, InvokeGraph,
             ResumeGraph, GraphCompletes, GraphFails, GraphCancelled, RequestApproval, Interrupt,
             Drained, StoreOutcome, Persist, LeaseLost, DbFault, Crash, store
    <2> QED
      BY <1>1, <1>2, <2>1, <2>2 DEF WorkerStep
  <1>5. CASE ApiNext
    <2>1. \/ UNCHANGED job
          \/ \E r \in Runs : \E i \in JobId : NextJob(i) /\ job' = [job EXCEPT ![i] = QueuedJob(r)]
      BY <1>5 DEF ApiNext, CreateRun, CancelRun, AnnounceCancel, LoseAnnouncement,
                  ResolveApproval, ExpireApproval, store
    <2> QED
      BY <1>0, <2>1, QueuedEffect DEF NextJob
  <1>6. CASE UNCHANGED vars
    BY <1>6 DEF vars, store
  <1> QED
    BY <1>3, <1>4, <1>5, <1>6 DEF Next

\* Only the clock lets a lease run out.
LEMMA ExpiredBefore ==
  ASSUME Guarded, [Next]_vars, NEW j \in JobId, ~LeaseExpires(j), job'[j].expired
  PROVE  job[j].expired
  <1>0. StoreTypeOK
    BY DEF Guarded, Typed, TypeOK
  <1>1. ASSUME NEW w \in Workers, SettleStep(w)
        PROVE  job[j].expired
    <2>1. \/ UNCHANGED job
          \/ \E status \in JobStatus : job' = Settled(Job(w), w, status)
      BY <1>1 DEF SettleStep, CompleteJob, PromoteRun, RejectJob, FailRun, FailJob, RequeueRun,
                  EmitRunFailed, JobStatus
    <2> QED
      BY <1>0, <2>1 DEF StoreTypeOK, JobRow, Settled
  <1>2. ASSUME NEW w \in Workers, Heartbeat(w)
        PROVE  job[j].expired
    <2>1. job' = [job EXCEPT ![Job(w)].expired = FALSE]
      BY <1>2 DEF Heartbeat
    <2> QED
      BY <1>0, <2>1 DEF StoreTypeOK, JobRow
  <1>3. ASSUME NEW i \in JobId, LeaseExpires(i)
        PROVE  job[j].expired
    <2>1. job' = [job EXCEPT ![i].expired = TRUE] /\ i # j
      BY <1>3 DEF LeaseExpires
    <2> QED
      BY <1>0, <2>1 DEF StoreTypeOK, JobRow
  <1>4. ASSUME NEW w \in Workers, Claim(w)
        PROVE  job[j].expired
    BY <1>0, <1>4, ClaimedEffect DEF Claim
  <1>5. CASE WorkerNext
    <2>1. PICK w \in Workers :
            Claim(w) \/ WorkerStep(w) \/ Persist(w) \/ Heartbeat(w) \/ LeaseLost(w)
              \/ DbFault(w) \/ Crash(w)
      BY <1>5 DEF WorkerNext
    <2>2. HandlerStep(w) \/ Persist(w) \/ LeaseLost(w) \/ DbFault(w) \/ Crash(w) => UNCHANGED job
      BY DEF HandlerStep, SetRunning, ReadRun, ReadForResume, CheckStarted, InvokeGraph,
             ResumeGraph, GraphCompletes, GraphFails, GraphCancelled, RequestApproval, Interrupt,
             Drained, StoreOutcome, Persist, LeaseLost, DbFault, Crash, store
    <2> QED
      BY <1>1, <1>2, <1>4, <2>1, <2>2 DEF WorkerStep
  <1>6. CASE ApiNext
    <2>1. \/ UNCHANGED job
          \/ \E r \in Runs : \E i \in JobId : NextJob(i) /\ job' = [job EXCEPT ![i] = QueuedJob(r)]
      BY <1>6 DEF ApiNext, CreateRun, CancelRun, AnnounceCancel, LoseAnnouncement,
                  ResolveApproval, ExpireApproval, store
    <2> QED
      BY <1>0, <2>1, QueuedEffect
  <1>7. CASE UNCHANGED vars
    BY <1>7 DEF vars, store
  <1> QED
    BY <1>3, <1>5, <1>6, <1>7 DEF Next

\* Only a claim makes a job running.
LEMMA RunningBefore ==
  ASSUME Guarded, [Next]_vars, NEW j \in JobId, \A w \in Workers : ~Claim(w),
         job'[j].status = "running"
  PROVE  job[j].status = "running"
  <1>0. StoreTypeOK
    BY DEF Guarded, Typed, TypeOK
  <1>1. ASSUME NEW w \in Workers, SettleStep(w)
        PROVE  job[j].status = "running"
    <2>1. \/ UNCHANGED job
          \/ \E status \in JobStatus \ {"running"} : job' = Settled(Job(w), w, status)
      BY <1>1 DEF SettleStep, CompleteJob, PromoteRun, RejectJob, FailRun, FailJob, RequeueRun,
                  EmitRunFailed, JobStatus
    <2> QED
      BY <1>0, <2>1 DEF StoreTypeOK, JobRow, Settled
  <1>2. ASSUME NEW w \in Workers, Heartbeat(w)
        PROVE  job[j].status = "running"
    <2>1. job' = [job EXCEPT ![Job(w)].expired = FALSE]
      BY <1>2 DEF Heartbeat
    <2> QED
      BY <1>0, <2>1 DEF StoreTypeOK, JobRow
  <1>3. ASSUME NEW i \in JobId, LeaseExpires(i)
        PROVE  job[j].status = "running"
    <2>1. job' = [job EXCEPT ![i].expired = TRUE]
      BY <1>3 DEF LeaseExpires
    <2> QED
      BY <1>0, <2>1 DEF StoreTypeOK, JobRow
  <1>4. CASE WorkerNext
    <2>1. PICK w \in Workers :
            WorkerStep(w) \/ Persist(w) \/ Heartbeat(w) \/ LeaseLost(w) \/ DbFault(w) \/ Crash(w)
      BY <1>4 DEF WorkerNext
    <2>2. HandlerStep(w) \/ Persist(w) \/ LeaseLost(w) \/ DbFault(w) \/ Crash(w) => UNCHANGED job
      BY DEF HandlerStep, SetRunning, ReadRun, ReadForResume, CheckStarted, InvokeGraph,
             ResumeGraph, GraphCompletes, GraphFails, GraphCancelled, RequestApproval, Interrupt,
             Drained, StoreOutcome, Persist, LeaseLost, DbFault, Crash, store
    <2> QED
      BY <1>1, <1>2, <2>1, <2>2 DEF WorkerStep
  <1>5. CASE ApiNext
    <2>1. \/ UNCHANGED job
          \/ \E r \in Runs : \E i \in JobId : NextJob(i) /\ job' = [job EXCEPT ![i] = QueuedJob(r)]
      BY <1>5 DEF ApiNext, CreateRun, CancelRun, AnnounceCancel, LoseAnnouncement,
                  ResolveApproval, ExpireApproval, store
    <2> QED
      BY <1>0, <2>1, QueuedEffect
  <1>6. CASE UNCHANGED vars
    BY <1>6 DEF vars, store
  <1> QED
    BY <1>3, <1>4, <1>5, <1>6 DEF Next

\* Stalls are only ever counted up.
LEMMA StallsCounted ==
  ASSUME Typed, [Next]_vars
  PROVE  stalls \in Nat /\ stalls' \in {stalls, stalls + 1}
  BY BoundAssumption
  DEF Typed, TypeOK, Next, WorkerNext, ApiNext, LeaseExpires, vars, bounds

\* What Exclusive says of one job and of one process.
ExpiredDead(j) == job[j].status = "running" /\ job[j].expired => At(job[j].owner, "dead")
RelyOwns(w)    == worker[w].pc \in Relying => job[Job(w)].owner = w

\* A process takes over the lease of a dead one only, and takes it from nobody
\* who relies on it.
LEMMA ClaimExcludes ==
  ASSUME Excluded, NEW w \in Workers, Claim(w), stalls = 0
  PROVE  /\ \A j \in JobId : ExpiredDead(j)'
         /\ \A v \in Workers : RelyOwns(v)'
  <1>0. StoreTypeOK /\ WorkerTypeOK /\ Guarded
    BY DEF Excluded, Guarded, Typed, TypeOK
  <1>1. PICK j \in JobId : /\ Claimable(j)
                           /\ job' = ClaimedBy(j, w)
                           /\ worker' = [worker EXCEPT ![w] = Claimed(j, job[j].attempts + 1)]
    BY DEF Claim
  <1>2. /\ \A i \in JobId : i # j => job'[i] = job[i]
        /\ job'[j].owner = w /\ job'[j].expired = FALSE
    BY <1>0, <1>1, ClaimedEffect
  <1>3. /\ \A v \in Workers : v # w => worker'[v] = worker[v]
        /\ worker'[w].job = j /\ worker'[w].pc = "claimed"
    BY <1>0, <1>1 DEF WorkerTypeOK, Claimed
  <1>4. \A v \in Workers : At(v, "dead") => At(v, "dead")'
    BY <1>3 DEF Claim, At
  <1>5. \A i \in JobId : job[i].status = "running" => job[i].owner \in Workers
    BY <1>0, JobFields DEF Guarded, Fenced
  <1>6. ASSUME NEW i \in JobId
        PROVE  ExpiredDead(i)'
    <2>1. ExpiredDead(i)
      BY DEF Excluded, Exclusive, ExpiredDead
    <2> QED
      BY <1>2, <1>4, <1>5, <2>1 DEF ExpiredDead, At
  <1>7. ASSUME NEW v \in Workers
        PROVE  RelyOwns(v)'
    <2>1. CASE v = w
      BY <1>2, <1>3, <2>1 DEF RelyOwns, Job
    <2>2. CASE v # w
      <3> SUFFICES ASSUME worker[v].pc \in Relying
                   PROVE  job'[Job(v)].owner = v
        BY <1>3, <2>2 DEF RelyOwns, Job
      <3>1. job[Job(v)].owner = v /\ Job(v) \in JobId /\ ~At(v, "dead")
        <4>1. Busy(v)
          BY DEF Busy, Relying, Handling
        <4> QED
          BY <1>0, <4>1, BusyHolds DEF Excluded, Exclusive, Relying, Guarded, At, Busy
      <3>2. Job(v) # j
        <4>1. job[j].status = "running" /\ job[j].expired => At(job[j].owner, "dead")
          BY DEF Excluded, Exclusive
        <4>2. job[j].status # "running" => job[j].owner = None
          BY <1>0 DEF Guarded, Fenced
        <4>3. v # None
          BY StoreAssumption
        <4> QED
          BY <1>1, <3>1, <4>1, <4>2, <4>3 DEF Claimable
      <3> QED
        BY <1>2, <3>1, <3>2
    <2> QED
      BY <2>1, <2>2
  <1> QED
    BY <1>6, <1>7

\* Excluded is inductive.
LEMMA ExclusiveStep == Excluded /\ [Next]_vars => Excluded'
  <1> SUFFICES ASSUME Excluded, [Next]_vars
               PROVE  Excluded'
    OBVIOUS
  <1>0. StoreTypeOK /\ WorkerTypeOK /\ Guarded /\ Typed
    BY DEF Excluded, Guarded, Typed, TypeOK
  <1>1. Guarded'
    BY <1>0, FencedStep
  <1>2. ASSUME stalls' = 0
        PROVE  /\ \A j \in JobId : ExpiredDead(j)'
               /\ \A v \in Workers : RelyOwns(v)'
    <2>1. stalls = 0
      BY <1>0, <1>2, StallsCounted
    <2>2. CASE \E w \in Workers : Claim(w)
      BY <2>1, <2>2, ClaimExcludes
    <2>3. CASE \A w \in Workers : ~Claim(w)
      <3>1. HoldsKept /\ LeasesKept
        <4>1. CASE WorkerNext
          BY <1>0, <2>3, <4>1, HeldSteps DEF WorkerNext
        <4>2. CASE ApiNext \/ \E j \in JobId : LeaseExpires(j)
          BY <1>0, <4>2, OutsideSteps
        <4>3. CASE UNCHANGED vars
          BY <1>0, <4>3, SameHolds, SameLeases DEF vars, store, local
        <4> QED
          BY <4>1, <4>2, <4>3 DEF Next
      <3>2. ASSUME NEW j \in JobId
            PROVE  ExpiredDead(j)'
        <4> SUFFICES ASSUME job'[j].status = "running", job'[j].expired
                     PROVE  worker'[job'[j].owner].pc = "dead"
          BY DEF ExpiredDead, At
        <4>1. CASE LeaseExpires(j)
          <5>1. worker[job[j].owner].pc = "dead"
            BY <1>0, <1>2, <2>1, <4>1 DEF LeaseExpires, At
          <5>2. job'[j].owner = job[j].owner /\ worker' = worker
            BY <1>0, <4>1 DEF LeaseExpires, StoreTypeOK, JobRow, local
          <5> QED
            BY <5>1, <5>2
        <4>2. CASE ~LeaseExpires(j)
          <5>1. job[j].expired
            BY <1>0, <4>2, ExpiredBefore
          <5>2. job[j].status # "absent"
            BY <1>0, <2>3, RunningBefore
          <5>3. job[j].status = "running" /\ job'[j].owner = job[j].owner
                /\ job[j].owner \in Workers
            BY <1>0, <3>1, <5>2, JobFields DEF LeasesKept, Guarded, Fenced
          <5>4. worker[job[j].owner].pc = "dead"
            BY <2>1, <5>1, <5>3 DEF Excluded, Exclusive, At
          <5> QED
            BY <1>0, <5>3, <5>4, OneMoves
        <4> QED
          BY <4>1, <4>2
      <3>3. ASSUME NEW v \in Workers
            PROVE  RelyOwns(v)'
        <4> SUFFICES ASSUME worker'[v].pc \in Relying
                     PROVE  job'[Job(v)'].owner = v
          BY DEF RelyOwns
        <4>1. worker[v].pc \in Relying
          BY <1>0, <2>3, ReliedBefore
        <4>2. Job(v)' = Job(v) /\ Job(v) \in JobId /\ job[Job(v)].status # "absent"
          <5>1. Busy(v)' /\ Busy(v)
            BY <4>1 DEF Busy, Relying, Handling
          <5> QED
            BY <1>0, <3>1, <5>1, BusyHolds DEF HoldsKept, Job
        <4>3. job[Job(v)].owner = v
          BY <2>1, <4>1 DEF Excluded, Exclusive, Relying
        <4>4. job'[Job(v)].owner = job[Job(v)].owner
          BY <1>0, <2>3, <4>2, <4>3, LeaseGivenUp
        <4> QED
          BY <4>2, <4>3, <4>4
      <3> QED
        BY <3>2, <3>3
    <2> QED
      BY <2>2, <2>3
  <1>3. Exclusive'
    BY <1>2 DEF Exclusive, ExpiredDead, RelyOwns, Relying
  <1> QED
    BY <1>1, <1>3 DEF Excluded

\* No lease has run out while every row is empty and every process idle.
LEMMA ExclusiveInit == Init => Excluded
  <1>1. Init => Exclusive
    BY DEF Init, StoreInit, WorkerInit, Exclusive, NoJob, Idle, Handling
  <1> QED
    BY <1>1, FencedInit DEF Excluded

\* It holds in every reachable state.
LEMMA ExclusiveAlways == Spec => []Excluded
  <1>1. Init => Excluded
    BY ExclusiveInit
  <1>2. Excluded /\ [Next]_vars => Excluded'
    BY ExclusiveStep
  <1> QED
    BY <1>1, <1>2, PTL DEF Spec

\* Two handlers never run for one job unless a lease ran out under a live
\* worker (claim_next takes over expired leases only).
THEOREM HandlersExclude == Spec => []ExclusiveUnlessStalled
  <1>1. Excluded => ExclusiveUnlessStalled
    <2> SUFFICES ASSUME Excluded, stalls = 0, NEW v \in Workers, NEW w \in Workers, v # w,
                        worker[v].pc \in Handling, worker[w].pc \in Handling
                 PROVE  Job(v) # Job(w)
      BY DEF ExclusiveUnlessStalled
    <2> QED
      BY DEF Excluded, Exclusive
  <1> QED
    BY <1>1, ExclusiveAlways, PTL
-----------------------------------------------------------------------------
(* What a step does to a run's status and to a job. *)

\* A terminal status is never overwritten, whoever writes last.
LEMMA TerminalStays ==
  ASSUME Typed, [Next]_vars, NEW r \in Runs, Terminal(r)
  PROVE  run'[r].status = run[r].status
  <1>0. StoreTypeOK
    BY DEF Typed, TypeOK
  <1>1. ASSUME NEW s \in Runs, NEW status \in RunStatus, NEW error \in {"none", "attempt", "worker"},
               run' = SetRunStatus(s, status, error) \/ run' = UpdateRun(s, status, error)
        PROVE  run'[r].status = run[r].status
    BY <1>0, <1>1, RunWriteEffect DEF RunWritable
  <1>2. ASSUME NEW w \in Workers, HandlerStep(w)
        PROVE  run'[r].status = run[r].status
    <2>1. CASE SetRunning(w)
      <3>1. Run(w) \in Runs
        BY <2>1, Refers DEF SetRunning, At, Busy
      <3> QED
        BY <1>1, <2>1, <3>1 DEF SetRunning, RunStatus
    <2>2. CASE StoreOutcome(w)
      <3>1. Run(w) \in Runs
        BY <2>2, Refers DEF StoreOutcome, At, Busy
      <3>2. PersistedStatus(worker[w].outcome) \in RunStatus
        BY <2>2 DEF Typed, Linked, StoreOutcome, At, PersistedStatus, RunStatus, TerminalStatus
      <3> QED
        BY <1>1, <2>2, <3>1, <3>2 DEF StoreOutcome, PersistedError
    <2> QED
      BY <1>2, <2>1, <2>2
      DEF HandlerStep, ReadRun, ReadForResume, CheckStarted, InvokeGraph, ResumeGraph,
          GraphCompletes, GraphFails, GraphCancelled, RequestApproval, Interrupt, Drained, store
  <1>3. ASSUME NEW w \in Workers, SettleStep(w)
        PROVE  run'[r].status = run[r].status
    <2>1. Run(w) \in Runs
      BY <1>3, Refers DEF SettleStep, CompleteJob, PromoteRun, RejectJob, FailRun, FailJob,
                          RequeueRun, EmitRunFailed, At, Busy
    <2>2. UNCHANGED run \/ \E status \in RunStatus : \E error \in {"none", "worker"} :
                             run' = SetRunStatus(Run(w), status, error)
      BY <1>3 DEF SettleStep, CompleteJob, PromoteRun, RejectJob, FailRun, FailJob,
                  RequeueRun, EmitRunFailed, RunStatus, TerminalStatus
    <2> QED
      BY <1>1, <2>1, <2>2
  <1>4. CASE WorkerNext
    <2>1. PICK w \in Workers :
            Claim(w) \/ WorkerStep(w) \/ Persist(w) \/ Heartbeat(w) \/ LeaseLost(w)
              \/ DbFault(w) \/ Crash(w)
      BY <1>4 DEF WorkerNext
    <2>2. Claim(w) \/ Persist(w) \/ Heartbeat(w) \/ LeaseLost(w) \/ DbFault(w) \/ Crash(w)
            => UNCHANGED run
      BY DEF Claim, Persist, Heartbeat, LeaseLost, DbFault, Crash, store
    <2> QED
      BY <1>2, <1>3, <2>1, <2>2 DEF WorkerStep
  <1>5. CASE ApiNext
    <2>1. \/ UNCHANGED run
          \/ \E s \in Runs : \E status \in RunStatus :
               run' = [run EXCEPT ![s].status = status] /\ ~Terminal(s)
      BY <1>5 DEF ApiNext, CreateRun, CancelRun, AnnounceCancel, LoseAnnouncement, ResolveApproval,
                  ExpireApproval, store, Exists, Terminal, RunStatus, TerminalStatus
    <2> QED
      BY <1>0, <2>1 DEF StoreTypeOK, RunRow
  <1>6. CASE (\E j \in JobId : LeaseExpires(j)) \/ UNCHANGED vars
    BY <1>6 DEF LeaseExpires, vars, store
  <1> QED
    BY <1>4, <1>5, <1>6 DEF Next

\* What one step can do to an existing job: leave it to its owner, give it to
\* a new one, or let the owner settle it.
LEMMA JobMoves ==
  ASSUME Guarded, [Next]_vars, NEW j \in JobId, job[j].status # "absent"
  PROVE  /\ job'[j].run = job[j].run
         /\ \/ /\ job'[j].owner = job[j].owner
               /\ job'[j].status = job[j].status
               /\ job'[j].attempts = job[j].attempts
            \/ /\ job'[j].status = "running"
               /\ job'[j].attempts = job[j].attempts + 1
            \/ /\ job'[j].attempts = job[j].attempts
               /\ \E v \in Workers : /\ job[j].owner = v /\ Job(v) = j /\ Busy(v)
                                     /\ worker'[v] # worker[v]
  <1>0. StoreTypeOK /\ WorkerTypeOK
    BY DEF Guarded, Typed, TypeOK
  <1>1. CASE UNCHANGED job
    BY <1>1
  <1>2. ASSUME NEW w \in Workers, SettleStep(w), ~ UNCHANGED job
        PROVE  /\ job'[j].run = job[j].run
               /\ job'[j].attempts = job[j].attempts
               /\ job'[j] = job[j] \/ /\ job[j].owner = w /\ Job(w) = j /\ Busy(w)
                                      /\ worker'[w] # worker[w]
    <2>1. Busy(w)
      BY <1>2 DEF SettleStep, CompleteJob, PromoteRun, RejectJob, FailRun, FailJob, RequeueRun,
                  EmitRunFailed, At, Busy
    <2>2. Job(w) \in JobId
      BY <2>1, BusyHolds DEF Guarded
    <2>3. PICK status \in JobStatus : job' = Settled(Job(w), w, status)
      BY <1>2 DEF SettleStep, CompleteJob, PromoteRun, RejectJob, FailRun, FailJob, RequeueRun,
                  EmitRunFailed, JobStatus
    <2>4. /\ \A i \in JobId : i # Job(w) => job'[i] = job[i]
          /\ ~Leased(Job(w), w) => job' = job
          /\ job'[Job(w)].run = job[Job(w)].run
          /\ job'[Job(w)].attempts = job[Job(w)].attempts
      BY <1>0, <2>2, <2>3, SettledEffect
    <2>5. worker'[w] # worker[w]
      <3>1. \/ worker[w].pc = "settling" /\ (Goto(w, "promoting") \/ Release(w))
            \/ worker[w].pc = "rejecting" /\ Goto(w, "rejected")
            \/ worker[w].pc = "failing" /\ Goto(w, "retrying")
        BY <1>2 DEF SettleStep, CompleteJob, PromoteRun, RejectJob, FailRun, FailJob, RequeueRun,
                    EmitRunFailed, At
      <3> QED
        BY <1>0, <3>1 DEF WorkerTypeOK, WorkerRow, Goto, Release, Idle
    <2> QED
      BY <2>1, <2>4, <2>5 DEF Leased
  <1>3. ASSUME NEW w \in Workers, Heartbeat(w)
        PROVE  /\ job'[j].run = job[j].run /\ job'[j].owner = job[j].owner
               /\ job'[j].status = job[j].status /\ job'[j].attempts = job[j].attempts
    <2>1. job' = [job EXCEPT ![Job(w)].expired = FALSE]
      BY <1>3 DEF Heartbeat
    <2> QED
      BY <1>0, <2>1 DEF StoreTypeOK, JobRow
  <1>4. ASSUME NEW i \in JobId, LeaseExpires(i)
        PROVE  /\ job'[j].run = job[j].run /\ job'[j].owner = job[j].owner
               /\ job'[j].status = job[j].status /\ job'[j].attempts = job[j].attempts
    <2>1. job' = [job EXCEPT ![i].expired = TRUE]
      BY <1>4 DEF LeaseExpires
    <2> QED
      BY <1>0, <2>1 DEF StoreTypeOK, JobRow
  <1>5. ASSUME NEW w \in Workers, Claim(w)
        PROVE  /\ job'[j].run = job[j].run
               /\ \/ job'[j] = job[j]
                  \/ job'[j].status = "running" /\ job'[j].attempts = job[j].attempts + 1
    BY <1>0, <1>5, ClaimedEffect DEF Claim
  <1>6. CASE WorkerNext
    <2>1. PICK w \in Workers :
            Claim(w) \/ WorkerStep(w) \/ Persist(w) \/ Heartbeat(w) \/ LeaseLost(w)
              \/ DbFault(w) \/ Crash(w)
      BY <1>6 DEF WorkerNext
    <2>2. HandlerStep(w) \/ Persist(w) \/ LeaseLost(w) \/ DbFault(w) \/ Crash(w) => UNCHANGED job
      BY DEF HandlerStep, SetRunning, ReadRun, ReadForResume, CheckStarted, InvokeGraph,
             ResumeGraph, GraphCompletes, GraphFails, GraphCancelled, RequestApproval, Interrupt,
             Drained, StoreOutcome, Persist, LeaseLost, DbFault, Crash, store
    <2> QED
      BY <1>1, <1>2, <1>3, <1>5, <2>1, <2>2 DEF WorkerStep
  <1>7. CASE ApiNext
    <2>1. \/ UNCHANGED job
          \/ \E r \in Runs : \E i \in JobId : NextJob(i) /\ job' = [job EXCEPT ![i] = QueuedJob(r)]
      BY <1>7 DEF ApiNext, CreateRun, CancelRun, AnnounceCancel, LoseAnnouncement,
                  ResolveApproval, ExpireApproval, store
    <2> QED
      BY <1>0, <2>1, QueuedEffect DEF NextJob
  <1>8. CASE UNCHANGED vars
    BY <1>8 DEF vars, store
  <1> QED
    BY <1>4, <1>6, <1>7, <1>8 DEF Next

-----------------------------------------------------------------------------
(* Owned: why a requeued run still has a job. *)

\* The job of a process has been claimed again since.
Overtaken(w) == worker[w].attempt < job[Job(w)].attempts

\* While it has not given its job up, a process owns it or was overtaken; a
\* job it gave up with attempts left is waiting, unless the run has ended.
Owned(w) ==
  /\ worker[w].pc \in {"claimed", "settling", "rejecting"} \cup Handling
       => job[Job(w)].owner = w \/ Overtaken(w)
  /\ At(w, "failing") => job[Job(w)].owner = w \/ Overtaken(w) \/ Terminal(Run(w))
  /\ At(w, "promoting") \/ (At(w, "settling") /\ worker[w].outcome = "completed")
       => Terminal(Run(w))
  /\ At(w, "retrying") /\ ~Exhausted(w)
       => \/ job[Job(w)].status \in {"queued", "retry_wait", "running"}
          \/ Overtaken(w)
          \/ Terminal(Run(w))

\* The invariant of this part.
Budgeted == Guarded /\ \A w \in Workers : Owned(w)

\* What the others do to the job of a process that does not move leaves it
\* owned, or overtakes it.
LEMMA OwnedKept ==
  ASSUME Guarded, [Next]_vars, NEW w \in Workers, Owned(w), worker'[w] = worker[w]
  PROVE  Owned(w)'
  <1> SUFFICES ASSUME Busy(w)
               PROVE  Owned(w)'
    BY DEF Owned, Busy, At, Handling
  <1>0. StoreTypeOK /\ Typed
    BY DEF Guarded, Typed, TypeOK
  <1>1. /\ Job(w) \in JobId /\ job[Job(w)].status # "absent"
        /\ Run(w) \in Runs
        /\ worker[w].attempt \in Nat /\ job[Job(w)].attempts \in Nat
    BY <1>0, BusyHolds, Refers, WorkerFields, JobFields DEF Guarded, Typed, TypeOK
  <1>2. /\ worker[w].attempt <= job[Job(w)].attempts
        /\ \A v \in Workers : v # w /\ Busy(v) /\ Job(v) = Job(w) /\ job[Job(w)].owner = v
                              => Overtaken(w)
    <2>1. worker[w].attempt <= job[Job(w)].attempts
      BY DEF Guarded, Fenced
    <2>2. ASSUME NEW v \in Workers, v # w, Busy(v), Job(v) = Job(w), job[Job(w)].owner = v
          PROVE  Overtaken(w)
      <3>1. worker[v].attempt = job[Job(w)].attempts
        BY <2>2 DEF Guarded, Fenced
      <3>2. worker[v].attempt # worker[w].attempt
        BY <1>1, <2>2, BusyHolds DEF Guarded, Fenced, AttemptsDistinct
      <3> QED
        BY <1>1, <2>1, <3>1, <3>2 DEF Overtaken
    <2> QED
      BY <2>1, <2>2
  <1>3. Job(w)' = Job(w) /\ Busy(w)'
    BY DEF Job, Busy
  <1>4. job'[Job(w)].run = job[Job(w)].run
    BY <1>1, JobMoves
  <1>5. Run(w)' = Run(w)
    BY <1>3, <1>4 DEF Run, Job
  <1>6. Terminal(Run(w)) => Terminal(Run(w))'
    BY <1>0, <1>1, <1>5, TerminalStays DEF Terminal
  <1>7. \/ /\ job'[Job(w)].owner = job[Job(w)].owner
           /\ job'[Job(w)].status = job[Job(w)].status
           /\ job'[Job(w)].attempts = job[Job(w)].attempts
        \/ Overtaken(w)'
    <2>1. CASE job'[Job(w)].attempts = job[Job(w)].attempts + 1
      BY <1>1, <1>2, <1>3, <2>1 DEF Overtaken
    <2>2. CASE /\ job'[Job(w)].attempts = job[Job(w)].attempts
               /\ \E v \in Workers : /\ job[Job(w)].owner = v /\ Job(v) = Job(w) /\ Busy(v)
                                     /\ worker'[v] # worker[v]
      <3>1. Overtaken(w)
        BY <1>2, <2>2
      <3> QED
        BY <1>3, <2>2, <3>1 DEF Overtaken
    <2> QED
      BY <1>1, <2>1, <2>2, JobMoves
  <1>8. CASE Overtaken(w)'
    BY <1>5, <1>6, <1>8 DEF Owned, At
  <1>9. CASE /\ job'[Job(w)].owner = job[Job(w)].owner
             /\ job'[Job(w)].status = job[Job(w)].status
             /\ job'[Job(w)].attempts = job[Job(w)].attempts
    BY <1>3, <1>5, <1>6, <1>9 DEF Owned, At, Overtaken, Exhausted
  <1> QED
    BY <1>7, <1>8, <1>9

\* A process that moves while it holds a job.
LEMMA OwnedHandler ==
  ASSUME Budgeted, [Next]_vars, NEW w \in Workers, HandlerStep(w)
  PROVE  Owned(w)'
  <1>0. StoreTypeOK /\ WorkerTypeOK /\ Guarded /\ Typed /\ Owned(w)
    BY DEF Budgeted, Guarded, Typed, TypeOK
  <1>1. /\ Busy(w) /\ UNCHANGED job
        /\ worker[w].pc \in {"claimed"} \cup Handling
    BY DEF HandlerStep, SetRunning, ReadRun, ReadForResume, CheckStarted, InvokeGraph,
           ResumeGraph, GraphCompletes, GraphFails, GraphCancelled, RequestApproval, Interrupt,
           Drained, StoreOutcome, store, At, Busy, Handling
  <1>2. worker'[w].job = worker[w].job /\ worker'[w].attempt = worker[w].attempt /\ Busy(w)'
    <2>1. Guarded'
      BY <1>0, FencedStep
    <2>2. worker'[w].pc \notin {"idle", "dead"}
      BY <1>0 DEF WorkerTypeOK, WorkerRow, HandlerStep, SetRunning, ReadRun, ReadForResume,
           CheckStarted, InvokeGraph, ResumeGraph, GraphCompletes, GraphFails, GraphCancelled,
           RequestApproval, Interrupt, Drained, StoreOutcome, Goto, Finish
    <2>3. HoldsKept
      BY <1>0, HeldSteps DEF WorkerStep
    <2> QED
      BY <2>2, <2>3 DEF HoldsKept, Busy
  <1>3. job[Job(w)].owner = w \/ Overtaken(w)
    BY <1>0, <1>1 DEF Owned
  <1>4. (job[Job(w)].owner = w \/ Overtaken(w))'
    BY <1>1, <1>2, <1>3 DEF Overtaken, Job
  <1>5. worker'[w].pc \notin {"promoting", "retrying"}
    BY <1>0 DEF WorkerTypeOK, WorkerRow, HandlerStep, SetRunning, ReadRun, ReadForResume,
         CheckStarted, InvokeGraph, ResumeGraph, GraphCompletes, GraphFails, GraphCancelled,
         RequestApproval, Interrupt, Drained, StoreOutcome, Goto, Finish
  <1>6. Run(w)' = Run(w) /\ Run(w) \in Runs
    BY <1>0, <1>1, <1>2, Refers DEF Run
  <1>7. ASSUME worker'[w].pc = "settling", worker'[w].outcome = "completed"
        PROVE  Terminal(Run(w))'
    <2>1. ReadRun(w) \/ ReadForResume(w) \/ StoreOutcome(w)
      BY <1>0, <1>7 DEF WorkerTypeOK, WorkerRow, HandlerStep, SetRunning,
           CheckStarted, InvokeGraph, ResumeGraph, GraphCompletes, GraphFails, GraphCancelled,
           RequestApproval, Interrupt, Drained, Goto, Finish
    <2>2. CASE ReadRun(w)
      <3>1. Terminal(Run(w)) /\ UNCHANGED run
        BY <1>0, <1>7, <2>2 DEF ReadRun, Finish, Goto, WorkerTypeOK, WorkerRow, store
      <3> QED
        BY <1>6, <3>1 DEF Terminal
    <2>3. CASE ReadForResume(w)
      BY <1>0, <1>7, <2>3 DEF ReadForResume, Finish, Goto, WorkerTypeOK, WorkerRow
    <2>4. CASE StoreOutcome(w)
      <3>1. worker[w].outcome = "completed"
        BY <1>0, <1>7, <2>4 DEF StoreOutcome, Goto, WorkerTypeOK, WorkerRow
      <3>2. run' = UpdateRun(Run(w), "completed", "none")
        BY <2>4, <3>1 DEF StoreOutcome, PersistedStatus, PersistedError
      <3>3. CASE RunWritable(Run(w), "completed")
        <4>1. run'[Run(w)].status = "completed"
          BY <1>0, <1>6, <3>2, <3>3, RunWriteEffect DEF RunStatus, TerminalStatus
        <4> QED
          BY <1>6, <4>1 DEF Terminal, TerminalStatus
      <3>4. CASE ~RunWritable(Run(w), "completed")
        BY <1>0, <1>6, <3>4, TerminalStays DEF RunWritable, Terminal
      <3> QED
        BY <3>3, <3>4
    <2> QED
      BY <2>1, <2>2, <2>3, <2>4
  <1> QED
    BY <1>4, <1>5, <1>7 DEF Owned, At

\* A process that settles its job, or its run.
LEMMA OwnedSettle ==
  ASSUME Budgeted, [Next]_vars, NEW w \in Workers, SettleStep(w)
  PROVE  Owned(w)'
  <1>0. StoreTypeOK /\ WorkerTypeOK /\ Guarded /\ Typed /\ Owned(w)
    BY DEF Budgeted, Guarded, Typed, TypeOK
  <1>1. Busy(w)
    BY DEF SettleStep, CompleteJob, PromoteRun, RejectJob, FailRun, FailJob, RequeueRun,
           EmitRunFailed, At, Busy
  <1>2. /\ Job(w) \in JobId /\ job[Job(w)].status # "absent" /\ Run(w) \in Runs
        /\ worker[w].attempt \in Nat /\ job[Job(w)].attempts \in Nat
    BY <1>0, <1>1, BusyHolds, Refers, WorkerFields, JobFields
  <1>3. ASSUME Goto(w, "promoting") \/ Goto(w, "retrying")
        PROVE  Job(w)' = Job(w) /\ Run(w)' = Run(w) /\ worker'[w].attempt = worker[w].attempt
               /\ (Terminal(Run(w)) => Terminal(Run(w))')
    <2>1. Job(w)' = Job(w) /\ worker'[w].attempt = worker[w].attempt
      BY <1>0, <1>3 DEF Goto, WorkerTypeOK, WorkerRow, Job
    <2>2. Run(w)' = Run(w)
      BY <1>0, <1>2, <2>1, JobMoves DEF Run, Job
    <2> QED
      BY <1>0, <1>2, <2>1, <2>2, TerminalStays DEF Terminal
  <1>4. CASE CompleteJob(w)
    <2>1. CASE worker[w].outcome = "completed"
      <3>1. Goto(w, "promoting") /\ worker'[w].pc = "promoting"
        BY <1>0, <1>4, <2>1 DEF CompleteJob, Goto, WorkerTypeOK, WorkerRow
      <3>2. Terminal(Run(w))
        BY <1>0, <1>4, <2>1 DEF Owned, CompleteJob
      <3> QED
        BY <1>3, <3>1, <3>2 DEF Owned, At, Handling
    <2>2. CASE worker[w].outcome # "completed"
      BY <1>0, <1>4, <2>2, ReleaseEffect DEF CompleteJob, Owned, At, Handling
    <2> QED
      BY <2>1, <2>2
  <1>5. CASE FailJob(w)
    <2>1. Goto(w, "retrying") /\ worker'[w].pc = "retrying" /\ At(w, "failing")
      BY <1>0, <1>5 DEF FailJob, Goto, WorkerTypeOK, WorkerRow
    <2>2. ASSUME job[Job(w)].owner = w, ~Exhausted(w)'
          PROVE  job'[Job(w)'].status = "retry_wait"
      <3>1. worker[w].attempt = job[Job(w)].attempts
        BY <1>0, <1>1, <2>2 DEF Guarded, Fenced
      <3>2. job[Job(w)].attempts < MaxAttempts
        BY <1>2, <1>3, <2>1, <2>2, <3>1, StoreAssumption DEF Exhausted
      <3>3. job' = Settled(Job(w), w, "retry_wait")
        BY <1>5, <3>2 DEF FailJob
      <3> QED
        BY <1>0, <1>2, <1>3, <2>1, <2>2, <3>3, SettledEffect DEF Leased, JobStatus
    <2>3. Overtaken(w) => Overtaken(w)'
      BY <1>0, <1>2, <1>3, <2>1, JobMoves DEF Overtaken
    <2>4. job[Job(w)].owner = w \/ Overtaken(w) \/ Terminal(Run(w))
      BY <1>0, <2>1 DEF Owned
    <2> QED
      BY <1>3, <2>1, <2>2, <2>3, <2>4 DEF Owned, At, Handling
  <1>6. CASE RejectJob(w)
    BY <1>0, <1>6 DEF RejectJob, Goto, WorkerTypeOK, WorkerRow, Owned, At, Handling
  <1>7. CASE PromoteRun(w) \/ FailRun(w) \/ RequeueRun(w) \/ EmitRunFailed(w)
    <2>1. worker'[w].pc \in {"idle", "reporting"}
      BY <1>0, <1>7 DEF PromoteRun, FailRun, RequeueRun, EmitRunFailed, Goto, Release, Idle,
                        WorkerTypeOK, WorkerRow
    <2> QED
      BY <2>1 DEF Owned, At, Handling
  <1> QED
    BY <1>4, <1>5, <1>6, <1>7 DEF SettleStep

\* A process whose database call fails, whose lease is lost, or that dies.
LEMMA OwnedFailure ==
  ASSUME Budgeted, [Next]_vars, NEW w \in Workers, LeaseLost(w) \/ DbFault(w) \/ Crash(w)
  PROVE  Owned(w)'
  <1>0. StoreTypeOK /\ WorkerTypeOK /\ Guarded /\ Typed /\ Owned(w)
    BY DEF Budgeted, Guarded, Typed, TypeOK
  <1>1. CASE worker'[w].pc \in {"idle", "dead"}
    BY <1>1 DEF Owned, At, Handling
  <1>2. CASE LeaseLost(w) \/ Crash(w) \/ Release(w)
    BY <1>0, <1>1, <1>2 DEF LeaseLost, Crash, Release, Idle, WorkerTypeOK
  <1>3. CASE DbFault(w) /\ ~Release(w)
    <2>1. /\ worker[w].pc \in {"claimed", "settling", "promoting"} \cup Handling
          /\ Busy(w) /\ UNCHANGED store
          /\ Goto(w, "failing") \/ Finish(w, "draining", "retryable")
      BY <1>3 DEF DbFault, At, Busy, Handling
    <2>2. /\ worker'[w].pc \in {"failing", "draining"}
          /\ worker'[w].job = worker[w].job /\ worker'[w].attempt = worker[w].attempt
      BY <1>0, <2>1 DEF Goto, Finish, WorkerTypeOK, WorkerRow
    <2>3. /\ job' = job /\ run' = run
          /\ Job(w)' = Job(w) /\ Run(w)' = Run(w)
      BY <2>1, <2>2 DEF store, Job, Run
    <2>4. CASE At(w, "promoting")
      <3>1. worker'[w].pc = "failing"
        BY <1>0, <1>3, <2>4 DEF DbFault, At, Goto, WorkerTypeOK, WorkerRow, Settling
      <3>2. Terminal(Run(w))
        BY <1>0, <2>4 DEF Owned
      <3>3. Terminal(Run(w))'
        BY <2>3, <3>2 DEF Terminal
      <3> QED
        BY <3>1, <3>3 DEF Owned, At, Handling
    <2>5. CASE ~At(w, "promoting")
      <3>1. job[Job(w)].owner = w \/ Overtaken(w)
        BY <1>0, <2>1, <2>5 DEF Owned, At
      <3> QED
        BY <2>2, <2>3, <3>1 DEF Owned, At, Overtaken, Handling
    <2> QED
      BY <2>4, <2>5
  <1> QED
    BY <1>2, <1>3

\* Budgeted is inductive.
LEMMA OwnedStep == Budgeted /\ [Next]_vars => Budgeted'
  <1> SUFFICES ASSUME Budgeted, [Next]_vars, NEW w \in Workers
               PROVE  Owned(w)'
    BY FencedStep DEF Budgeted
  <1>0. StoreTypeOK /\ WorkerTypeOK /\ Guarded /\ Typed /\ Owned(w)
    BY DEF Budgeted, Guarded, Typed, TypeOK
  <1>1. CASE worker'[w] = worker[w]
    BY <1>0, <1>1, OwnedKept
  <1>2. ASSUME Claim(w)
        PROVE  Owned(w)'
    <2>1. PICK j \in JobId : /\ job' = ClaimedBy(j, w)
                             /\ worker' = [worker EXCEPT ![w] = Claimed(j, job[j].attempts + 1)]
      BY <1>2 DEF Claim
    <2>2. worker'[w].pc = "claimed" /\ Job(w)' = j /\ job'[j].owner = w
      BY <1>0, <2>1, ClaimedEffect DEF Claimed, WorkerTypeOK, Job
    <2> QED
      BY <2>2 DEF Owned, At
  <1>3. ASSUME NEW v \in Workers, v # w,
               \/ Claim(v) \/ WorkerStep(v) \/ Persist(v) \/ Heartbeat(v) \/ LeaseLost(v)
               \/ DbFault(v) \/ Crash(v)
        PROVE  worker'[w] = worker[w]
    <2>1. UNCHANGED worker \/ \E row : worker' = [worker EXCEPT ![v] = row]
      BY <1>0, <1>3
      DEF WorkerTypeOK, WorkerStep, HandlerStep, SettleStep, Claim, Persist, Heartbeat,
          LeaseLost, DbFault, Crash, SetRunning, ReadRun, ReadForResume, CheckStarted,
          InvokeGraph, ResumeGraph, GraphCompletes, GraphFails, GraphCancelled, RequestApproval,
          Interrupt, Drained, StoreOutcome, CompleteJob, PromoteRun, RejectJob, FailRun,
          FailJob, RequeueRun, EmitRunFailed, Goto, Finish, Release, local
    <2> QED
      BY <1>0, <1>3, <2>1 DEF WorkerTypeOK
  <1>4. CASE WorkerNext
    <2>1. PICK v \in Workers :
            Claim(v) \/ WorkerStep(v) \/ Persist(v) \/ Heartbeat(v) \/ LeaseLost(v)
              \/ DbFault(v) \/ Crash(v)
      BY <1>4 DEF WorkerNext
    <2>2. CASE v # w
      BY <1>1, <1>3, <2>1, <2>2
    <2>3. CASE v = w
      <3>1. Persist(w) \/ Heartbeat(w) => worker'[w] = worker[w]
        BY DEF Persist, Heartbeat, local
      <3> QED
        BY <1>1, <1>2, <2>1, <2>3, <3>1, OwnedHandler, OwnedSettle, OwnedFailure DEF WorkerStep
    <2> QED
      BY <2>2, <2>3
  <1>5. CASE ApiNext \/ (\E j \in JobId : LeaseExpires(j)) \/ UNCHANGED vars
    BY <1>1, <1>5 DEF ApiNext, LeaseExpires, local, vars
  <1> QED
    BY <1>4, <1>5 DEF Next

\* It holds of idle processes.
LEMMA OwnedInit == Init => Budgeted
  <1>1. Init => \A w \in Workers : Owned(w)
    BY DEF Init, WorkerInit, Idle, Owned, At, Handling
  <1> QED
    BY <1>1, FencedInit DEF Budgeted

\* It holds in every reachable state.
LEMMA OwnedAlways == Spec => []Budgeted
  <1>1. Init => Budgeted
    BY OwnedInit
  <1>2. Budgeted /\ [Next]_vars => Budgeted'
    BY OwnedStep
  <1> QED
    BY <1>1, <1>2, PTL DEF Spec

\* What the step that requeues a run leaves behind.
LEMMA RequeueStep ==
  ASSUME Budgeted, [Next]_vars, NEW w \in Workers,
         At(w, "retrying"), worker'[w] # worker[w], run'[Run(w)] # run[Run(w)],
         run'[Run(w)].status = "queued"
  PROVE  \/ job'[Job(w)].status \in {"queued", "retry_wait", "running"}
         \/ job'[Job(w)].attempts > worker[w].attempt
  <1>0. StoreTypeOK /\ WorkerTypeOK /\ Guarded /\ Typed /\ Owned(w)
    BY DEF Budgeted, Guarded, Typed, TypeOK
  <1>1. /\ Busy(w) /\ Job(w) \in JobId /\ Run(w) \in Runs
        /\ worker[w].attempt \in Nat /\ job[Job(w)].attempts \in Nat
    BY <1>0, BusyHolds, Refers, WorkerFields, JobFields DEF At, Busy
  <1>2. RequeueRun(w)
    <2>1. CASE WorkerNext
      <3>1. PICK v \in Workers :
              Claim(v) \/ WorkerStep(v) \/ Persist(v) \/ Heartbeat(v) \/ LeaseLost(v)
                \/ DbFault(v) \/ Crash(v)
        BY <2>1 DEF WorkerNext
      <3>2. UNCHANGED worker \/ \E row : worker' = [worker EXCEPT ![v] = row]
        BY <1>0, <3>1
        DEF WorkerTypeOK, WorkerStep, HandlerStep, SettleStep, Claim, Persist, Heartbeat,
            LeaseLost, DbFault, Crash, SetRunning, ReadRun, ReadForResume, CheckStarted,
            InvokeGraph, ResumeGraph, GraphCompletes, GraphFails, GraphCancelled,
            RequestApproval, Interrupt, Drained, StoreOutcome, CompleteJob, PromoteRun,
            RejectJob, FailRun, FailJob, RequeueRun, EmitRunFailed, Goto, Finish, Release, local
      <3>3. v = w
        BY <1>0, <3>2 DEF WorkerTypeOK
      <3>4. ~ UNCHANGED run
        OBVIOUS
      <3> QED
        BY <3>1, <3>3, <3>4
        DEF WorkerStep, HandlerStep, SettleStep, Claim, Persist, Heartbeat, LeaseLost,
            DbFault, Crash, SetRunning, ReadRun, ReadForResume, CheckStarted, InvokeGraph,
            ResumeGraph, GraphCompletes, GraphFails, GraphCancelled, RequestApproval, Interrupt,
            Drained, StoreOutcome, CompleteJob, PromoteRun, RejectJob, FailRun, FailJob,
            RequeueRun, EmitRunFailed, store, At
    <2>2. CASE ApiNext \/ (\E j \in JobId : LeaseExpires(j)) \/ UNCHANGED vars
      BY <2>2 DEF ApiNext, LeaseExpires, local, vars
    <2> QED
      BY <2>1, <2>2 DEF Next
  <1>3. /\ UNCHANGED job
        /\ run' = SetRunStatus(Run(w), IF Exhausted(w) THEN "failed" ELSE "queued", "worker")
    BY <1>2 DEF RequeueRun
  <1>4. RunWritable(Run(w), IF Exhausted(w) THEN "failed" ELSE "queued")
    BY <1>3 DEF SetRunStatus
  <1>5. ~Exhausted(w)
    <2> SUFFICES ASSUME Exhausted(w)
                 PROVE  FALSE
      OBVIOUS
    <2>1. run' = SetRunStatus(Run(w), "failed", "worker") /\ RunWritable(Run(w), "failed")
      BY <1>3, <1>4
    <2>2. run'[Run(w)].status = "failed"
      BY <1>0, <1>1, <2>1, RunWriteEffect DEF RunStatus, TerminalStatus
    <2> QED
      BY <2>2
  <1>6. ~Terminal(Run(w))
    BY <1>4, <1>5 DEF RunWritable, Terminal, TerminalStatus
  <1>7. job[Job(w)].status \in {"queued", "retry_wait", "running"} \/ Overtaken(w)
    BY <1>0, <1>5, <1>6 DEF Owned
  <1> QED
    BY <1>1, <1>3, <1>7 DEF Overtaken

\* A run goes back to the queue with a job to be run by, or another process
\* has claimed that job since: fail() and run_once read the attempt count at
\* two times and never strand the run between them.
THEOREM RequeueHasJob == Spec => RequeuedHasJob
  <1>1. Budgeted /\ [Next]_vars
        => [\A w \in Workers :
              At(w, "retrying") /\ worker'[w] # worker[w] /\ run'[Run(w)] # run[Run(w)]
                /\ run'[Run(w)].status = "queued"
              => \/ job'[Job(w)].status \in {"queued", "retry_wait", "running"}
                 \/ job'[Job(w)].attempts > worker[w].attempt]_vars
    BY RequeueStep
  <1> QED
    BY <1>1, OwnedAlways, PTL DEF Spec, RequeuedHasJob
=============================================================================

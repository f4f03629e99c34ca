--------------------------- MODULE ApprovalProofs ---------------------------
(***************************************************************************)
(* Approvals: an approved action stays approved, so what a thread took as  *)
(* granted was preceded by an approval; and a resolution enqueues at most  *)
(* one job, so the jobs of a run are counted by its resolutions.           *)
(***************************************************************************)
EXTENDS AgentRuntimeProofs, FiniteSetTheorems

-----------------------------------------------------------------------------
(* What a step does to the approvals and the thread. *)

\* An approval that is not approved changes in three ways, an approved one
\* in none.
LEMMA ApprovalMoves ==
  ASSUME Typed, [Next]_vars
  PROVE  \/ UNCHANGED approval
         \/ \E r \in Runs : \E a \in Actions : approval' = CreatePending(r, a)
         \/ \E r \in Runs : \E a \in Actions :
              /\ approval[r][a] = "pending"
              /\ \/ approval' = [approval EXCEPT ![r][a] = "expired"]
                 \/ \E d \in Resolution : ResolveApproval(r, a, d)
  <1>1. CASE WorkerNext
    <2>1. PICK w \in Workers :
            Claim(w) \/ WorkerStep(w) \/ Persist(w) \/ Heartbeat(w) \/ LeaseLost(w)
              \/ DbFault(w) \/ Crash(w)
      BY <1>1 DEF WorkerNext
    <2>2. CASE RequestApproval(w)
      <3>1. Run(w) \in Runs
        BY <2>2, Refers DEF RequestApproval, At, Busy
      <3> QED
        BY <2>2, <3>1 DEF RequestApproval
    <2>3. UNCHANGED approval \/ RequestApproval(w)
      BY <2>1
      DEF Claim, Persist, Heartbeat, LeaseLost, DbFault, Crash, WorkerStep, HandlerStep, SetRunning,
          ReadRun, ReadForResume, CheckStarted, InvokeGraph, ResumeGraph, GraphCompletes,
          GraphFails, GraphCancelled, Interrupt, Drained, StoreOutcome, SettleStep, CompleteJob,
          PromoteRun, RejectJob, FailRun, FailJob, RequeueRun, EmitRunFailed, store
    <2> QED
      BY <2>2, <2>3
  <1>2. CASE ApiNext
    BY <1>2 DEF ApiNext, CreateRun, CancelRun, AnnounceCancel, LoseAnnouncement, ResolveApproval,
                ExpireApproval, Resolvable, store
  <1>3. CASE (\E j \in JobId : LeaseExpires(j)) \/ UNCHANGED vars
    BY <1>3 DEF LeaseExpires, vars, store
  <1> QED
    BY <1>1, <1>2, <1>3 DEF Next

\* An approval once given is never taken back.
LEMMA ApprovedStays ==
  ASSUME Typed, [Next]_vars, NEW r \in Runs, NEW a \in Actions, approval[r][a] = "approved"
  PROVE  approval'[r][a] = "approved"
  <1>0. approval \in [Runs -> [Actions -> ApprovalStatus \cup {"absent"}]]
    BY DEF Typed, TypeOK, StoreTypeOK
  <1>1. ASSUME NEW s \in Runs, NEW b \in Actions, approval[s][b] # "approved",
               NEW status, approval' = [approval EXCEPT ![s][b] = status]
        PROVE  approval'[r][a] = "approved"
    BY <1>0, <1>1
  <1>2. CASE UNCHANGED approval
    BY <1>2
  <1>3. CASE \E s \in Runs : \E b \in Actions : approval' = CreatePending(s, b)
    BY <1>1, <1>3 DEF CreatePending
  <1>4. CASE \E s \in Runs : \E b \in Actions :
               /\ approval[s][b] = "pending"
               /\ \/ approval' = [approval EXCEPT ![s][b] = "expired"]
                  \/ \E d \in Resolution : ResolveApproval(s, b, d)
    BY <1>1, <1>4 DEF ResolveApproval
  <1> QED
    BY <1>2, <1>3, <1>4, ApprovalMoves

\* A thread takes an action as granted only when it is handed an approved
\* decision of its run.
LEMMA GrantedBy ==
  ASSUME Typed, [Next]_vars, NEW r \in Runs, granted'[r] # granted[r]
  PROVE  \E a \in Actions : approval[r][a] = "approved"
  <1>0. StoreTypeOK /\ WorkerTypeOK
    BY DEF Typed, TypeOK
  <1>1. ASSUME NEW w \in Workers, ResumeGraph(w)
        PROVE  \E a \in Actions : approval[r][a] = "approved"
    <2>1. worker[w].resume \in Actions
      BY <1>0, <1>1, WorkerFields DEF ResumeGraph
    <2>2. approval[r][worker[w].resume] = "approved"
      BY <1>0, <1>1 DEF ResumeGraph, StoreTypeOK
    <2> QED
      BY <2>1, <2>2
  <1>2. ASSUME UNCHANGED granted
        PROVE  FALSE
    BY <1>2
  <1>3. CASE WorkerNext
    <2>1. PICK w \in Workers :
            Claim(w) \/ WorkerStep(w) \/ Persist(w) \/ Heartbeat(w) \/ LeaseLost(w)
              \/ DbFault(w) \/ Crash(w)
      BY <1>3 DEF WorkerNext
    <2>2. UNCHANGED granted \/ ResumeGraph(w)
      BY <2>1
      DEF Claim, Persist, Heartbeat, LeaseLost, DbFault, Crash, WorkerStep, HandlerStep,
          SetRunning, ReadRun, ReadForResume, CheckStarted, InvokeGraph, GraphCompletes,
          GraphFails, GraphCancelled, RequestApproval, Interrupt, Drained, StoreOutcome,
          SettleStep, CompleteJob, PromoteRun, RejectJob, FailRun, FailJob, RequeueRun,
          EmitRunFailed, store
    <2> QED
      BY <1>1, <1>2, <2>2
  <1>4. CASE ApiNext \/ (\E j \in JobId : LeaseExpires(j)) \/ UNCHANGED vars
    BY <1>2, <1>4 DEF ApiNext, CreateRun, CancelRun, AnnounceCancel, LoseAnnouncement,
       ResolveApproval, ExpireApproval, LeaseExpires, vars, store
  <1> QED
    BY <1>3, <1>4 DEF Next

\* Nothing is taken as granted in a run nobody approved anything of: pending,
\* expired and rejected approvals never resume a thread as granted
\* (execute_run_sync, _require_approval).
THEOREM NothingGranted == Spec => []NothingGrantedUnapproved
  <1>1. Init => Typed /\ NothingGrantedUnapproved
    BY TypedInit DEF Init, StoreInit, NothingGrantedUnapproved
  <1>2. (Typed /\ NothingGrantedUnapproved) /\ [Next]_vars
        => (Typed /\ NothingGrantedUnapproved)'
    <2> SUFFICES ASSUME Typed, NothingGrantedUnapproved, [Next]_vars, NEW r \in Runs,
                        granted'[r] # {}
                 PROVE  \E a \in Actions : approval'[r][a] = "approved"
      BY TypedStep DEF NothingGrantedUnapproved
    <2>1. \E a \in Actions : approval[r][a] = "approved"
      BY GrantedBy DEF NothingGrantedUnapproved
    <2> QED
      BY <2>1, ApprovedStays
  <1> QED
    BY <1>1, <1>2, PTL DEF Spec
-----------------------------------------------------------------------------
(* Jobs and resolutions. *)

JobsOf(r)     == {j \in JobId : job[j].run = r}
ResolvedOf(r) == {a \in Actions : Resolved(r, a)}

\* Only creation and a resolution in time give a run a job, one each.
LEMMA NewJobs ==
  ASSUME Typed, [Next]_vars
  PROVE  \/ \A j \in JobId : job'[j].run = job[j].run
         \/ \E r \in Runs : \E i \in JobId :
              /\ job[i].run = None
              /\ \A j \in JobId : job'[j].run = IF j = i THEN r ELSE job[j].run
              /\ \/ ~Exists(r)
                 \/ \E a \in Actions : \E d \in Resolution : ResolveApproval(r, a, d)
  <1>0. StoreTypeOK
    BY DEF Typed, TypeOK
  <1>1. ASSUME NEW r \in Runs, NEW i \in JobId, NextJob(i), job' = [job EXCEPT ![i] = QueuedJob(r)]
        PROVE  /\ job[i].run = None
               /\ \A j \in JobId : job'[j].run = IF j = i THEN r ELSE job[j].run
    BY <1>0, <1>1, QueuedEffect DEF Typed, Linked, NextJob
  <1>2. CASE ApiNext
    <2>1. PICK r \in Runs :
            \/ CreateRun(r) \/ CancelRun(r) \/ AnnounceCancel(r) \/ LoseAnnouncement(r)
            \/ \E a \in Actions : \/ \E d \in Resolution : ResolveApproval(r, a, d)
                                  \/ ExpireApproval(r, a)
      BY <1>2 DEF ApiNext
    <2>2. CASE UNCHANGED job
      BY <2>2
    <2>3. CASE CreateRun(r)
      BY <1>1, <2>3 DEF CreateRun
    <2>4. ASSUME NEW a \in Actions, NEW d \in Resolution, ResolveApproval(r, a, d), ~ UNCHANGED job
          PROVE  \E i \in JobId :
                   /\ job[i].run = None
                   /\ \A j \in JobId : job'[j].run = IF j = i THEN r ELSE job[j].run
      BY <1>1, <2>4 DEF ResolveApproval
    <2> QED
      BY <2>1, <2>2, <2>3, <2>4
      DEF CancelRun, AnnounceCancel, LoseAnnouncement, ExpireApproval, store
  <1>3. CASE WorkerNext
    <2>1. PICK w \in Workers :
            Claim(w) \/ WorkerStep(w) \/ Persist(w) \/ Heartbeat(w) \/ LeaseLost(w)
              \/ DbFault(w) \/ Crash(w)
      BY <1>3 DEF WorkerNext
    <2>2. \/ UNCHANGED job
          \/ \E j \in JobId : job' = ClaimedBy(j, w)
          \/ \E status \in JobStatus : job' = Settled(Job(w), w, status)
          \/ job' = [job EXCEPT ![Job(w)].expired = FALSE]
      BY <2>1
      DEF Claim, Persist, Heartbeat, LeaseLost, DbFault, Crash, WorkerStep, HandlerStep,
          SetRunning, ReadRun, ReadForResume, CheckStarted, InvokeGraph, ResumeGraph,
          GraphCompletes, GraphFails, GraphCancelled, RequestApproval, Interrupt, Drained,
          StoreOutcome, SettleStep, CompleteJob, PromoteRun, RejectJob, FailRun, FailJob,
          RequeueRun, EmitRunFailed, store, JobStatus
    <2>3. ASSUME NEW j \in JobId
          PROVE  job'[j].run = job[j].run
      <3>1. CASE \E i \in JobId : job' = ClaimedBy(i, w)
        BY <1>0, <3>1, ClaimedEffect
      <3>2. CASE \E status \in JobStatus : job' = Settled(Job(w), w, status)
        BY <1>0, <3>2 DEF StoreTypeOK, JobRow, Settled
      <3>3. CASE job' = [job EXCEPT ![Job(w)].expired = FALSE]
        BY <1>0, <3>3 DEF StoreTypeOK, JobRow
      <3> QED
        BY <2>2, <3>1, <3>2, <3>3
    <2> QED
      BY <2>3
  <1>4. CASE (\E j \in JobId : LeaseExpires(j)) \/ UNCHANGED vars
    <2>1. UNCHANGED job \/ \E j \in JobId : job' = [job EXCEPT ![j].expired = TRUE]
      BY <1>4 DEF LeaseExpires, vars, store
    <2>2. ASSUME NEW i \in JobId, job' = [job EXCEPT ![i].expired = TRUE], NEW j \in JobId
          PROVE  job'[j].run = job[j].run
      BY <1>0, <2>2 DEF StoreTypeOK, JobRow
    <2> QED
      BY <2>1, <2>2
  <1> QED
    BY <1>2, <1>3, <1>4 DEF Next

\* What was resolved stays resolved, and a step resolves at most one action.
LEMMA ResolvedMoves ==
  ASSUME Typed, [Next]_vars, NEW r \in Runs
  PROVE  /\ \/ ResolvedOf(r)' = ResolvedOf(r)
            \/ \E a \in Actions : ResolvedOf(r)' = ResolvedOf(r) \cup {a}
         /\ \A a \in Actions : \A d \in Resolution :
              ResolveApproval(r, a, d) => /\ a \notin ResolvedOf(r)
                                          /\ ResolvedOf(r)' = ResolvedOf(r) \cup {a}
  <1>0. approval \in [Runs -> [Actions -> ApprovalStatus \cup {"absent"}]]
    BY DEF Typed, TypeOK, StoreTypeOK
  <1>1. ASSUME NEW s \in Runs, NEW b \in Actions, approval[s][b] \notin Resolution,
               NEW status, status \notin Resolution,
               approval' = [approval EXCEPT ![s][b] = status]
        PROVE  ResolvedOf(r)' = ResolvedOf(r)
    BY <1>0, <1>1 DEF ResolvedOf, Resolved
  <1>2. ASSUME NEW s \in Runs, NEW b \in Actions, approval[s][b] \notin Resolution,
               NEW d \in Resolution, approval' = [approval EXCEPT ![s][b] = d]
        PROVE  /\ s = r => b \notin ResolvedOf(r) /\ ResolvedOf(r)' = ResolvedOf(r) \cup {b}
               /\ s # r => ResolvedOf(r)' = ResolvedOf(r)
    BY <1>0, <1>2 DEF ResolvedOf, Resolved
  <1>3. ASSUME NEW s \in Runs, NEW b \in Actions, NEW d \in Resolution, ResolveApproval(s, b, d)
        PROVE  /\ s = r => b \notin ResolvedOf(r) /\ ResolvedOf(r)' = ResolvedOf(r) \cup {b}
               /\ s # r => ResolvedOf(r)' = ResolvedOf(r)
    BY <1>2, <1>3 DEF ResolveApproval, Resolvable, Resolution
  <1>4. \/ ResolvedOf(r)' = ResolvedOf(r)
        \/ \E a \in Actions : ResolvedOf(r)' = ResolvedOf(r) \cup {a}
    <2>1. CASE UNCHANGED approval
      BY <2>1 DEF ResolvedOf, Resolved
    <2>2. CASE \E s \in Runs : \E b \in Actions : approval' = CreatePending(s, b)
      <3>1. PICK s \in Runs, b \in Actions : approval' = CreatePending(s, b)
        BY <2>2
      <3>2. CASE approval[s][b] = "absent"
        <4>1. approval' = [approval EXCEPT ![s][b] = "pending"]
          BY <3>1, <3>2 DEF CreatePending
        <4>2. approval[s][b] \notin Resolution /\ "pending" \notin Resolution
          BY <3>2 DEF Resolution
        <4> QED
          BY <1>1, <4>1, <4>2
      <3> QED
        BY <2>1, <3>1, <3>2 DEF CreatePending
    <2>3. CASE \E s \in Runs : \E b \in Actions :
                 /\ approval[s][b] = "pending"
                 /\ \/ approval' = [approval EXCEPT ![s][b] = "expired"]
                    \/ \E d \in Resolution : ResolveApproval(s, b, d)
      <3>1. PICK s \in Runs, b \in Actions :
                 /\ approval[s][b] = "pending"
                 /\ \/ approval' = [approval EXCEPT ![s][b] = "expired"]
                    \/ \E d \in Resolution : ResolveApproval(s, b, d)
        BY <2>3
      <3>2. CASE approval' = [approval EXCEPT ![s][b] = "expired"]
        <4>1. approval[s][b] \notin Resolution /\ "expired" \notin Resolution
          BY <3>1 DEF Resolution
        <4> QED
          BY <1>1, <3>2, <4>1
      <3> QED
        BY <1>3, <3>1, <3>2
    <2> QED
      BY <2>1, <2>2, <2>3, ApprovalMoves
  <1> QED
    BY <1>3, <1>4

\* What DeliveriesAuthorised says of one run, with what it takes to count.
AuthorisedOf(r) == /\ IsFiniteSet(ResolvedOf(r))
                   /\ Cardinality(JobsOf(r)) <= 1 + Cardinality(ResolvedOf(r))

Authorised == Typed /\ \A r \in Runs : AuthorisedOf(r)

\* The jobs table is finite.
LEMMA JobsFinite ==
  ASSUME NEW r
  PROVE  IsFiniteSet(JobsOf(r)) /\ Cardinality(JobsOf(r)) \in Nat
  <1>1. IsFiniteSet(JobId)
    BY FS_Interval, StoreAssumption DEF JobId
  <1>2. JobsOf(r) \subseteq JobId
    BY DEF JobsOf
  <1>3. IsFiniteSet(JobsOf(r))
    BY <1>1, <1>2, FS_Subset
  <1> QED
    BY <1>3, FS_CardinalityType

\* Authorised is inductive: a job more needs a resolution more.
LEMMA AuthorisedStep == Authorised /\ [Next]_vars => Authorised'
  <1> SUFFICES ASSUME Authorised, [Next]_vars, NEW r \in Runs
               PROVE  AuthorisedOf(r)'
    BY TypedStep DEF Authorised
  <1>0. Typed /\ AuthorisedOf(r)
    BY DEF Authorised
  <1>1. Cardinality(JobsOf(r)) \in Nat /\ Cardinality(ResolvedOf(r)) \in Nat
    BY <1>0, JobsFinite, FS_CardinalityType DEF AuthorisedOf
  <1>2. ASSUME NEW a, ResolvedOf(r)' = ResolvedOf(r) \cup {a}
        PROVE  /\ IsFiniteSet(ResolvedOf(r)')
               /\ Cardinality(ResolvedOf(r)') = IF a \in ResolvedOf(r)
                                                THEN Cardinality(ResolvedOf(r))
                                                ELSE Cardinality(ResolvedOf(r)) + 1
    BY <1>0, <1>2, FS_AddElement DEF AuthorisedOf
  <1>3. /\ IsFiniteSet(ResolvedOf(r)')
        /\ Cardinality(ResolvedOf(r)') \in Nat
        /\ Cardinality(ResolvedOf(r)) <= Cardinality(ResolvedOf(r)')
    <2>1. \/ ResolvedOf(r)' = ResolvedOf(r)
          \/ \E a \in Actions : ResolvedOf(r)' = ResolvedOf(r) \cup {a}
      BY <1>0, ResolvedMoves
    <2>2. CASE ResolvedOf(r)' = ResolvedOf(r)
      BY <1>0, <1>1, <2>2 DEF AuthorisedOf
    <2>3. ASSUME NEW a \in Actions, ResolvedOf(r)' = ResolvedOf(r) \cup {a}
          PROVE  /\ IsFiniteSet(ResolvedOf(r)')
                 /\ Cardinality(ResolvedOf(r)') \in Nat
                 /\ Cardinality(ResolvedOf(r)) <= Cardinality(ResolvedOf(r)')
      <3>1. /\ IsFiniteSet(ResolvedOf(r)')
            /\ \/ Cardinality(ResolvedOf(r)') = Cardinality(ResolvedOf(r))
               \/ Cardinality(ResolvedOf(r)') = Cardinality(ResolvedOf(r)) + 1
        BY <1>2, <2>3
      <3> QED
        BY <1>1, <3>1
    <2> QED
      BY <2>1, <2>2, <2>3
  <1>4. CASE JobsOf(r)' = JobsOf(r)
    BY <1>0, <1>1, <1>3, <1>4 DEF AuthorisedOf
  <1>5. ASSUME NEW i \in JobId, JobsOf(r)' = JobsOf(r) \cup {i}
        PROVE  Cardinality(JobsOf(r)') <= Cardinality(JobsOf(r)) + 1
               /\ Cardinality(JobsOf(r)') \in Nat
    <2>1. IsFiniteSet(JobsOf(r))
      BY JobsFinite
    <2>2. Cardinality(JobsOf(r) \cup {i}) = IF i \in JobsOf(r) THEN Cardinality(JobsOf(r))
                                            ELSE Cardinality(JobsOf(r)) + 1
      BY <2>1, FS_AddElement
    <2> QED
      BY <1>1, <1>5, <2>2
  <1>6. CASE ~Exists(r) /\ \E i \in JobId : JobsOf(r)' = JobsOf(r) \cup {i}
    <2>1. JobsOf(r) = {}
      BY <1>0, <1>6, StoreAssumption DEF Typed, Linked, JobsOf
    <2>2. Cardinality(JobsOf(r)) = 0
      BY <2>1, FS_EmptySet
    <2>3. Cardinality(JobsOf(r)') <= 1 /\ Cardinality(JobsOf(r)') \in Nat
      BY <1>5, <1>6, <2>2
    <2> QED
      BY <1>3, <2>3 DEF AuthorisedOf
  <1>7. CASE /\ \E a \in Actions : \E d \in Resolution : ResolveApproval(r, a, d)
             /\ \E i \in JobId : JobsOf(r)' = JobsOf(r) \cup {i}
    <2>1. PICK a \in Actions : a \notin ResolvedOf(r) /\ ResolvedOf(r)' = ResolvedOf(r) \cup {a}
      BY <1>0, <1>7, ResolvedMoves
    <2>2. Cardinality(ResolvedOf(r)') = Cardinality(ResolvedOf(r)) + 1
      BY <1>2, <2>1
    <2>3. Cardinality(JobsOf(r)') <= Cardinality(JobsOf(r)) + 1 /\ Cardinality(JobsOf(r)') \in Nat
      BY <1>5, <1>7
    <2>4. Cardinality(JobsOf(r)) <= 1 + Cardinality(ResolvedOf(r))
      BY <1>0 DEF AuthorisedOf
    <2>5. Cardinality(JobsOf(r)') <= 1 + Cardinality(ResolvedOf(r)')
      BY <1>1, <2>2, <2>3, <2>4
    <2> QED
      BY <1>3, <2>5 DEF AuthorisedOf
  <1>8. CASE \A j \in JobId : job'[j].run = job[j].run
    BY <1>4, <1>8 DEF JobsOf
  <1>9. ASSUME NEW s \in Runs, NEW i \in JobId,
               job[i].run = None,
               \A j \in JobId : job'[j].run = IF j = i THEN s ELSE job[j].run,
               \/ ~Exists(s)
               \/ \E a \in Actions : \E d \in Resolution : ResolveApproval(s, a, d)
        PROVE  AuthorisedOf(r)'
    <2>1. CASE s = r
      <3>1. JobsOf(r)' = JobsOf(r) \cup {i}
        BY <1>9, <2>1 DEF JobsOf
      <3> QED
        BY <1>6, <1>7, <1>9, <2>1, <3>1
    <2>2. CASE s # r
      <3>1. JobsOf(r)' = JobsOf(r)
        BY <1>9, <2>2, StoreAssumption DEF JobsOf
      <3> QED
        BY <1>4, <3>1
    <2> QED
      BY <2>1, <2>2
  <1> QED
    BY <1>0, <1>8, <1>9, NewJobs

\* No jobs and no resolutions to begin with.
LEMMA AuthorisedInit == Init => Authorised
  <1> SUFFICES ASSUME Init, NEW r \in Runs
               PROVE  AuthorisedOf(r)
    BY TypedInit DEF Authorised
  <1>1. JobsOf(r) = {} /\ ResolvedOf(r) = {}
    BY StoreAssumption DEF Init, StoreInit, NoJob, JobsOf, ResolvedOf, Resolved, Resolution
  <1> QED
    BY <1>1, FS_EmptySet DEF AuthorisedOf

\* Beyond its first job a run has at most one job for each resolution in
\* time, for any number of approvals, workers and retries: neither repeated
\* resolutions nor attempts enqueue more (resolve_and_enqueue).
THEOREM DeliveriesAlwaysAuthorised == Spec => []DeliveriesAuthorised
  <1>1. Init => Authorised
    BY AuthorisedInit
  <1>2. Authorised /\ [Next]_vars => Authorised'
    BY AuthorisedStep
  <1>3. Authorised => DeliveriesAuthorised
    BY DEF Authorised, AuthorisedOf, DeliveriesAuthorised, JobsOf, ResolvedOf
  <1> QED
    BY <1>1, <1>2, <1>3, PTL DEF Spec
=============================================================================
